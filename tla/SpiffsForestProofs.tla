-------------------------- MODULE SpiffsForestProofs --------------------------
\* The pages of SPIFFS as a forest, for every flash: an object is an index header, the
\* index pages behind it and the data pages they name. This module proves what the page
\* layer does to the counters and to the forest, that the garbage collector leaves every
\* page in its place, and so do the calls that create, rename, truncate and remove.
\* SpiffsStoreProofs goes on to the writes and to what follows.
\*
\* "Settled" says that every page and every open descriptor is in its place; "Busy" says
\* so of the moment when a call has changed an index page in memory and not on the flash.
EXTENDS SpiffsStore, Indices

\* ------------------------- The flash and its counters -------------------------

\* Division rounds down.
LEMMA Quotient ==
  ASSUME NEW p \in Nat, NEW m \in Nat \ {0}, NEW b \in Nat
  PROVE  p \div m = b <=> b * m <= p /\ p < (b + 1) * m
  OBVIOUS

\* How pages and blocks are numbered: page p is in block BlockOf(p), and is its first one
\* if EntryOf(p) is 0.
LEMMA BlockPages ==
  /\ \A b \in Blocks : b * MAX_ENTRIES \in Pages /\ b * MAX_ENTRIES \in PagesOf(b)
  /\ \A b \in Blocks : PagesOf(b) \subseteq Pages
  /\ \A p \in Pages, b \in Blocks : BlockOf(p) = b <=> p \in PagesOf(b)
  /\ \A p \in Pages : BlockOf(p) \in Blocks
  /\ \A p \in Pages : EntryOf(p) = 0 <=> p = BlockOf(p) * MAX_ENTRIES
  /\ \A b \in Blocks : BlockOf(b * MAX_ENTRIES) = b
<1>1. block_count \in Nat \ {0} /\ MAX_ENTRIES \in Nat \ {0}
  BY SizesAssumption
<1>2. ASSUME NEW b \in Blocks PROVE b \in Nat /\ PagesOf(b) \subseteq Pages /\ b * MAX_ENTRIES \in PagesOf(b)
  BY <1>1 DEF Blocks, Pages, PagesOf
<1>3. ASSUME NEW p \in Pages, NEW b \in Blocks PROVE BlockOf(p) = b <=> p \in PagesOf(b)
  <2>1. p \in Nat /\ b \in Nat
    BY <1>1 DEF Pages, Blocks
  <2>2. BlockOf(p) = b <=> b * MAX_ENTRIES <= p /\ p < (b + 1) * MAX_ENTRIES
    BY <2>1, <1>1, Quotient DEF BlockOf
  <2>3. p \in PagesOf(b) <=> b * MAX_ENTRIES <= p /\ p < (b + 1) * MAX_ENTRIES
    BY <2>1, <1>1 DEF PagesOf
  <2> QED
    BY <2>2, <2>3
<1>4. ASSUME NEW p \in Pages PROVE BlockOf(p) \in Blocks
  <2>1. p \in Nat /\ p < block_count * MAX_ENTRIES
    BY <1>1 DEF Pages
  <2>2. p \div MAX_ENTRIES \in Nat
    BY <2>1, <1>1
  <2>3. (p \div MAX_ENTRIES) * MAX_ENTRIES <= p
    BY <2>1, <1>1
  <2>4. p \div MAX_ENTRIES < block_count
    BY <2>1, <2>2, <2>3, <1>1
  <2> QED
    BY <2>2, <2>4, <1>1 DEF BlockOf, Blocks
<1>5. ASSUME NEW p \in Pages PROVE EntryOf(p) = 0 <=> p = BlockOf(p) * MAX_ENTRIES
  <2>1. p \in Nat
    BY <1>1 DEF Pages
  <2> QED
    BY <2>1, <1>1 DEF EntryOf, BlockOf
<1> QED
  BY <1>2, <1>3, <1>4, <1>5

\* The pages between two pages of a block are in the block.
LEMMA BlockBetween ==
  ASSUME NEW p \in Pages, NEW q \in Pages, NEW r \in Pages, p <= q, q <= r, BlockOf(p) = BlockOf(r)
  PROVE  BlockOf(q) = BlockOf(p)
<1> DEFINE b == BlockOf(p)
<1>1. b \in Blocks /\ p \in PagesOf(b) /\ r \in PagesOf(b)
  BY BlockPages
<1> HIDE DEF b
<1>2. q \in PagesOf(b)
  <2>1. b * MAX_ENTRIES \in Int /\ (b + 1) * MAX_ENTRIES - 1 \in Int
    BY <1>1, SizesAssumption DEF Blocks
  <2>2. Pages \subseteq Int
    BY SizesAssumption DEF Pages
  <2> QED
    BY <1>1, <2>1, <2>2 DEF PagesOf
<1>3. BlockOf(q) = b
  BY <1>1, <1>2, BlockPages
<1> QED
  BY <1>3 DEF b

\* Behind a page that is not the last of its block comes another one.
LEMMA NextEntry ==
  ASSUME NEW p \in Pages, EntryOf(p) # MAX_ENTRIES - 1
  PROVE  p + 1 \in Pages /\ BlockOf(p + 1) = BlockOf(p)
<1>1. block_count \in Nat \ {0} /\ MAX_ENTRIES \in Nat \ {0}
  BY SizesAssumption
<1>2. p \in Nat /\ p < block_count * MAX_ENTRIES /\ block_count * MAX_ENTRIES \in Nat
  BY <1>1 DEF Pages
<1> DEFINE b == p \div MAX_ENTRIES
<1>3. b \in Nat /\ b * MAX_ENTRIES \in Nat /\ p = b * MAX_ENTRIES + (p % MAX_ENTRIES)
      /\ p % MAX_ENTRIES \in 0 .. MAX_ENTRIES - 1
  BY <1>1, <1>2
<1>4. b < block_count
  BY <1>1, <1>2, <1>3
<1>5. (b + 1) * MAX_ENTRIES = b * MAX_ENTRIES + MAX_ENTRIES /\ (b + 1) * MAX_ENTRIES <= block_count * MAX_ENTRIES
  <2> HIDE DEF b
  <2>1. b + 1 \in Nat /\ block_count - (b + 1) \in Nat
    BY <1>1, <1>3, <1>4
  <2>2. (b + 1) * MAX_ENTRIES = b * MAX_ENTRIES + MAX_ENTRIES
    BY <1>1, <1>3
  <2>3. block_count * MAX_ENTRIES = (b + 1) * MAX_ENTRIES + (block_count - (b + 1)) * MAX_ENTRIES
    BY <1>1, <2>1
  <2>4. (block_count - (b + 1)) * MAX_ENTRIES \in Nat /\ (b + 1) * MAX_ENTRIES \in Nat
    BY <1>1, <2>1
  <2> QED
    BY <2>2, <2>3, <2>4
<1>6. (p % MAX_ENTRIES) + 1 < MAX_ENTRIES
  BY <1>1, <1>3 DEF EntryOf
<1> HIDE DEF b
<1>7. b * MAX_ENTRIES <= p + 1 /\ p + 1 < (b + 1) * MAX_ENTRIES
  BY <1>1, <1>2, <1>3, <1>5, <1>6
<1>8. p + 1 < block_count * MAX_ENTRIES
  BY <1>1, <1>2, <1>3, <1>5, <1>7
<1>9. (p + 1) \div MAX_ENTRIES = b
  <2>1. p + 1 \in Nat /\ b \in Nat
    BY <1>2, <1>3
  <2> QED
    BY <1>1, <1>7, <2>1, Quotient
<1> QED
  BY <1>1, <1>2, <1>8, <1>9 DEF Pages, BlockOf, b

-----------------------------------------------------------------------------

StateFields ==
  {"page", "erase", "fds", "work", "max_erase_count", "free_blocks", "allocated", "deleted",
   "free_cursor", "tearing", "torn", "cursor", "cleaning", "stop", "empty", "starved", "res", "pix"}

PageFields == {"lu", "id", "span", "flags", "size", "name", "ix", "data"}

LiveIds == {n \in Nat : 0 < n /\ n < FREE /\ n \notin {IX_FLAG - 1, IX_FLAG}}

PageOK(pg) ==
  /\ DOMAIN pg = PageFields
  /\ pg.lu \in LiveIds \union {FREE, DELETED}
  /\ pg.lu = FREE => pg.span = FREE
  /\ pg.lu = DELETED => "DELET" \in pg.flags

LivePages(pages) == {p \in Pages : Live(pages, p)}

DeletedPages(pages) == {p \in Pages : pages[p].lu = DELETED}

FreeBlocks(pages) == {b \in Blocks : pages[b * MAX_ENTRIES].lu = FREE}

Flash(s) ==
  /\ DOMAIN s = StateFields
  /\ DOMAIN s.page = Pages
  /\ \A p \in Pages : PageOK(s.page[p])
  /\ DOMAIN s.erase = Blocks
  /\ \A b \in Blocks : s.erase[b] \in Int
  /\ s.max_erase_count \in Int

Counted(s) ==
  /\ s.allocated = Cardinality(LivePages(s.page))
  /\ s.deleted = Cardinality(DeletedPages(s.page))
  /\ s.free_blocks = Cardinality(FreeBlocks(s.page))

Sound(s) == Flash(s) /\ Counted(s)

\* The id of a page in use is none of the special values.
LEMMA LiveId ==
  ASSUME NEW id \in LiveIds
  PROVE  id \in Nat /\ id # FREE /\ id # DELETED /\ id # 0
  BY DEF LiveIds, FREE, DELETED

\* An erased and a deleted page are pages.
LEMMA Blanks ==
  /\ DOMAIN Erased = PageFields /\ Erased.lu = FREE /\ Erased.span = FREE
  /\ DOMAIN DeletedPage = PageFields /\ DeletedPage.lu = DELETED
  /\ PageOK(Erased) /\ PageOK(DeletedPage)
  BY DEF Erased, DeletedPage, PageOK, PageFields, FREE, DELETED

\* There are finitely many pages and blocks.
LEMMA Finite ==
  /\ IsFiniteSet(Pages) /\ IsFiniteSet(Blocks)
  /\ \A pages : /\ IsFiniteSet(LivePages(pages)) /\ IsFiniteSet(DeletedPages(pages))
                /\ IsFiniteSet(FreeBlocks(pages))
<1>1. IsFiniteSet(Pages) /\ IsFiniteSet(Blocks)
  <2>1. block_count * MAX_ENTRIES - 1 \in Int /\ block_count - 1 \in Int
    BY SizesAssumption
  <2> QED
    BY <2>1, FS_Interval DEF Pages, Blocks
<1> QED
  BY <1>1, FS_Subset DEF LivePages, DeletedPages, FreeBlocks

Same(s, t) == t.work = s.work /\ t.fds = s.fds /\ t.cleaning = s.cleaning

\* The pages in use are the same, with the same contents.
SameLive(pages, later) == \A p \in Pages : Live(pages, p) \/ Live(later, p) => later[p] = pages[p]

\* The free pages of a block are its last ones. Where the next search starts, inside a
\* block, is the last page taken there.
FreeLast(pages) ==
  \A p, q \in Pages : /\ BlockOf(p) = BlockOf(q) /\ q < p
                      /\ pages[p].lu # FREE
                      => pages[q].lu # FREE

CursorOK(s) ==
  /\ s.free_cursor \in Pages
  /\ EntryOf(s.free_cursor) \notin {0, MAX_ENTRIES - 1} =>
        s.page[s.free_cursor].lu # FREE /\ s.page[s.free_cursor + 1].lu = FREE

Layout(s) == FreeLast(s.page) /\ CursorOK(s)

\* A live page that is deleted changes place in the counts.
LEMMA PageDelete ==
  ASSUME NEW s, Sound(s), NEW p \in Pages, Live(s.page, p)
  PROVE  /\ Sound(page_delete(s, p))
         /\ page_delete(s, p).page = [s.page EXCEPT ![p] = DeletedPage]
         /\ Same(s, page_delete(s, p))
         /\ page_delete(s, p).res = s.res /\ page_delete(s, p).pix = s.pix
         /\ page_delete(s, p).starved = s.starved /\ page_delete(s, p).free_cursor = s.free_cursor
<1> DEFINE t == page_delete(s, p)
<1>1. /\ DOMAIN t = StateFields /\ t.page = [s.page EXCEPT ![p] = DeletedPage]
      /\ t.deleted = s.deleted + 1 /\ t.allocated = s.allocated - 1
      /\ t.free_blocks = s.free_blocks /\ t.erase = s.erase /\ t.max_erase_count = s.max_erase_count
      /\ Same(s, t) /\ t.res = s.res /\ t.pix = s.pix /\ t.starved = s.starved
      /\ t.free_cursor = s.free_cursor
  BY DEF page_delete, write, Sound, Flash, StateFields, Same
<1> HIDE DEF t
<1>2. LivePages(t.page) = LivePages(s.page) \ {p}
  BY <1>1, Blanks DEF LivePages, Live, Sound, Flash
<1>3. DeletedPages(t.page) = DeletedPages(s.page) \union {p} /\ p \notin DeletedPages(s.page)
  BY <1>1, Blanks DEF DeletedPages, Live, Sound, Flash
<1>4. FreeBlocks(t.page) = FreeBlocks(s.page)
  BY <1>1, Blanks, BlockPages DEF FreeBlocks, Live, Sound, Flash, FREE, DELETED
<1>5. Counted(t)
  <2>1. p \in LivePages(s.page)
    BY DEF LivePages
  <2>2. Cardinality(LivePages(t.page)) = Cardinality(LivePages(s.page)) - 1
    BY <1>2, <2>1, Finite, FS_RemoveElement
  <2>3. Cardinality(DeletedPages(t.page)) = Cardinality(DeletedPages(s.page)) + 1
    BY <1>3, Finite, FS_AddElement
  <2> QED
    BY <1>1, <1>4, <2>2, <2>3 DEF Counted, Sound
<1>6. Flash(t)
  BY <1>1, Blanks DEF Flash, Sound
<1> QED
  BY <1>1, <1>5, <1>6 DEF Sound, t

\* A block whose pages are no longer counted is erased.
LEMMA EraseBlock ==
  ASSUME NEW s, Flash(s), NEW b \in Blocks, s.page[b * MAX_ENTRIES].lu # FREE,
         s.allocated = Cardinality(LivePages(s.page) \ PagesOf(b)),
         s.deleted = Cardinality(DeletedPages(s.page) \ PagesOf(b)),
         s.free_blocks = Cardinality(FreeBlocks(s.page))
  PROVE  /\ Sound(erase_block(s, b)) /\ Same(s, erase_block(s, b)) /\ erase_block(s, b).res = s.res
         /\ erase_block(s, b).page = [p \in Pages |-> IF p \in PagesOf(b) THEN Erased ELSE s.page[p]]
         /\ erase_block(s, b).starved = s.starved /\ erase_block(s, b).free_cursor = s.free_cursor
<1> DEFINE t == erase_block(s, b)
<1>1. /\ DOMAIN t = StateFields
      /\ t.page = [p \in Pages |-> IF BlockOf(p) = b THEN Erased ELSE s.page[p]]
      /\ t.deleted = s.deleted /\ t.allocated = s.allocated
      /\ t.free_blocks = s.free_blocks + 1 /\ t.erase = [s.erase EXCEPT ![b] = s.max_erase_count]
      /\ t.max_erase_count = IF s.max_erase_count + 1 = IX_FLAG THEN 0 ELSE s.max_erase_count + 1
      /\ Same(s, t) /\ t.res = s.res /\ t.starved = s.starved /\ t.free_cursor = s.free_cursor
  BY DEF erase_block, Flash, StateFields, Same
<1> HIDE DEF t
<1>0. t.page = [p \in Pages |-> IF p \in PagesOf(b) THEN Erased ELSE s.page[p]]
  BY <1>1, BlockPages
<1>2. LivePages(t.page) = LivePages(s.page) \ PagesOf(b)
  BY <1>0, Blanks DEF LivePages, Live
<1>3. DeletedPages(t.page) = DeletedPages(s.page) \ PagesOf(b)
  BY <1>0, Blanks DEF DeletedPages, FREE, DELETED
<1>4. FreeBlocks(t.page) = FreeBlocks(s.page) \union {b} /\ b \notin FreeBlocks(s.page)
  <2>1. ASSUME NEW c \in Blocks PROVE c * MAX_ENTRIES \in PagesOf(b) <=> c = b
    BY BlockPages
  <2> QED
    BY <1>0, <2>1, Blanks, BlockPages DEF FreeBlocks
<1>5. Counted(t)
  <2>1. Cardinality(FreeBlocks(t.page)) = Cardinality(FreeBlocks(s.page)) + 1
    BY <1>4, Finite, FS_AddElement
  <2> QED
    BY <1>1, <1>2, <1>3, <2>1 DEF Counted
<1>6. Flash(t)
  BY <1>0, <1>1, Blanks DEF Flash
<1> QED
  BY <1>0, <1>1, <1>5, <1>6 DEF Sound, t

\* The least member of a set of pages or blocks.
LEMMA LeastMember ==
  ASSUME NEW n \in Nat, NEW S \in SUBSET (0 .. n - 1), S # {}
  PROVE  Min(S) \in S /\ \A x \in S : Min(S) <= x
<1> DEFINE T == {x + 1 : x \in S}
<1>1. T \in SUBSET (1 .. n) /\ T # {}
  OBVIOUS
<1>2. PICK m \in T : \A x \in T : m <= x
  BY <1>1, LeastIndex
<1>3. PICK x \in S : m = x + 1
  BY <1>2
<1>4. ASSUME NEW y \in S PROVE x =< y
  <2>1. y + 1 \in T /\ x \in Int /\ y \in Int
    OBVIOUS
  <2>2. m <= y + 1
    BY <1>2, <2>1
  <2> QED
    BY <1>3, <2>1, <2>2
<1> QED
  BY <1>3, <1>4 DEF Min

\* A set of pages has a least member.
LEMMA LeastPage ==
  ASSUME NEW S \in SUBSET Pages, S # {}
  PROVE  Min(S) \in S
<1>1. block_count * MAX_ENTRIES \in Nat
  BY SizesAssumption
<1> QED
  BY <1>1, LeastMember DEF Pages

\* A set of blocks has a least member.
LEMMA LeastBlock ==
  ASSUME NEW S \in SUBSET Blocks, S # {}
  PROVE  Min(S) \in S
<1>1. block_count \in Nat
  BY SizesAssumption
<1> QED
  BY <1>1, LeastMember DEF Blocks

\* A search that wraps around ends at one of the pages it looks for.
LEMMA FirstPage ==
  ASSUME NEW start, NEW S \in SUBSET Pages, S # {}
  PROVE  FirstFrom(start, S) \in S
<1>1. {p \in S : p >= start} \in SUBSET Pages
  OBVIOUS
<1> QED
  BY <1>1, LeastPage DEF FirstFrom

Untouched(s, t) == \A p \in Pages : Live(s.page, p) => t.page[p] = s.page[p]

\* A block of deleted pages is erased, or nothing happens.
QuickOK(s, t) ==
  /\ Sound(t) /\ Same(s, t) /\ Untouched(s, t) /\ (t.res = s.res \/ t.res # "OK")
  /\ t.starved = s.starved /\ SameLive(s.page, t.page) /\ (Layout(s) => Layout(t))

\* Erasing a block that the next search does not start inside of keeps the layout.
LEMMA EraseLayout ==
  ASSUME NEW s, Layout(s), NEW b \in Blocks,
         s.free_cursor \in PagesOf(b) => EntryOf(s.free_cursor) \in {0, MAX_ENTRIES - 1},
         NEW t, t.free_cursor = s.free_cursor,
         t.page = [p \in Pages |-> IF p \in PagesOf(b) THEN Erased ELSE s.page[p]]
  PROVE  Layout(t)
<1>1. FreeLast(t.page)
  <2> SUFFICES ASSUME NEW p \in Pages, NEW q \in Pages, BlockOf(p) = BlockOf(q), q < p,
                      t.page[p].lu # FREE
               PROVE  t.page[q].lu # FREE
    BY DEF FreeLast
  <2>1. p \in PagesOf(b) <=> q \in PagesOf(b)
    BY BlockPages
  <2>2. p \notin PagesOf(b) /\ s.page[p].lu # FREE
    BY Blanks
  <2>3. s.page[q].lu # FREE
    BY <2>2 DEF Layout, FreeLast
  <2> QED
    BY <2>1, <2>2, <2>3
<1>2. CursorOK(t)
  <2> DEFINE c == s.free_cursor
  <2>1. c \in Pages
    BY DEF Layout, CursorOK
  <2>2. ASSUME EntryOf(c) \notin {0, MAX_ENTRIES - 1}
        PROVE  t.page[c].lu # FREE /\ t.page[c + 1].lu = FREE
    <3>1. c \notin PagesOf(b) /\ s.page[c].lu # FREE /\ s.page[c + 1].lu = FREE
      BY <2>2 DEF Layout, CursorOK
    <3>2. c + 1 \in Pages /\ BlockOf(c + 1) = BlockOf(c)
      BY <2>1, <2>2, NextEntry
    <3> QED
      BY <2>1, <3>1, <3>2, Blanks
  <2> QED
    BY <2>1, <2>2 DEF CursorOK
<1> QED
  BY <1>1, <1>2 DEF Layout

\* spiffs_gc_quick erases a block whose pages are all deleted, or nothing.
LEMMA GcQuick ==
  ASSUME NEW s, Sound(s)
  PROVE  QuickOK(s, gc_quick(s, 0))
<1> DEFINE Count(b, lu) == Cardinality({p \in PagesOf(b) : s.page[p].lu = lu})
           found == {b \in Blocks : /\ Count(b, DELETED) + Count(b, FREE) = MAX_ENTRIES
                                    /\ Count(b, FREE) <= 0}
           b == Min(found)
           u == [s EXCEPT !.deleted = @ - Count(b, DELETED)]
<1>1. gc_quick(s, 0) = IF found = {} THEN Fail(s, "NO_DELETED_BLOCKS") ELSE erase_block(u, b)
  BY DEF gc_quick
<1>2. CASE found = {}
  <2> DEFINE t == Fail(s, "NO_DELETED_BLOCKS")
  <2>1. /\ DOMAIN t = StateFields /\ t.page = s.page /\ t.deleted = s.deleted
        /\ t.allocated = s.allocated /\ t.free_blocks = s.free_blocks /\ t.erase = s.erase
        /\ t.max_erase_count = s.max_erase_count /\ Same(s, t) /\ t.res # "OK"
        /\ t.starved = s.starved /\ t.free_cursor = s.free_cursor
    BY DEF Fail, Sound, Flash, StateFields, Same
  <2> HIDE DEF t
  <2>2. Sound(t) /\ Untouched(s, t) /\ SameLive(s.page, t.page) /\ (Layout(s) => Layout(t))
    BY <2>1 DEF Sound, Flash, Counted, Untouched, SameLive, Layout, CursorOK
  <2> QED
    BY <1>1, <1>2, <2>1, <2>2 DEF QuickOK, t
<1>3. CASE found # {}
  <2>1. b \in found
    BY <1>3, LeastBlock
  <2>2. IsFiniteSet(PagesOf(b)) /\ Cardinality(PagesOf(b)) = MAX_ENTRIES
    <3>1. b * MAX_ENTRIES \in Int /\ (b + 1) * MAX_ENTRIES - 1 \in Int
          /\ (b + 1) * MAX_ENTRIES - 1 - b * MAX_ENTRIES + 1 = MAX_ENTRIES
          /\ b * MAX_ENTRIES <= (b + 1) * MAX_ENTRIES - 1
      BY <2>1, SizesAssumption DEF Blocks
    <3> QED
      BY <3>1, FS_Interval DEF PagesOf
  <2>3. \A p \in PagesOf(b) : s.page[p].lu = DELETED
    <3> DEFINE D == {p \in PagesOf(b) : s.page[p].lu = DELETED}
               E == {p \in PagesOf(b) : s.page[p].lu = FREE}
    <3>1. IsFiniteSet(D) /\ IsFiniteSet(E)
      BY <2>2, FS_Subset
    <3>2. Cardinality(D) \in Nat /\ Cardinality(E) \in Nat
      BY <3>1, FS_CardinalityType
    <3>3. Cardinality(D) = MAX_ENTRIES
      BY <2>1, <3>2, SizesAssumption
    <3>4. D = PagesOf(b)
      BY <3>3, <2>2, FS_Subset
    <3> QED
      BY <3>4
  <2>4. Count(b, DELETED) = MAX_ENTRIES
    <3>1. {p \in PagesOf(b) : s.page[p].lu = DELETED} = PagesOf(b)
      BY <2>3
    <3> QED
      BY <3>1, <2>2
  <2>5. /\ DOMAIN u = StateFields /\ u.page = s.page /\ u.allocated = s.allocated
        /\ u.deleted = s.deleted - MAX_ENTRIES /\ u.free_blocks = s.free_blocks
        /\ u.erase = s.erase /\ u.max_erase_count = s.max_erase_count /\ Same(s, u)
        /\ u.res = s.res /\ u.starved = s.starved /\ u.free_cursor = s.free_cursor
    BY <2>4 DEF Sound, Flash, StateFields, Same
  <2> HIDE DEF u, found, b, Count
  <2>6. b \in Blocks /\ PagesOf(b) \subseteq Pages /\ b * MAX_ENTRIES \in PagesOf(b)
    BY <2>1, BlockPages DEF found
  <2>7. Flash(u)
    BY <2>5 DEF Sound, Flash
  <2>8. LivePages(u.page) \ PagesOf(b) = LivePages(s.page)
    BY <2>3, <2>5 DEF LivePages, Live
  <2>9. Cardinality(DeletedPages(u.page) \ PagesOf(b)) = Cardinality(DeletedPages(s.page)) - MAX_ENTRIES
    <3>1. DeletedPages(s.page) \intersect PagesOf(b) = PagesOf(b)
      BY <2>3, <2>6 DEF DeletedPages
    <3>2. IsFiniteSet(DeletedPages(s.page))
      BY Finite
    <3>3. Cardinality(DeletedPages(s.page) \ PagesOf(b))
            = Cardinality(DeletedPages(s.page)) - Cardinality(PagesOf(b))
      BY <3>1, <3>2, FS_Difference
    <3> QED
      BY <3>3, <2>2, <2>5
  <2>10. u.page[b * MAX_ENTRIES].lu # FREE
    BY <2>3, <2>5, <2>6 DEF FREE, DELETED
  <2> DEFINE t == erase_block(u, b)
  <2>11. Sound(t) /\ Same(u, t) /\ t.res = u.res
         /\ t.page = [p \in Pages |-> IF p \in PagesOf(b) THEN Erased ELSE u.page[p]]
         /\ t.starved = u.starved /\ t.free_cursor = u.free_cursor
    <3>1. /\ u.allocated = Cardinality(LivePages(u.page) \ PagesOf(b))
          /\ u.deleted = Cardinality(DeletedPages(u.page) \ PagesOf(b))
          /\ u.free_blocks = Cardinality(FreeBlocks(u.page))
      BY <2>5, <2>8, <2>9 DEF Sound, Counted
    <3> QED
      BY <3>1, <2>6, <2>7, <2>10, EraseBlock
  <2> HIDE DEF t
  <2>12. Untouched(s, t) /\ SameLive(s.page, t.page)
    BY <2>3, <2>5, <2>11, Blanks DEF Untouched, Live, SameLive
  <2>13. ASSUME Layout(s) PROVE Layout(t)
    <3> DEFINE c == s.free_cursor
    <3>1. ASSUME c \in PagesOf(b) PROVE EntryOf(c) \in {0, MAX_ENTRIES - 1}
      <4> SUFFICES ASSUME EntryOf(c) \notin {0, MAX_ENTRIES - 1} PROVE FALSE
        OBVIOUS
      <4>1. c \in Pages /\ s.page[c + 1].lu = FREE
        BY <2>13 DEF Layout, CursorOK
      <4>2. c + 1 \in PagesOf(b)
        BY <2>6, <3>1, <4>1, NextEntry, BlockPages
      <4> QED
        BY <2>3, <4>1, <4>2 DEF FREE, DELETED
    <3> QED
      BY <2>5, <2>6, <2>11, <2>13, <3>1, EraseLayout
  <2> QED
    BY <1>1, <1>3, <2>5, <2>11, <2>12, <2>13 DEF QuickOK, Same, t
<1> QED
  BY <1>2, <1>3

FirstFree(pages, p) == \A q \in Pages : BlockOf(q) = BlockOf(p) /\ q < p => pages[q].lu # FREE

\* The page a search finds is the first free one of its block.
LEMMA SearchFirst ==
  ASSUME NEW s, Layout(s), {p \in Pages : s.page[p].lu = FREE} # {}
  PROVE  FirstFree(s.page, FirstFrom(SearchStart(s.free_cursor), {p \in Pages : s.page[p].lu = FREE}))
<1> DEFINE free == {p \in Pages : s.page[p].lu = FREE}
           c == s.free_cursor
           start == SearchStart(c)
           ahead == {p \in free : p >= start}
           p == FirstFrom(start, free)
<1>1. Pages \subseteq Int /\ block_count \in Nat \ {0} /\ MAX_ENTRIES \in Nat \ {0}
  BY SizesAssumption DEF Pages
<1>2. c \in Pages
  BY DEF Layout, CursorOK
<1>3. /\ start \in Pages
      /\ \A q \in Pages : BlockOf(q) = BlockOf(start) /\ q < start => s.page[q].lu # FREE
  <2>1. CASE EntryOf(c) = MAX_ENTRIES - 1
    <3> DEFINE b == (BlockOf(c) + 1) % block_count
    <3>1. b \in Blocks
      <4>0. BlockOf(c) \in Blocks
        BY <1>2, BlockPages
      <4>1. BlockOf(c) + 1 \in Nat
        BY <1>1, <4>0 DEF Blocks
      <4> QED
        BY <1>1, <4>1 DEF Blocks
    <3>2. start = b * MAX_ENTRIES
      BY <2>1 DEF SearchStart
    <3> HIDE DEF b
    <3>3. \A q \in Pages : BlockOf(q) = b => b * MAX_ENTRIES <= q
      <4>1. b * MAX_ENTRIES \in Int /\ (b + 1) * MAX_ENTRIES - 1 \in Int
        BY <1>1, <3>1 DEF Blocks
      <4> QED
        BY <3>1, <4>1, BlockPages DEF PagesOf
    <3>4. start \in Pages /\ BlockOf(start) = b
      BY <3>1, <3>2, BlockPages
    <3> HIDE DEF start
    <3> QED
      BY <1>1, <3>2, <3>3, <3>4
  <2>2. CASE EntryOf(c) # MAX_ENTRIES - 1 /\ EntryOf(c) # 0
    <3>1. start = c /\ s.page[c].lu # FREE
      BY <2>2 DEF SearchStart, Layout, CursorOK
    <3> QED
      BY <1>2, <3>1 DEF Layout, FreeLast
  <2>3. CASE EntryOf(c) # MAX_ENTRIES - 1 /\ EntryOf(c) = 0
    <3>1. start = c /\ c = BlockOf(c) * MAX_ENTRIES
      BY <1>2, <2>3, BlockPages DEF SearchStart
    <3>2. \A q \in Pages : BlockOf(q) = BlockOf(c) => c <= q
      <4> DEFINE b == BlockOf(c)
      <4>1. b \in Blocks /\ c = b * MAX_ENTRIES
        BY <1>2, <3>1, BlockPages
      <4> HIDE DEF b
      <4>2. b * MAX_ENTRIES \in Int /\ (b + 1) * MAX_ENTRIES - 1 \in Int
        BY <1>1, <4>1 DEF Blocks
      <4>3. \A q \in Pages : BlockOf(q) = b => c <= q
        BY <4>1, <4>2, BlockPages DEF PagesOf
      <4> QED
        BY <4>3 DEF b
    <3> HIDE DEF start, c
    <3> QED
      BY <1>1, <1>2, <3>1, <3>2
  <2> QED
    BY <2>1, <2>2, <2>3
<1> HIDE DEF start, c
<1>4. block_count * MAX_ENTRIES \in Nat
  BY <1>1
<1>5. CASE ahead = {}
  <2>1. p = Min(free) /\ free \in SUBSET (0 .. block_count * MAX_ENTRIES - 1)
    BY <1>5 DEF FirstFrom, Pages
  <2>2. p \in free /\ \A x \in free : p <= x
    BY <1>4, <2>1, LeastMember
  <2> HIDE DEF p
  <2>3. p \in Pages /\ \A q \in Pages : s.page[q].lu = FREE => p <= q
    BY <2>2
  <2>4. FirstFree(s.page, p)
    BY <1>1, <2>3 DEF FirstFree
  <2> QED
    BY <2>4 DEF p, c, start
<1>6. CASE ahead # {}
  <2>1. p = Min(ahead) /\ ahead \in SUBSET (0 .. block_count * MAX_ENTRIES - 1)
    BY <1>6 DEF FirstFrom, Pages
  <2>2. p \in ahead /\ \A x \in ahead : p <= x
    BY <1>4, <1>6, <2>1, LeastMember
  <2> HIDE DEF p
  <2>3. ASSUME NEW q \in Pages, BlockOf(q) = BlockOf(p), q < p PROVE s.page[q].lu # FREE
    <3> SUFFICES ASSUME s.page[q].lu = FREE PROVE FALSE
      OBVIOUS
    <3>1. q < start
      BY <1>1, <1>3, <2>2, <2>3
    <3>2. p \in Pages /\ start <= p
      BY <1>1, <1>3, <2>2
    <3>3. BlockOf(q) = BlockOf(start)
      BY <1>1, <1>3, <2>3, <3>1, <3>2, BlockBetween
    <3> QED
      BY <1>3, <3>1, <3>3
  <2>4. FirstFree(s.page, p)
    BY <2>3 DEF FirstFree
  <2> QED
    BY <2>4 DEF p, c, start
<1> QED
  BY <1>5, <1>6

\* A free page was found: its block is no longer free if it is the first.
Found(s, t) ==
  /\ Flash(t) /\ Same(s, t) /\ Untouched(s, t)
  /\ s.cleaning => t.page = s.page
  /\ t.res = "OK"
  /\ t.pix \in Pages /\ t.page[t.pix].lu = FREE
  /\ t.allocated = Cardinality(LivePages(t.page))
  /\ t.deleted = Cardinality(DeletedPages(t.page))
  /\ t.free_blocks = BlocksLeft(Cardinality(FreeBlocks(t.page)), t.pix)
  /\ t.starved = s.starved /\ SameLive(s.page, t.page) /\ t.free_cursor = t.pix
  /\ Layout(s) => FreeLast(t.page) /\ FirstFree(t.page, t.pix)

NotFound(s, t) ==
  /\ Sound(t) /\ Same(s, t) /\ Untouched(s, t) /\ t.res # "OK"
  /\ s.cleaning => t.page = s.page
  /\ t.starved /\ SameLive(s.page, t.page) /\ (Layout(s) => Layout(t))

\* Assignments to fields the counters do not depend on.
Alike(s, t) ==
  /\ DOMAIN t = StateFields /\ t.page = s.page /\ t.deleted = s.deleted
  /\ t.allocated = s.allocated /\ t.free_blocks = s.free_blocks /\ t.erase = s.erase
  /\ t.max_erase_count = s.max_erase_count

\* What the counters do not depend on may change.
LEMMA AlikeSound ==
  ASSUME NEW s, NEW t, Sound(s), Alike(s, t)
  PROVE  Sound(t)
  BY DEF Alike, Sound, Flash, Counted

\* A search for a free page finds one, or says so and leaves the pages in use alone.
LEMMA FindFree ==
  ASSUME NEW s, Sound(s), s.res = "OK"
  PROVE  Found(s, obj_lu_find_free(s)) \/ NotFound(s, obj_lu_find_free(s))
<1> DEFINE Short(t) == ~t.cleaning /\ t.free_blocks < 2
           q == [gc_quick(s, 0) EXCEPT !.res = "OK"]
           u == IF Short(s) THEN q ELSE s
           free == {p \in Pages : u.page[p].lu = FREE}
           p == FirstFrom(SearchStart(u.free_cursor), free)
           Starved(err) == Fail([u EXCEPT !.starved = TRUE], err)
           Take == [u EXCEPT !.free_cursor = p, !.pix = p, !.free_blocks = BlocksLeft(@, p)]
<1>1. obj_lu_find_free(s) = IF Short(u) THEN Starved("FULL")
                            ELSE IF free = {} THEN Starved("NOT_FOUND") ELSE Take
  BY DEF obj_lu_find_free, With
<1>2. /\ Sound(u) /\ Same(s, u) /\ Untouched(s, u) /\ u.res = "OK"
      /\ s.cleaning => u.page = s.page
      /\ u.starved = s.starved /\ SameLive(s.page, u.page) /\ (Layout(s) => Layout(u))
  <2>1. CASE Short(s)
    <3>1. QuickOK(s, gc_quick(s, 0))
      BY GcQuick
    <3>2. Alike(gc_quick(s, 0), q) /\ Same(gc_quick(s, 0), q) /\ q.res = "OK"
          /\ q.starved = gc_quick(s, 0).starved /\ q.free_cursor = gc_quick(s, 0).free_cursor
      BY <3>1 DEF QuickOK, Sound, Flash, Alike, StateFields, Same
    <3>3. Sound(q)
      BY <3>1, <3>2, AlikeSound DEF QuickOK
    <3>4. Same(s, q) /\ Untouched(s, q) /\ SameLive(s.page, q.page) /\ (Layout(s) => Layout(q))
      BY <3>1, <3>2 DEF QuickOK, Same, Untouched, SameLive, Alike, Layout, CursorOK
    <3>5. q.starved = s.starved
      BY <3>1, <3>2 DEF QuickOK
    <3>6. u = q /\ ~s.cleaning
      BY <2>1
    <3> HIDE DEF q, u
    <3> QED
      BY <3>2, <3>3, <3>4, <3>5, <3>6
  <2>2. CASE ~Short(s)
    BY <2>2 DEF Same, Untouched, SameLive
  <2> QED
    BY <2>1, <2>2
<1> HIDE DEF u
<1>3. ASSUME NEW err, err # "OK"
      PROVE  NotFound(s, Starved(err))
  <2>1. Alike(u, Starved(err)) /\ Same(u, Starved(err)) /\ Starved(err).res = err
        /\ Starved(err).starved = TRUE /\ Starved(err).free_cursor = u.free_cursor
    BY <1>2 DEF Fail, Alike, Same, Sound, Flash, StateFields
  <2>2. Sound(Starved(err))
    BY <1>2, <2>1, AlikeSound
  <2>3. Layout(s) => Layout(Starved(err))
    BY <1>2, <2>1 DEF Layout, CursorOK, Alike
  <2> QED
    BY <1>2, <1>3, <2>1, <2>2, <2>3 DEF NotFound, Same, Untouched, SameLive, Alike
<1>4. CASE ~Short(u) /\ free # {}
  <2>1. p \in free
    BY <1>4, FirstPage
  <2>0. Layout(s) => FreeLast(u.page) /\ FirstFree(u.page, p)
    BY <1>2, <1>4, SearchFirst DEF Layout
  <2> HIDE DEF p
  <2>2. /\ DOMAIN Take = StateFields /\ Take.page = u.page /\ Take.deleted = u.deleted
        /\ Take.allocated = u.allocated /\ Take.erase = u.erase
        /\ Take.max_erase_count = u.max_erase_count /\ Same(u, Take) /\ Take.res = u.res
        /\ Take.pix = p /\ Take.free_blocks = BlocksLeft(u.free_blocks, p)
        /\ Take.starved = u.starved /\ Take.free_cursor = p
    BY <1>2 DEF Sound, Flash, StateFields, Same
  <2> HIDE DEF Take
  <2>3. Flash(Take)
    BY <1>2, <2>2 DEF Sound, Flash
  <2>4. Found(s, Take)
    BY <1>2, <2>0, <2>1, <2>2, <2>3 DEF Found, Same, Untouched, SameLive, Sound, Counted
  <2> QED
    BY <1>1, <1>4, <2>4
<1> QED
  BY <1>1, <1>3, <1>4

\* A page that was free holds "pg" now, and the pages in use are as they were.
Occupied(s, t, pg) ==
  /\ Sound(t) /\ Same(s, t) /\ Untouched(s, t) /\ t.res = "OK"
  /\ t.pix \in Pages /\ ~Live(s.page, t.pix) /\ t.page[t.pix] = pg
  /\ s.cleaning => \A p \in Pages : p # t.pix => t.page[p] = s.page[p]
  /\ s.cleaning => s.page[t.pix].lu = FREE
  /\ t.starved = s.starved /\ t.free_cursor = t.pix /\ (Layout(s) => Layout(t))
  /\ \A p \in Pages : p # t.pix /\ (Live(s.page, p) \/ Live(t.page, p)) => t.page[p] = s.page[p]

\* A page that was found is written, and counted.
LEMMA Occupy ==
  ASSUME NEW s, NEW t, Flash(s), Found(s, t), NEW pg, PageOK(pg), pg.lu \in LiveIds, NEW stages
  PROVE  Occupied(s, write([t EXCEPT !.allocated = @ + 1], t.pix, stages, pg), pg)
<1> DEFINE u == write([t EXCEPT !.allocated = @ + 1], t.pix, stages, pg)
<1>1. /\ DOMAIN u = StateFields /\ u.page = [t.page EXCEPT ![t.pix] = pg]
      /\ u.deleted = t.deleted /\ u.allocated = t.allocated + 1 /\ u.free_blocks = t.free_blocks
      /\ u.erase = t.erase /\ u.max_erase_count = t.max_erase_count
      /\ Same(t, u) /\ u.res = t.res /\ u.pix = t.pix
      /\ u.starved = t.starved /\ u.free_cursor = t.free_cursor
  BY DEF write, Found, Flash, StateFields, Same
<1> HIDE DEF u
<1>2. pg.lu \in Nat /\ pg.lu # FREE /\ pg.lu # DELETED
  BY LiveId
<1>3. LivePages(u.page) = LivePages(t.page) \union {t.pix} /\ t.pix \notin LivePages(t.page)
  BY <1>1, <1>2 DEF LivePages, Live, Found, Flash
<1>4. DeletedPages(u.page) = DeletedPages(t.page)
  BY <1>1, <1>2 DEF DeletedPages, Found, Flash, FREE, DELETED
<1>5. u.free_blocks = Cardinality(FreeBlocks(u.page))
  <2>1. CASE EntryOf(t.pix) = 0
    <3>1. BlockOf(t.pix) \in Blocks /\ t.pix = BlockOf(t.pix) * MAX_ENTRIES
      BY <2>1, BlockPages DEF Found
    <3>2. ASSUME NEW b \in Blocks PROVE b * MAX_ENTRIES \in Pages /\ (b * MAX_ENTRIES = t.pix => b = BlockOf(t.pix))
      BY BlockPages
    <3>3. /\ FreeBlocks(u.page) = FreeBlocks(t.page) \ {BlockOf(t.pix)}
          /\ BlockOf(t.pix) \in FreeBlocks(t.page)
      BY <1>1, <1>2, <3>1, <3>2 DEF FreeBlocks, Found, Flash
    <3>4. Cardinality(FreeBlocks(u.page)) = Cardinality(FreeBlocks(t.page)) - 1
      BY <3>3, Finite, FS_RemoveElement
    <3> QED
      BY <1>1, <2>1, <3>4 DEF Found, BlocksLeft
  <2>2. CASE EntryOf(t.pix) # 0
    <3>1. ASSUME NEW b \in Blocks PROVE b * MAX_ENTRIES # t.pix
      BY <2>2, BlockPages DEF Found
    <3>2. FreeBlocks(u.page) = FreeBlocks(t.page)
      BY <1>1, <3>1, BlockPages DEF FreeBlocks, Found, Flash
    <3> QED
      BY <1>1, <2>2, <3>2 DEF Found, BlocksLeft
  <2> QED
    BY <2>1, <2>2
<1>6. Counted(u)
  <2>1. Cardinality(LivePages(u.page)) = Cardinality(LivePages(t.page)) + 1
    BY <1>3, Finite, FS_AddElement
  <2> QED
    BY <1>1, <1>4, <1>5, <2>1 DEF Counted, Found
<1>7. Flash(u)
  BY <1>1 DEF Flash, Found
<1>8. Untouched(s, u) /\ ~Live(s.page, t.pix)
  BY <1>1 DEF Untouched, Found, Flash, Live
<1>9. s.cleaning => /\ \A p \in Pages : p # t.pix => u.page[p] = s.page[p]
                    /\ s.page[t.pix].lu = FREE
  BY <1>1 DEF Found, Flash
<1>10. \A p \in Pages : p # t.pix /\ (Live(s.page, p) \/ Live(u.page, p)) => u.page[p] = s.page[p]
  BY <1>1 DEF Found, Flash, SameLive, Live
<1>11. ASSUME Layout(s) PROVE Layout(u)
  <2> DEFINE x == t.pix
  <2>1. x \in Pages /\ t.page[x].lu = FREE /\ FreeLast(t.page) /\ FirstFree(t.page, x)
    BY <1>11 DEF Found
  <2>2. \A p \in Pages : u.page[p] = IF p = x THEN pg ELSE t.page[p]
    BY <1>1 DEF Found, Flash
  <2> HIDE DEF x
  <2>3. FreeLast(u.page)
    <3> SUFFICES ASSUME NEW p \in Pages, NEW q \in Pages, BlockOf(p) = BlockOf(q), q < p,
                        u.page[p].lu # FREE
                 PROVE  u.page[q].lu # FREE
      BY DEF FreeLast
    <3>1. CASE p = x
      BY <2>1, <2>2, <3>1, <1>2 DEF FirstFree
    <3>2. CASE p # x
      BY <2>1, <2>2, <3>2, <1>2 DEF FreeLast
    <3> QED
      BY <3>1, <3>2
  <2>4. ASSUME EntryOf(x) \notin {0, MAX_ENTRIES - 1} PROVE u.page[x].lu # FREE /\ u.page[x + 1].lu = FREE
    <3>1. x + 1 \in Pages /\ BlockOf(x + 1) = BlockOf(x) /\ x \in Int
      BY <2>1, <2>4, NextEntry, SizesAssumption DEF Pages
    <3>2. t.page[x + 1].lu = FREE
      BY <2>1, <3>1 DEF FreeLast
    <3> QED
      BY <1>2, <2>1, <2>2, <3>1, <3>2
  <2>5. u.free_cursor = x
    BY <1>1 DEF Found, x
  <2> QED
    BY <2>1, <2>3, <2>4, <2>5 DEF Layout, CursorOK
<1>12. Occupied(s, u, pg)
  BY <1>1, <1>6, <1>7, <1>8, <1>9, <1>10, <1>11 DEF Occupied, Sound, Same, Found, Flash
<1> QED
  BY <1>12 DEF u

\* What a move leaves behind: the page at its new place, its old place deleted.
Moved(s, t, pg, src) ==
  /\ Sound(t) /\ Same(s, t) /\ t.res = "OK"
  /\ t.pix \in Pages /\ ~Live(s.page, t.pix) /\ t.page[t.pix] = pg
  /\ \A p \in Pages : p # src /\ Live(s.page, p) => t.page[p] = s.page[p]
  /\ s.cleaning => \A p \in Pages : s.page[p].lu # FREE => t.page[p].lu # FREE
  /\ t.starved = s.starved /\ t.free_cursor = t.pix /\ (Layout(s) => Layout(t))
  /\ t.pix # src /\ t.page[src] = DeletedPage
  /\ \A p \in Pages : p \notin {src, t.pix} /\ (Live(s.page, p) \/ Live(t.page, p)) => t.page[p] = s.page[p]
  /\ s.cleaning => \A p \in Pages : p \notin {src, t.pix} => t.page[p] = s.page[p]
  /\ s.cleaning => s.page[t.pix].lu = FREE

\* Deleting keeps the layout.
LEMMA DeleteLayout ==
  ASSUME NEW s, NEW t, NEW p \in Pages, Live(s.page, p), DOMAIN s.page = Pages,
         t.page = [s.page EXCEPT ![p] = DeletedPage], t.free_cursor = s.free_cursor, Layout(s)
  PROVE  Layout(t)
<1>1. \A q \in Pages : t.page[q].lu = FREE <=> s.page[q].lu = FREE
  BY Blanks DEF Live, FREE, DELETED
<1>2. CursorOK(t)
  <2> DEFINE c == s.free_cursor
  <2>1. c \in Pages
    BY DEF Layout, CursorOK
  <2>2. ASSUME EntryOf(c) \notin {0, MAX_ENTRIES - 1} PROVE t.page[c].lu # FREE /\ t.page[c + 1].lu = FREE
    <3>1. c + 1 \in Pages
      BY <2>1, <2>2, NextEntry
    <3> QED
      BY <1>1, <2>1, <2>2, <3>1 DEF Layout, CursorOK
  <2> QED
    BY <2>1, <2>2 DEF CursorOK
<1> QED
  BY <1>1, <1>2 DEF Layout, FreeLast

\* A page is written to a free place and then deleted at its old one: the counts are the
\* same.
LEMMA MovePage ==
  ASSUME NEW s, Sound(s), s.res = "OK", NEW src \in Pages, Live(s.page, src),
         NEW t, Found(s, t), NEW pg, PageOK(pg), pg.lu \in LiveIds, NEW stages
  PROVE  Moved(s, page_delete(write([t EXCEPT !.allocated = @ + 1], t.pix, stages, pg), src), pg, src)
<1> DEFINE u == write([t EXCEPT !.allocated = @ + 1], t.pix, stages, pg)
           v == page_delete(u, src)
<1>1. Occupied(s, u, pg)
  BY Occupy DEF Sound
<1> HIDE DEF u
<1>2. Sound(u) /\ Live(u.page, src) /\ u.pix # src
  BY <1>1 DEF Occupied, Untouched, Live
<1>3. /\ Sound(v) /\ v.page = [u.page EXCEPT ![src] = DeletedPage]
      /\ Same(u, v) /\ v.res = u.res /\ v.pix = u.pix
      /\ v.starved = u.starved /\ v.free_cursor = u.free_cursor
  BY <1>2, PageDelete
<1> HIDE DEF v
<1>6. Layout(s) => Layout(v)
  BY <1>1, <1>2, <1>3, DeleteLayout DEF Occupied, Sound, Flash
<1>4. \A p \in Pages : v.page[p] = IF p = src THEN DeletedPage ELSE u.page[p]
  BY <1>2, <1>3 DEF Sound, Flash
<1>5. Moved(s, v, pg, src)
  <2>1. \A p \in Pages : p \notin {src, v.pix} /\ (Live(s.page, p) \/ Live(v.page, p)) => v.page[p] = s.page[p]
    BY <1>1, <1>3, <1>4 DEF Occupied, Live
  <2>2. s.cleaning => \A p \in Pages : p \notin {src, v.pix} => v.page[p] = s.page[p]
    BY <1>1, <1>3, <1>4 DEF Occupied
  <2>3. s.cleaning => \A p \in Pages : s.page[p].lu # FREE => v.page[p].lu # FREE
    BY <1>1, <1>3, <1>4, Blanks DEF Occupied, FREE, DELETED
  <2>4. s.cleaning => s.page[v.pix].lu = FREE
    BY <1>1, <1>3 DEF Occupied
  <2> QED
    BY <1>1, <1>2, <1>3, <1>4, <1>6, <2>1, <2>2, <2>3, <2>4 DEF Moved, Occupied, Untouched, Same
<1> QED
  BY <1>5 DEF u, v

MoveOK(s, t, pg, src) == Moved(s, t, pg, src) \/ NotFound(s, t)

\* page_move does that with the page it is given,
LEMMA PageMove ==
  ASSUME NEW s, Sound(s), s.res = "OK", NEW src \in Pages, Live(s.page, src),
         NEW pg, DOMAIN pg = PageFields, NEW id \in LiveIds
  PROVE  MoveOK(s, page_move(s, pg, id, src), [pg EXCEPT !.lu = id], src)
<1> DEFINE new == [pg EXCEPT !.lu = id]
           t == obj_lu_find_free(s)
<1>1. PageOK(new) /\ new.lu \in LiveIds
  BY LiveId DEF PageOK, PageFields
<1>2. Found(s, t) \/ NotFound(s, t)
  BY FindFree
<1> HIDE DEF new, t
<1>3. CASE t.res = "OK"
  <2>1. Found(s, t)
    BY <1>2, <1>3 DEF NotFound
  <2>2. PICK stages : page_move(s, pg, id, src)
                        = page_delete(write([t EXCEPT !.allocated = @ + 1], t.pix, stages, new), src)
    BY <1>3 DEF page_move, Then, With, new, t
  <2> QED
    BY <1>1, <2>1, <2>2, MovePage DEF MoveOK, new
<1>4. CASE t.res # "OK"
  <2>1. page_move(s, pg, id, src) = t
    BY <1>4 DEF page_move, Then, With, t
  <2> QED
    BY <1>2, <1>4, <2>1 DEF MoveOK, Found
<1> QED
  BY <1>3, <1>4

\* and page_copy with the page as it is on the flash.
LEMMA PageCopy ==
  ASSUME NEW s, Sound(s), s.res = "OK", NEW src \in Pages, Live(s.page, src), NEW id \in LiveIds
  PROVE  MoveOK(s, page_copy(s, id, src), [s.page[src] EXCEPT !.lu = id], src)
<1> DEFINE new == [s.page[src] EXCEPT !.lu = id]
           t == obj_lu_find_free(s)
<1>1. PageOK(new) /\ new.lu \in LiveIds
  BY LiveId DEF PageOK, PageFields, Sound, Flash
<1>2. Found(s, t) \/ NotFound(s, t)
  BY FindFree
<1>3. CASE t.res = "OK"
  <2>1. Found(s, t)
    BY <1>2, <1>3 DEF NotFound
  <2>2. PICK stages : page_copy(s, id, src)
                        = page_delete(write([t EXCEPT !.allocated = @ + 1], t.pix, stages, new), src)
    BY <1>3 DEF page_copy, Then, With
  <2> HIDE DEF new, t
  <2>3. Moved(s, page_copy(s, id, src), new, src)
    BY <1>1, <2>1, <2>2, MovePage
  <2> QED
    BY <2>3 DEF MoveOK, new
<1>4. CASE t.res # "OK"
  <2>1. page_copy(s, id, src) = t
    BY <1>4 DEF page_copy, Then, With
  <2> HIDE DEF t
  <2> QED
    BY <1>2, <1>4, <2>1 DEF MoveOK, Found
<1> QED
  BY <1>3, <1>4

-----------------------------------------------------------------------------

\* Induction over the steps of a loop.
LEMMA Steps ==
  ASSUME NEW n \in Nat, NEW G, 0 \in G, \A k \in 1 .. n : k - 1 \in G => k \in G
  PROVE  \A k \in 0 .. n : k \in G
<1> SUFFICES ASSUME NEW j \in 0 .. n, j \notin G PROVE FALSE
  OBVIOUS
<1> DEFINE Bad == {k \in 1 .. n : k \notin G}
<1>1. j \in Bad
  OBVIOUS
<1>2. PICK m \in Bad : \A x \in Bad : m <= x
  BY <1>1, LeastIndex
<1>3. m - 1 \in G
  BY <1>2
<1> QED
  BY <1>2, <1>3

\* An event changes nothing but the descriptors.
LEMMA ObjectEvent ==
  ASSUME NEW s, Flash(s), NEW ev, NEW id, NEW spix, NEW new_pix, NEW new_size
  PROVE  LET t == cb_object_event(s, ev, id, spix, new_pix, new_size)
         IN Alike(s, t) /\ t.work = s.work /\ t.cleaning = s.cleaning /\ t.res = s.res /\ t.pix = s.pix
<1> DEFINE fd == cb_object_event(s, ev, id, spix, new_pix, new_size).fds
<1>1. cb_object_event(s, ev, id, spix, new_pix, new_size) = [s EXCEPT !.fds = fd]
  BY DEF cb_object_event, Flash, StateFields
<1> HIDE DEF fd
<1> QED
  BY <1>1 DEF Alike, Flash, StateFields

DataStep(u, q, id, ixspan) == Then(u, LAMBDA v : MoveData(v, q, id, ixspan))

DataLoop(s, b, id, ixspan) ==
  LET Step(u, q) == Then(u, LAMBDA v : MoveData(v, q, id, ixspan)) IN Fold(Step, s, Scan(b))

ObjectStep(t, p, b) == Then(t, LAMBDA u : MoveObject(u, b, p))

ObjectLoop(s, b) == LET Data(t, p) == Then(t, LAMBDA u : MoveObject(u, b, p)) IN Fold(Data, s, Scan(b))

IndexStep(t, p) == Then(t, LAMBDA u : MoveIndex(u, p))

IndexLoop(s, b) == LET Index(t, p) == Then(t, LAMBDA u : MoveIndex(u, p)) IN Fold(Index, s, Scan(b))

\* A loop over a block is a sequence of states, one for every page.
LEMMA DataLoopSteps ==
  ASSUME NEW s, NEW b, NEW id, NEW ixspan
  PROVE  \E g : /\ g[0] = s
                /\ \A k \in 1 .. MAX_ENTRIES : g[k] = DataStep(g[k - 1], Scan(b)[k], id, ixspan)
                /\ DataLoop(s, b, id, ixspan) = g[MAX_ENTRIES]
<1> DEFINE Op(t, p) == DataStep(t, p, id, ixspan)
           n == MAX_ENTRIES
           seq == Scan(b)
           Is(g, m) == g = [k \in 0 .. m |-> IF k = 0 THEN s ELSE Op(g[k - 1], seq[k])]
           after == CHOOSE g : Is(g, n)
<1>1. n \in Nat /\ Len(seq) = n
  BY SizesAssumption DEF Scan
<1>2. DataLoop(s, b, id, ixspan) = after[n]
  BY <1>1 DEF DataLoop, DataStep, Fold
<1>3. \A t, p : Op(t, p) = DataStep(t, p, id, ixspan)
  OBVIOUS
<1> HIDE DEF Op, seq, n
<1>4. \E g : Is(g, n)
  <2> DEFINE G == {m \in 0 .. n : \E g : Is(g, m)}
  <2>1. 0 \in G
    <3>1. Is([k \in 0 .. 0 |-> s], 0)
      OBVIOUS
    <3> HIDE DEF Is
    <3>2. \E g : Is(g, 0)
      BY <3>1
    <3> QED
      BY <1>1, <3>2
  <2>2. ASSUME NEW m \in 1 .. n, m - 1 \in G PROVE m \in G
    <3>1. PICK g : Is(g, m - 1)
      BY <2>2
    <3> DEFINE h == [k \in 0 .. m |-> IF k = m THEN Op(g[m - 1], seq[m]) ELSE g[k]]
    <3>2. Is(h, m)
      BY <3>1
    <3> HIDE DEF h, Is
    <3>3. \E x : Is(x, m)
      BY <3>2
    <3> QED
      BY <3>3, <1>1
  <2> HIDE DEF G
  <2>3. \A m \in 0 .. n : m \in G
    BY <2>1, <2>2, <1>1, Steps
  <2> QED
    BY <2>3, <1>1 DEF G
<1>5. Is(after, n)
  BY <1>4
<1> HIDE DEF after
<1>6. after[0] = s /\ \A k \in 1 .. n : after[k] = Op(after[k - 1], seq[k])
  BY <1>1, <1>5
<1> QED
  BY <1>2, <1>3, <1>6 DEF n, seq

\* The same for the loop that moves data pages.
LEMMA ObjectLoopSteps ==
  ASSUME NEW s, NEW b
  PROVE  \E g : /\ g[0] = s
                /\ \A k \in 1 .. MAX_ENTRIES : g[k] = ObjectStep(g[k - 1], Scan(b)[k], b)
                /\ ObjectLoop(s, b) = g[MAX_ENTRIES]
<1> DEFINE Op(t, p) == ObjectStep(t, p, b)
           n == MAX_ENTRIES
           seq == Scan(b)
           Is(g, m) == g = [k \in 0 .. m |-> IF k = 0 THEN s ELSE Op(g[k - 1], seq[k])]
           after == CHOOSE g : Is(g, n)
<1>1. n \in Nat /\ Len(seq) = n
  BY SizesAssumption DEF Scan
<1>2. ObjectLoop(s, b) = after[n]
  BY <1>1 DEF ObjectLoop, ObjectStep, Fold
<1>3. \A t, p : Op(t, p) = ObjectStep(t, p, b)
  OBVIOUS
<1> HIDE DEF Op, seq, n
<1>4. \E g : Is(g, n)
  <2> DEFINE G == {m \in 0 .. n : \E g : Is(g, m)}
  <2>1. 0 \in G
    <3>1. Is([k \in 0 .. 0 |-> s], 0)
      OBVIOUS
    <3> HIDE DEF Is
    <3>2. \E g : Is(g, 0)
      BY <3>1
    <3> QED
      BY <1>1, <3>2
  <2>2. ASSUME NEW m \in 1 .. n, m - 1 \in G PROVE m \in G
    <3>1. PICK g : Is(g, m - 1)
      BY <2>2
    <3> DEFINE h == [k \in 0 .. m |-> IF k = m THEN Op(g[m - 1], seq[m]) ELSE g[k]]
    <3>2. Is(h, m)
      BY <3>1
    <3> HIDE DEF h, Is
    <3>3. \E x : Is(x, m)
      BY <3>2
    <3> QED
      BY <3>3, <1>1
  <2> HIDE DEF G
  <2>3. \A m \in 0 .. n : m \in G
    BY <2>1, <2>2, <1>1, Steps
  <2> QED
    BY <2>3, <1>1 DEF G
<1>5. Is(after, n)
  BY <1>4
<1> HIDE DEF after
<1>6. after[0] = s /\ \A k \in 1 .. n : after[k] = Op(after[k - 1], seq[k])
  BY <1>1, <1>5
<1> QED
  BY <1>2, <1>3, <1>6 DEF n, seq

\* The same for the loop that moves index pages.
LEMMA IndexLoopSteps ==
  ASSUME NEW s, NEW b
  PROVE  \E g : /\ g[0] = s
                /\ \A k \in 1 .. MAX_ENTRIES : g[k] = IndexStep(g[k - 1], Scan(b)[k])
                /\ IndexLoop(s, b) = g[MAX_ENTRIES]
<1> DEFINE Op(t, p) == IndexStep(t, p)
           n == MAX_ENTRIES
           seq == Scan(b)
           Is(g, m) == g = [k \in 0 .. m |-> IF k = 0 THEN s ELSE Op(g[k - 1], seq[k])]
           after == CHOOSE g : Is(g, n)
<1>1. n \in Nat /\ Len(seq) = n
  BY SizesAssumption DEF Scan
<1>2. IndexLoop(s, b) = after[n]
  BY <1>1 DEF IndexLoop, IndexStep, Fold
<1>3. \A t, p : Op(t, p) = IndexStep(t, p)
  OBVIOUS
<1> HIDE DEF Op, seq, n
<1>4. \E g : Is(g, n)
  <2> DEFINE G == {m \in 0 .. n : \E g : Is(g, m)}
  <2>1. 0 \in G
    <3>1. Is([k \in 0 .. 0 |-> s], 0)
      OBVIOUS
    <3> HIDE DEF Is
    <3>2. \E g : Is(g, 0)
      BY <3>1
    <3> QED
      BY <1>1, <3>2
  <2>2. ASSUME NEW m \in 1 .. n, m - 1 \in G PROVE m \in G
    <3>1. PICK g : Is(g, m - 1)
      BY <2>2
    <3> DEFINE h == [k \in 0 .. m |-> IF k = m THEN Op(g[m - 1], seq[m]) ELSE g[k]]
    <3>2. Is(h, m)
      BY <3>1
    <3> HIDE DEF h, Is
    <3>3. \E x : Is(x, m)
      BY <3>2
    <3> QED
      BY <3>3, <1>1
  <2> HIDE DEF G
  <2>3. \A m \in 0 .. n : m \in G
    BY <2>1, <2>2, <1>1, Steps
  <2> QED
    BY <2>3, <1>1 DEF G
<1>5. Is(after, n)
  BY <1>4
<1> HIDE DEF after
<1>6. after[0] = s /\ \A k \in 1 .. n : after[k] = Op(after[k - 1], seq[k])
  BY <1>1, <1>5
<1> QED
  BY <1>2, <1>3, <1>6 DEF n, seq

\* A scan of a block goes over pages of the block.
LEMMA BlockScan ==
  ASSUME NEW b \in Blocks
  PROVE  \A k \in 1 .. MAX_ENTRIES : Scan(b)[k] \in Pages /\ Scan(b)[k] \in PagesOf(b)
<1>1. block_count \in Nat /\ MAX_ENTRIES \in Nat /\ b \in Nat
  BY SizesAssumption DEF Blocks
<1>2. ASSUME NEW k \in 1 .. MAX_ENTRIES PROVE Scan(b)[k] \in PagesOf(b)
  <2>1. Scan(b)[k] = b * MAX_ENTRIES + k - 1
    BY DEF Scan
  <2>2. b * MAX_ENTRIES \in Int /\ (b + 1) * MAX_ENTRIES = b * MAX_ENTRIES + MAX_ENTRIES
    BY <1>1
  <2> QED
    BY <1>1, <2>1, <2>2 DEF PagesOf
<1> QED
  BY <1>2, BlockPages

\* A search for a page of an object reports a page of that object, or an error.
LEMMA FindSpan ==
  ASSUME NEW s, Flash(s), NEW id, NEW spix
  PROVE  LET t == obj_lu_find_id_and_span(s, id, spix)
         IN /\ Alike(s, t) /\ t.work = s.work /\ t.fds = s.fds /\ t.cleaning = s.cleaning
            /\ t.res = s.res \/ t.res # "OK"
            /\ t.res = "OK" => t.pix \in Matches(s.page, id, spix) /\ t.pix \in Pages /\ s.page[t.pix].lu = id
<1> DEFINE t == obj_lu_find_id_and_span(s, id, spix)
<1>1. CASE Matches(s.page, id, spix) = {}
  BY <1>1 DEF obj_lu_find_id_and_span, Fail, Alike, Flash, StateFields
<1>2. CASE Matches(s.page, id, spix) # {}
  <2>1. Matches(s.page, id, spix) \in SUBSET Pages
    BY DEF Matches
  <2> DEFINE p == Min(Matches(s.page, id, spix))
  <2>2. p \in Matches(s.page, id, spix)
    BY <1>2, <2>1, LeastPage
  <2>3. p \in Pages /\ s.page[p].lu = id
    BY <2>2 DEF Matches
  <2>4. t = [s EXCEPT !.pix = p]
    BY <1>2 DEF obj_lu_find_id_and_span
  <2> HIDE DEF p
  <2> QED
    BY <2>2, <2>3, <2>4 DEF Alike, Flash, StateFields
<1> QED
  BY <1>1, <1>2

\* The index id of a data id is an id.
LEMMA IndexId ==
  ASSUME NEW id \in LiveIds, ~IsIx(id)
  PROVE  id + IX_FLAG \in LiveIds /\ IsIx(id + IX_FLAG)
<1>1. id \in Nat /\ 0 < id /\ id < 32767
  BY DEF LiveIds, IsIx, FREE, IX_FLAG
<1>2. id + 32768 \in Nat /\ 0 < id + 32768 /\ id + 32768 < 65535 /\ id + 32768 \notin {32767, 32768}
  BY <1>1
<1> QED
  BY <1>2 DEF LiveIds, IsIx, FREE, IX_FLAG

\* Of finitely many numbers one is the greatest.
LEMMA GreatestValue ==
  ASSUME NEW n \in Nat, NEW C \in SUBSET (0 .. n - 1), C # {},
         NEW f, \A c \in C : f[c] \in Int
  PROVE  /\ Max({f[c] : c \in C}) \in {f[c] : c \in C}
         /\ \A c \in C : Max({f[d] : d \in C}) >= f[c]
<1> DEFINE Below(k) == {c \in C : c < k}
           Top(k) == \E m \in Below(k) : \A c \in Below(k) : f[m] >= f[c]
           G == {k \in 0 .. n : Below(k) # {} => Top(k)}
<1>0. \A c \in C : c \in Int /\ 0 <= c /\ c < n
  OBVIOUS
<1>1. 0 \in G
  <2>1. Below(0) = {}
    <3>1. \A c \in C : ~(c < 0)
      BY <1>0
    <3> QED
      BY <3>1
  <2> QED
    BY <2>1
<1>2. ASSUME NEW k \in 1 .. n, k - 1 \in G PROVE k \in G
  <2>1. Below(k) = Below(k - 1) \union (IF k - 1 \in C THEN {k - 1} ELSE {})
    <3>1. \A c \in C : c < k <=> c < k - 1 \/ c = k - 1
      BY <1>0
    <3> QED
      BY <3>1
  <2>2. CASE k - 1 \notin C
    BY <1>2, <2>1, <2>2
  <2>3. CASE k - 1 \in C /\ Below(k - 1) = {}
    BY <2>1, <2>3
  <2>4. CASE k - 1 \in C /\ Below(k - 1) # {}
    <3>1. PICK m \in Below(k - 1) : \A c \in Below(k - 1) : f[m] >= f[c]
      BY <1>2, <2>4
    <3> DEFINE w == IF f[m] >= f[k - 1] THEN m ELSE k - 1
    <3>2. w \in Below(k)
      BY <2>1, <2>4
    <3>3. \A c \in Below(k) : f[w] >= f[c]
      BY <2>1, <2>4, <3>1
    <3> QED
      BY <3>2, <3>3
  <2> QED
    BY <2>2, <2>3, <2>4
<1> HIDE DEF G
<1>3. \A k \in 0 .. n : k \in G
  BY <1>1, <1>2, Steps
<1>4. Below(n) = C
  BY <1>0
<1>5. PICK m \in C : \A c \in C : f[m] >= f[c]
  BY <1>3, <1>4 DEF G
<1>6. \E x \in {f[c] : c \in C} : \A y \in {f[c] : c \in C} : x >= y
  BY <1>5
<1> QED
  BY <1>6 DEF Max

\* The collector picks a block with a deleted page before its first free one.
LEMMA Candidate ==
  ASSUME NEW s, Flash(s), NEW crammed, Candidates(s) # {}
  PROVE  /\ find_candidate(s, crammed) \in Blocks
         /\ s.page[find_candidate(s, crammed) * MAX_ENTRIES].lu # FREE
<1> DEFINE score == [b \in Candidates(s) |-> Score(s, b, crammed)]
           best == Max({score[b] : b \in DOMAIN score})
           winners == {b \in DOMAIN score : score[b] = best}
<1>1. find_candidate(s, crammed) = Min(winners)
  BY DEF find_candidate
<1>2. ASSUME NEW b \in Candidates(s) PROVE score[b] \in Int
  <2>1. b \in Blocks /\ IsFiniteSet(PagesOf(b))
    <3>1. b \in Blocks /\ b * MAX_ENTRIES \in Int /\ (b + 1) * MAX_ENTRIES - 1 \in Int
      BY SizesAssumption DEF Candidates, Blocks
    <3> QED
      BY <3>1, FS_Interval DEF PagesOf
  <2>2. IsFiniteSet(Scanned(s, b)) /\ IsFiniteSet({p \in Scanned(s, b) : s.page[p].lu = DELETED})
    BY <2>1, FS_Subset DEF Scanned
  <2>3. /\ Cardinality(Scanned(s, b)) \in Int
        /\ Cardinality({p \in Scanned(s, b) : s.page[p].lu = DELETED}) \in Int
    BY <2>2, FS_CardinalityType
  <2>4. EraseAge(s, b) \in Int
    BY <2>1 DEF EraseAge, Flash, FREE
  <2> QED
    BY <2>3, <2>4 DEF Score, SPIFFS_GC_HEUR_W_DELET, SPIFFS_GC_HEUR_W_USED, SPIFFS_GC_HEUR_W_ERASE_AGE
<1>3. best \in {score[b] : b \in DOMAIN score}
  <2> HIDE DEF score
  <2>1. DOMAIN score = Candidates(s)
    BY DEF score
  <2>2. Candidates(s) \in SUBSET (0 .. block_count - 1)
    BY DEF Candidates, Blocks
  <2> QED
    BY <1>2, <2>1, <2>2, GreatestValue, SizesAssumption
<1>4. winners # {} /\ winners \in SUBSET Blocks
  BY <1>3 DEF Candidates
<1>5. Min(winners) \in winners
  BY <1>4, LeastBlock
<1>6. \A b \in Candidates(s) : b \in Blocks /\ s.page[b * MAX_ENTRIES].lu # FREE
  <2> SUFFICES ASSUME NEW b \in Candidates(s) PROVE b \in Blocks /\ s.page[b * MAX_ENTRIES].lu # FREE
    OBVIOUS
  <2>1. PICK p \in Scanned(s, b) : TRUE
    BY DEF Candidates
  <2>2. b \in Blocks /\ b * MAX_ENTRIES \in PagesOf(b) /\ p \in PagesOf(b)
    BY <2>1, BlockPages DEF Candidates, Scanned
  <2>3. b * MAX_ENTRIES <= p
    <3>1. b * MAX_ENTRIES \in Int /\ (b + 1) * MAX_ENTRIES - 1 \in Int
      BY <2>2, SizesAssumption DEF Blocks
    <3> QED
      BY <2>2, <3>1 DEF PagesOf
  <2> QED
    BY <2>1, <2>2, <2>3 DEF Scanned
<1> QED
  BY <1>1, <1>5, <1>6

RoundStep(t, len) ==
  LET needed == (len + DATA_PAGE_SIZE - 1) \div DATA_PAGE_SIZE
      Empty(u) == [u EXCEPT !.stop = TRUE, !.empty = TRUE, !.work = Erased,
                            !.res = IF needed < free_pages(u) THEN "OK" ELSE "FULL"]
  IN IF t.stop THEN t ELSE IF Candidates(t) = {} THEN Empty(t) ELSE Collect(t, len)

RoundLoop(s, len) ==
  LET Round(t, i) == RoundStep(t, len)
  IN Fold(Round, s, [i \in 1 .. SPIFFS_GC_MAX_RUNS |-> i])

\* -------------------------- Objects and descriptors ---------------------------

\* The page a span's entry is in, and its place there, are those of no other span.
LEMMA SpanType ==
  ASSUME NEW k \in Nat
  PROVE  /\ IxSpan(k) \in Nat /\ IxEntry(k) \in 0 .. MaxIxLen - 1
         /\ IxSpan(k + 1) <= IxSpan(k) + 1 /\ IxSpan(k) <= IxSpan(k + 1)
<1>1. HDR_IX_LEN \in Nat \ {0} /\ IX_LEN \in Nat \ {0}
  BY SizesAssumption
<1>2. CASE k < HDR_IX_LEN
  <2>1. IxSpan(k) = 0 /\ IxEntry(k) = k
    BY <1>2 DEF IxSpan, IxEntry
  <2>2. IxSpan(k + 1) \in {0, 1}
    <3>1. CASE k + 1 < HDR_IX_LEN
      BY <3>1 DEF IxSpan
    <3>2. CASE ~(k + 1 < HDR_IX_LEN)
      <4>1. k + 1 - HDR_IX_LEN = 0
        BY <1>1, <1>2, <3>2
      <4>2. 0 \div IX_LEN = 0
        BY <1>1
      <4>3. IxSpan(k + 1) = 1 + ((k + 1 - HDR_IX_LEN) \div IX_LEN)
        BY <1>1, <3>2 DEF IxSpan
      <4> QED
        BY <4>1, <4>2, <4>3
    <3> QED
      BY <3>1, <3>2
  <2> QED
    BY <1>1, <1>2, <2>1, <2>2 DEF MaxIxLen
<1>3. CASE ~(k < HDR_IX_LEN)
  <2> DEFINE j == k - HDR_IX_LEN
  <2>1. j \in Nat /\ j + 1 = k + 1 - HDR_IX_LEN /\ ~(k + 1 < HDR_IX_LEN)
    BY <1>1, <1>3
  <2>2. IxSpan(k) = 1 + (j \div IX_LEN) /\ IxEntry(k) = j % IX_LEN
        /\ IxSpan(k + 1) = 1 + ((j + 1) \div IX_LEN)
    <3>1. IxSpan(k) = 1 + (j \div IX_LEN) /\ IxEntry(k) = j % IX_LEN
      BY <1>3 DEF IxSpan, IxEntry
    <3>2. IxSpan(k + 1) = 1 + ((k + 1 - HDR_IX_LEN) \div IX_LEN)
      BY <1>1, <2>1 DEF IxSpan
    <3> HIDE DEF j
    <3> QED
      BY <2>1, <3>1, <3>2
  <2> HIDE DEF j
  <2>3. j \div IX_LEN \in Nat /\ j % IX_LEN \in 0 .. IX_LEN - 1
    BY <1>1, <2>1
  <2>4. (j + 1) \div IX_LEN <= (j \div IX_LEN) + 1 /\ j \div IX_LEN <= (j + 1) \div IX_LEN
        /\ (j + 1) \div IX_LEN \in Nat
    BY <1>1, <2>1
  <2> QED
    BY <1>1, <2>2, <2>3, <2>4 DEF MaxIxLen
<1> QED
  BY <1>2, <1>3

\* Later spans are in later index pages,
LEMMA SpanOrder ==
  ASSUME NEW k \in Nat, NEW j \in Nat, k <= j
  PROVE  IxSpan(k) <= IxSpan(j)
<1>1. HDR_IX_LEN \in Nat \ {0} /\ IX_LEN \in Nat \ {0}
  BY SizesAssumption
<1>2. CASE k < HDR_IX_LEN
  BY <1>2, SpanType DEF IxSpan
<1>3. CASE ~(k < HDR_IX_LEN)
  <2> DEFINE a == k - HDR_IX_LEN
             b == j - HDR_IX_LEN
  <2>1. a \in Nat /\ b \in Nat /\ a <= b /\ ~(j < HDR_IX_LEN)
    BY <1>1, <1>3
  <2>2. IxSpan(k) = 1 + (a \div IX_LEN) /\ IxSpan(j) = 1 + (b \div IX_LEN)
    BY <1>3, <2>1 DEF IxSpan
  <2> HIDE DEF a, b
  <2>3. a \div IX_LEN <= b \div IX_LEN /\ a \div IX_LEN \in Nat /\ b \div IX_LEN \in Nat
    BY <1>1, <2>1
  <2> QED
    BY <2>2, <2>3
<1> QED
  BY <1>2, <1>3

\* and each span has an entry of its own.
LEMMA SpanEntry ==
  ASSUME NEW k \in Nat, NEW j \in Nat, IxSpan(k) = IxSpan(j), IxEntry(k) = IxEntry(j)
  PROVE  k = j
<1>1. HDR_IX_LEN \in Nat \ {0} /\ IX_LEN \in Nat \ {0}
  BY SizesAssumption
<1>2. ASSUME NEW i \in Nat, ~(i < HDR_IX_LEN)
      PROVE  /\ IxSpan(i) > 0
             /\ i = HDR_IX_LEN + (IxSpan(i) - 1) * IX_LEN + IxEntry(i)
  <2> DEFINE a == i - HDR_IX_LEN
  <2>1. a \in Nat /\ i = HDR_IX_LEN + a
    BY <1>1, <1>2
  <2>2. IxSpan(i) = 1 + (a \div IX_LEN) /\ IxEntry(i) = a % IX_LEN
    BY <1>2 DEF IxSpan, IxEntry
  <2> HIDE DEF a
  <2>3. a = (a \div IX_LEN) * IX_LEN + (a % IX_LEN) /\ a \div IX_LEN \in Nat
    BY <1>1, <2>1
  <2>4. IxSpan(i) - 1 = a \div IX_LEN /\ IxSpan(i) > 0
    BY <2>2, <2>3
  <2>5. a = (IxSpan(i) - 1) * IX_LEN + IxEntry(i)
    BY <2>2, <2>3, <2>4
  <2>6. IxEntry(i) \in Int /\ (IxSpan(i) - 1) * IX_LEN \in Int
    BY <1>1, <2>1, <2>2, <2>3, <2>4
  <2> QED
    BY <2>1, <2>4, <2>5, <2>6, <1>1
<1>3. ASSUME NEW i \in Nat, i < HDR_IX_LEN PROVE IxSpan(i) = 0 /\ IxEntry(i) = i
  BY <1>3 DEF IxSpan, IxEntry
<1>4. CASE k < HDR_IX_LEN
  BY <1>2, <1>3, <1>4
<1>5. CASE ~(k < HDR_IX_LEN)
  <2>1. ~(j < HDR_IX_LEN)
    BY <1>2, <1>3, <1>5
  <2>2. k = HDR_IX_LEN + (IxSpan(k) - 1) * IX_LEN + IxEntry(k)
    BY <1>2, <1>5
  <2>3. j = HDR_IX_LEN + (IxSpan(j) - 1) * IX_LEN + IxEntry(j)
    BY <1>2, <2>1
  <2> QED
    BY <2>2, <2>3
<1> QED
  BY <1>4, <1>5

-----------------------------------------------------------------------------

\* The pages in use as a forest: an object is an index header, the index pages behind
\* it and the data pages they name. "cur" is the index id of the object a call is
\* working on, or 0.
IxIds == {n \in LiveIds : IsIx(n)}

Entries == 0 .. MaxIxLen - 1

\* The index id of the object a page belongs to.
Obj(lu) == IF IsIx(lu) THEN lu ELSE lu + IX_FLAG

\* Index pages of an object with n data pages.
IxCount(n) == IF n = 0 THEN 1 ELSE IxSpan(n - 1) + 1

Shape(pg, cur) ==
  /\ pg.lu \in LiveIds /\ pg.id = pg.lu /\ pg.span \in Nat
  /\ {"FINAL", "USED"} \subseteq pg.flags /\ "DELET" \notin pg.flags
  /\ "INDEX" \in pg.flags <=> IsIx(pg.lu)
  /\ "IXDELE" \in pg.flags => pg.lu = cur /\ pg.span = 0
  /\ IsIx(pg.lu) => DOMAIN pg.ix = Entries

Shaped(P, cur) == \A p \in Pages : Live(P, p) => Shape(P[p], cur)

OneVersion(P) ==
  \A p, q \in Pages :
     Live(P, p) /\ Live(P, q) /\ P[p].lu = P[q].lu /\ P[p].span = P[q].span => p = q

\* q is the data page of index page p that entry e is for.
EntryFor(P, p, e, q) ==
  /\ Live(P, q) /\ P[q].lu + IX_FLAG = P[p].lu
  /\ IxSpan(P[q].span) = P[p].span /\ IxEntry(P[q].span) = e

Refs(P) ==
  \A p \in Pages : Live(P, p) /\ IsIx(P[p].lu) =>
    \A e \in Entries :
       P[p].ix[e] # FREE => P[p].ix[e] \in Pages /\ EntryFor(P, p, e, P[p].ix[e])

\* Index page p names data page q.
Owner(P, p, q) ==
  /\ Live(P, p) /\ P[p].lu = P[q].lu + IX_FLAG
  /\ P[p].span = IxSpan(P[q].span) /\ P[p].ix[IxEntry(P[q].span)] = q

Owned(P) == \A q \in Pages : Live(P, q) /\ ~IsIx(P[q].lu) => \E p \in Pages : Owner(P, p, q)

IsHeader(P, h) == Live(P, h) /\ IsIx(P[h].lu) /\ P[h].span = 0

Headed(P) == \A p \in Pages : Live(P, p) => \E h \in Pages : IsHeader(P, h) /\ P[h].lu = Obj(P[p].lu)

\* Object "ix" has the data pages 0 .. n - 1 and the index pages 0 .. m - 1.
Extent(P, ix, n, m) ==
  /\ \A p \in Pages : Live(P, p) /\ P[p].lu + IX_FLAG = ix => P[p].span < n
  /\ \A k \in 0 .. n - 1 : \E p \in Pages : Live(P, p) /\ P[p].lu + IX_FLAG = ix /\ P[p].span = k
  /\ \A p \in Pages : Live(P, p) /\ P[p].lu = ix => P[p].span < m
  /\ \A k \in 0 .. m - 1 : \E p \in Pages : Live(P, p) /\ P[p].lu = ix /\ P[p].span = k

\* The object has as many pages as its size says.
Filled(P, h) == /\ P[h].size \in Nat \ {0}
                /\ Extent(P, P[h].lu, PageCount(P[h].size), IxCount(PageCount(P[h].size)))

Sized(P, cur) == \A h \in Pages : IsHeader(P, h) /\ P[h].lu # cur => Filled(P, h)

Forest(P, cur) ==
  Shaped(P, cur) /\ OneVersion(P) /\ Refs(P) /\ Owned(P) /\ Headed(P) /\ Sized(P, cur)

\* Addresses and ids do not run into the special values.
LEMMA PageRange == \A p \in Pages : p \in Nat /\ p # FREE /\ p # NoPage /\ p < IX_FLAG - 2
<1>1. block_count * MAX_ENTRIES \in Nat /\ block_count * MAX_ENTRIES < 32768 - 2
  BY SizesAssumption DEF IX_FLAG
<1> QED
  BY <1>1 DEF Pages, FREE, NoPage, IX_FLAG

\* Data ids and index ids are different numbers.
LEMMA LiveLu ==
  ASSUME NEW id \in LiveIds
  PROVE  /\ id \in Nat /\ id # FREE /\ id # DELETED
         /\ ~IsIx(id) => id + IX_FLAG \in LiveIds /\ IsIx(id + IX_FLAG)
         /\ IsIx(id) => id >= IX_FLAG
<1>1. id \in Nat /\ 0 < id /\ id < 65535 /\ id # 32767 /\ id # 32768
  BY DEF LiveIds, FREE, IX_FLAG
<1> QED
  BY <1>1 DEF LiveIds, IsIx, FREE, DELETED, IX_FLAG

\* A page in use changes, or moves: what named it names the new place. Only the object
\* a call is working on changes its size.
Alt(a, b, src, x, cur) ==
  /\ b.lu = a.lu /\ b.span = a.span /\ Shape(b, cur)
  /\ IsIx(a.lu) => /\ a.lu # cur => b.size = a.size
                   /\ \A e \in Entries : b.ix[e] = IF a.ix[e] = src THEN x ELSE a.ix[e]

Renamed(P, Q, src, x, cur) ==
  /\ src \in Pages /\ x \in Pages /\ Live(P, src) /\ Live(Q, x)
  /\ src # x => ~Live(P, x) /\ ~Live(Q, src)
  /\ \A p \in Pages : p \notin {src, x} => (Live(Q, p) <=> Live(P, p))
  /\ Alt(P[src], Q[x], src, x, cur)
  /\ \A p \in Pages : p \notin {src, x} /\ Live(P, p) => Alt(P[p], Q[p], src, x, cur)

\* Every page in use after a page has moved was in use before it,
LEMMA RenameBack ==
  ASSUME NEW P, NEW Q, NEW src, NEW x, NEW cur, Renamed(P, Q, src, x, cur), NEW q \in Pages, Live(Q, q)
  PROVE  LET p == IF q = x THEN src ELSE q
         IN p \in Pages /\ Live(P, p) /\ Alt(P[p], Q[q], src, x, cur)
  BY DEF Renamed

\* and every page in use before it is in use after it.
LEMMA RenameTo ==
  ASSUME NEW P, NEW Q, NEW src, NEW x, NEW cur, Renamed(P, Q, src, x, cur), NEW p \in Pages, Live(P, p)
  PROVE  LET q == IF p = src THEN x ELSE p
         IN q \in Pages /\ Live(Q, q) /\ Alt(P[p], Q[q], src, x, cur)
  BY DEF Renamed

\* When a page moves, every object has the pages it had,
LEMMA RenameExtent ==
  ASSUME NEW P, NEW Q, NEW src, NEW x, NEW cur, Renamed(P, Q, src, x, cur), NEW ix, NEW n, NEW m, Extent(P, ix, n, m)
  PROVE  Extent(Q, ix, n, m)
<1>1. \A q \in Pages : Live(Q, q) => \E p \in Pages : Live(P, p) /\ P[p].lu = Q[q].lu /\ P[p].span = Q[q].span
  BY RenameBack DEF Alt
<1>2. \A p \in Pages : Live(P, p) => \E q \in Pages : Live(Q, q) /\ P[p].lu = Q[q].lu /\ P[p].span = Q[q].span
  BY RenameTo DEF Alt
<1>3. \A q \in Pages : Live(Q, q) /\ Q[q].lu + IX_FLAG = ix => Q[q].span < n
  BY <1>1 DEF Extent
<1>4. \A q \in Pages : Live(Q, q) /\ Q[q].lu = ix => Q[q].span < m
  BY <1>1 DEF Extent
<1>5. \A k \in 0 .. n - 1 : \E p \in Pages : Live(Q, p) /\ Q[p].lu + IX_FLAG = ix /\ Q[p].span = k
  <2> SUFFICES ASSUME NEW k \in 0 .. n - 1
               PROVE  \E p \in Pages : Live(Q, p) /\ Q[p].lu + IX_FLAG = ix /\ Q[p].span = k
    OBVIOUS
  <2>1. PICK p \in Pages : Live(P, p) /\ P[p].lu + IX_FLAG = ix /\ P[p].span = k
    BY DEF Extent
  <2> QED
    BY <1>2, <2>1
<1>6. \A k \in 0 .. m - 1 : \E p \in Pages : Live(Q, p) /\ Q[p].lu = ix /\ Q[p].span = k
  <2> SUFFICES ASSUME NEW k \in 0 .. m - 1
               PROVE  \E p \in Pages : Live(Q, p) /\ Q[p].lu = ix /\ Q[p].span = k
    OBVIOUS
  <2>1. PICK p \in Pages : Live(P, p) /\ P[p].lu = ix /\ P[p].span = k
    BY DEF Extent
  <2> QED
    BY <1>2, <2>1
<1> QED
  BY <1>3, <1>4, <1>5, <1>6 DEF Extent

\* and the index pages lead to the data pages as before.
LEMMA RenameForest ==
  ASSUME NEW P, NEW Q, NEW src, NEW x, NEW cur, Renamed(P, Q, src, x, cur), Forest(P, cur)
  PROVE  Forest(Q, cur)
<1> DEFINE To(p) == IF p = src THEN x ELSE p
           Back(q) == IF q = x THEN src ELSE q
<1>1. \A q \in Pages : Live(Q, q) => Back(q) \in Pages /\ Live(P, Back(q)) /\ Alt(P[Back(q)], Q[q], src, x, cur)
  BY RenameBack
<1>2. \A p \in Pages : Live(P, p) => To(p) \in Pages /\ Live(Q, To(p)) /\ Alt(P[p], Q[To(p)], src, x, cur)
  BY RenameTo
<1>3. Shaped(Q, cur)
  <2> SUFFICES ASSUME NEW q \in Pages, Live(Q, q) PROVE Shape(Q[q], cur)
    BY DEF Shaped
  <2> QED
    BY <1>1 DEF Alt
<1>4. OneVersion(Q)
  <2> SUFFICES ASSUME NEW p \in Pages, NEW q \in Pages, Live(Q, p), Live(Q, q),
                      Q[p].lu = Q[q].lu, Q[p].span = Q[q].span
               PROVE  p = q
    BY DEF OneVersion
  <2>1. Back(p) = Back(q)
    <3> HIDE DEF Back
    <3> QED
      BY <1>1 DEF Forest, OneVersion, Alt
  <2>2. src # x => p # src /\ q # src
    BY DEF Renamed
  <2> QED
    BY <2>1, <2>2
<1>5. Refs(Q)
  <2> SUFFICES ASSUME NEW p \in Pages, Live(Q, p), IsIx(Q[p].lu), NEW e \in Entries, Q[p].ix[e] # FREE
               PROVE  Q[p].ix[e] \in Pages /\ EntryFor(Q, p, e, Q[p].ix[e])
    BY DEF Refs
  <2> DEFINE o == Back(p)
             r == P[o].ix[e]
  <2>1. o \in Pages /\ Live(P, o) /\ Alt(P[o], Q[p], src, x, cur)
    BY <1>1
  <2> HIDE DEF o
  <2>2. Q[p].ix[e] = To(r) /\ IsIx(P[o].lu)
    BY <2>1 DEF Alt
  <2>3. r # FREE
    BY <2>2, PageRange DEF Renamed
  <2>4. r \in Pages /\ EntryFor(P, o, e, r)
    BY <2>1, <2>2, <2>3 DEF Forest, Refs
  <2> HIDE DEF r
  <2>5. To(r) \in Pages /\ Live(Q, To(r)) /\ Alt(P[r], Q[To(r)], src, x, cur)
    BY <1>2, <2>4 DEF EntryFor
  <2> HIDE DEF To
  <2> QED
    BY <2>1, <2>2, <2>4, <2>5 DEF EntryFor, Alt
<1>6. Owned(Q)
  <2> SUFFICES ASSUME NEW q \in Pages, Live(Q, q), ~IsIx(Q[q].lu) PROVE \E p \in Pages : Owner(Q, p, q)
    BY DEF Owned
  <2> DEFINE o == Back(q)
  <2>1. o \in Pages /\ Live(P, o) /\ Alt(P[o], Q[q], src, x, cur) /\ To(o) = q
    BY <1>1 DEF Renamed
  <2> HIDE DEF o
  <2>2. PICK p \in Pages : Owner(P, p, o)
    BY <2>1 DEF Forest, Owned, Alt
  <2>3. To(p) \in Pages /\ Live(Q, To(p)) /\ Alt(P[p], Q[To(p)], src, x, cur)
    BY <1>2, <2>2 DEF Owner
  <2>4. IxEntry(P[o].span) \in Entries /\ IsIx(P[p].lu)
    <3>1. P[o].span \in Nat /\ P[o].lu \in LiveIds /\ ~IsIx(P[o].lu)
      BY <2>1 DEF Forest, Shaped, Shape, Alt
    <3>2. IxEntry(P[o].span) \in Entries
      BY <3>1, SpanType DEF Entries
    <3>3. IsIx(P[o].lu + IX_FLAG)
      BY <3>1, LiveLu
    <3> QED
      BY <2>2, <3>2, <3>3 DEF Owner
  <2>5. Q[To(p)].ix[IxEntry(P[o].span)] = To(o)
    BY <2>2, <2>3, <2>4 DEF Alt, Owner
  <2> HIDE DEF To
  <2>6. Owner(Q, To(p), q)
    BY <2>1, <2>2, <2>3, <2>5 DEF Owner, Alt
  <2> QED
    BY <2>3, <2>6
<1>7. Headed(Q)
  <2> SUFFICES ASSUME NEW q \in Pages, Live(Q, q)
               PROVE  \E h \in Pages : IsHeader(Q, h) /\ Q[h].lu = Obj(Q[q].lu)
    BY DEF Headed
  <2>1. PICK h \in Pages : IsHeader(P, h) /\ P[h].lu = Obj(P[Back(q)].lu)
    BY <1>1 DEF Forest, Headed
  <2>2. Q[q].lu = P[Back(q)].lu
    BY <1>1 DEF Alt
  <2>3. To(h) \in Pages /\ Live(Q, To(h)) /\ Alt(P[h], Q[To(h)], src, x, cur)
    BY <1>2, <2>1 DEF IsHeader
  <2> HIDE DEF To, Back
  <2> QED
    BY <2>1, <2>2, <2>3 DEF IsHeader, Alt
<1>8. Sized(Q, cur)
  <2> SUFFICES ASSUME NEW h \in Pages, IsHeader(Q, h), Q[h].lu # cur
               PROVE  Filled(Q, h)
    BY DEF Sized
  <2>1. Back(h) \in Pages /\ Live(P, Back(h)) /\ Alt(P[Back(h)], Q[h], src, x, cur)
    BY <1>1 DEF IsHeader
  <2> HIDE DEF Back
  <2>2. /\ Q[h].size \in Nat \ {0}
        /\ Extent(P, Q[h].lu, PageCount(Q[h].size), IxCount(PageCount(Q[h].size)))
    BY <2>1 DEF Forest, Sized, IsHeader, Alt, Filled
  <2> QED
    BY <2>2, RenameExtent DEF Filled
<1> QED
  BY <1>3, <1>4, <1>5, <1>6, <1>7, <1>8 DEF Forest

\* All pages but those of "some" are in use in Q as they are in P.
Besides(P, Q, some) ==
  \A p \in Pages \ some : (Live(Q, p) <=> Live(P, p)) /\ (Live(P, p) => Q[p] = P[p])

\* An index id is no data page's, and its data pages are not those of another.
LEMMA IdKinds ==
  ASSUME NEW a \in LiveIds, NEW b \in LiveIds
  PROVE  /\ ~IsIx(a) => a + IX_FLAG \in IxIds /\ a + IX_FLAG # a
         /\ IsIx(a) => a + IX_FLAG \notin LiveIds
         /\ ~IsIx(a) /\ IsIx(b) => a # b
         /\ a + IX_FLAG = b => ~IsIx(a) /\ IsIx(b)
         /\ ~IsIx(a) => Obj(a) = a + IX_FLAG
         /\ IsIx(a) => Obj(a) = a
  BY DEF LiveIds, IxIds, IsIx, IX_FLAG, FREE, Obj

\* Pages of object "cur" come or go: the other objects keep theirs.
LEMMA OtherExtent ==
  ASSUME NEW P, NEW Q, NEW cur, NEW ix, ix # cur, NEW n, NEW m, Extent(P, ix, n, m),
         \A p \in Pages : Live(P, p) /\ Obj(P[p].lu) # cur => Live(Q, p) /\ Q[p].lu = P[p].lu /\ Q[p].span = P[p].span,
         \A p \in Pages : Live(Q, p) /\ Obj(Q[p].lu) # cur => Live(P, p) /\ Q[p].lu = P[p].lu /\ Q[p].span = P[p].span,
         \A p \in Pages : Live(P, p) => P[p].lu \in LiveIds,
         \A p \in Pages : Live(Q, p) => Q[p].lu \in LiveIds,
         ix \in IxIds
  PROVE  Extent(Q, ix, n, m)
<1>1. ASSUME NEW a \in LiveIds PROVE /\ a + IX_FLAG = ix => Obj(a) # cur
                                     /\ a = ix => Obj(a) # cur
  BY IdKinds DEF IxIds
<1>2. \A q \in Pages : Live(Q, q) /\ Q[q].lu + IX_FLAG = ix => Q[q].span < n
  BY <1>1 DEF Extent
<1>3. \A q \in Pages : Live(Q, q) /\ Q[q].lu = ix => Q[q].span < m
  BY <1>1 DEF Extent
<1>4. \A k \in 0 .. n - 1 : \E p \in Pages : Live(Q, p) /\ Q[p].lu + IX_FLAG = ix /\ Q[p].span = k
  <2> SUFFICES ASSUME NEW k \in 0 .. n - 1
               PROVE  \E p \in Pages : Live(Q, p) /\ Q[p].lu + IX_FLAG = ix /\ Q[p].span = k
    OBVIOUS
  <2>1. PICK p \in Pages : Live(P, p) /\ P[p].lu + IX_FLAG = ix /\ P[p].span = k
    BY DEF Extent
  <2> QED
    BY <1>1, <2>1
<1>5. \A k \in 0 .. m - 1 : \E p \in Pages : Live(Q, p) /\ Q[p].lu = ix /\ Q[p].span = k
  <2> SUFFICES ASSUME NEW k \in 0 .. m - 1
               PROVE  \E p \in Pages : Live(Q, p) /\ Q[p].lu = ix /\ Q[p].span = k
    OBVIOUS
  <2>1. PICK p \in Pages : Live(P, p) /\ P[p].lu = ix /\ P[p].span = k
    BY DEF Extent
  <2> QED
    BY <1>1, <2>1
<1> QED
  BY <1>2, <1>3, <1>4, <1>5 DEF Extent

\* The other objects have as many pages as their sizes say, still.
LEMMA OtherSized ==
  ASSUME NEW P, NEW Q, NEW cur, Sized(P, cur), Shaped(P, cur), Shaped(Q, cur),
         \A p \in Pages : Live(P, p) /\ Obj(P[p].lu) # cur => Live(Q, p) /\ Q[p] = P[p],
         \A p \in Pages : Live(Q, p) /\ Obj(Q[p].lu) # cur => Live(P, p) /\ Q[p] = P[p]
  PROVE  Sized(Q, cur)
<1> SUFFICES ASSUME NEW h \in Pages, IsHeader(Q, h), Q[h].lu # cur
             PROVE  Filled(Q, h)
  BY DEF Sized
<1>1. \A p \in Pages : (Live(P, p) => P[p].lu \in LiveIds) /\ (Live(Q, p) => Q[p].lu \in LiveIds)
  BY DEF Shaped, Shape
<1>2. Q[h].lu \in IxIds /\ Live(P, h) /\ Q[h] = P[h]
  BY <1>1, IdKinds DEF IsHeader, IxIds
<1>3. Filled(P, h)
  BY <1>2 DEF Sized, IsHeader
<1>4. Extent(Q, Q[h].lu, PageCount(Q[h].size), IxCount(PageCount(Q[h].size)))
  BY <1>1, <1>2, <1>3, OtherExtent DEF Filled
<1> QED
  BY <1>2, <1>3, <1>4 DEF Filled

\* Data page x of span n is noted in index page w.
Noted(P, Q, w, x, n, cur) ==
  /\ w \in Pages /\ x \in Pages /\ Live(P, w) /\ Live(Q, w) /\ ~Live(P, x) /\ Live(Q, x)
  /\ P[w].lu = cur /\ P[w].span = IxSpan(n)
  /\ Q[x].lu + IX_FLAG = cur /\ Q[x].span = n /\ Shape(Q[x], cur)
  /\ Besides(P, Q, {w, x})
  /\ Q[w].lu = P[w].lu /\ Q[w].span = P[w].span /\ Shape(Q[w], cur)
  /\ \A e \in Entries : Q[w].ix[e] = IF e = IxEntry(n) THEN x ELSE P[w].ix[e]

\* A data page behind the last one joins the forest.
LEMMA AddData ==
  ASSUME NEW P, NEW Q, NEW cur, NEW n \in Nat, NEW m, Forest(P, cur), Extent(P, cur, n, m),
         NEW w, NEW x, Noted(P, Q, w, x, n, cur)
  PROVE  Forest(Q, cur) /\ Extent(Q, cur, n + 1, m)
<1>1. /\ w \in Pages /\ x \in Pages /\ w # x /\ cur \in IxIds /\ IsIx(cur) /\ ~IsIx(Q[x].lu)
      /\ Q[x].lu # cur /\ Obj(Q[x].lu) = cur /\ Obj(cur) = cur
  <2>1. Q[x].lu \in LiveIds /\ cur \in LiveIds
    BY DEF Noted, Shape
  <2> QED
    BY <2>1, IdKinds DEF Noted, IxIds
<1>2. ASSUME NEW p \in Pages, Live(P, p), p # w PROVE Live(Q, p) /\ Q[p] = P[p] /\ p # x
  BY <1>2 DEF Noted, Besides
<1>3. ASSUME NEW p \in Pages, Live(Q, p), p # w, p # x PROVE Live(P, p) /\ Q[p] = P[p]
  BY <1>3 DEF Noted, Besides
<1>4. \A p \in Pages : Live(P, p) => P[p].lu \in LiveIds /\ P[p].span \in Nat
  BY DEF Forest, Shaped, Shape
<1>5. \A p \in Pages : Live(P, p) => Live(Q, p) /\ Q[p].lu = P[p].lu /\ Q[p].span = P[p].span
  BY <1>2 DEF Noted
<1>6. \A p \in Pages : Live(Q, p) /\ p # x => Live(P, p) /\ Q[p].lu = P[p].lu /\ Q[p].span = P[p].span
  BY <1>3 DEF Noted
<1>7. \A p \in Pages : Live(P, p) /\ P[p].lu + IX_FLAG = cur => P[p].span < n
  BY DEF Extent
<1>8. Shaped(Q, cur)
  <2> SUFFICES ASSUME NEW p \in Pages, Live(Q, p) PROVE Shape(Q[p], cur)
    BY DEF Shaped
  <2> QED
    BY <1>3 DEF Noted, Forest, Shaped
<1>9. OneVersion(Q)
  <2>1. ASSUME NEW p \in Pages, Live(Q, p), p # x PROVE ~(Q[p].lu = Q[x].lu /\ Q[p].span = Q[x].span)
    <3>1. Live(P, p) /\ Q[p].lu = P[p].lu /\ Q[p].span = P[p].span /\ P[p].span \in Nat
      BY <1>4, <1>6, <2>1
    <3> QED
      BY <1>7, <3>1 DEF Noted
  <2> QED
    BY <1>6, <2>1 DEF Forest, OneVersion
<1>10. Refs(Q)
  <2> SUFFICES ASSUME NEW p \in Pages, Live(Q, p), IsIx(Q[p].lu), NEW e \in Entries, Q[p].ix[e] # FREE
               PROVE  Q[p].ix[e] \in Pages /\ EntryFor(Q, p, e, Q[p].ix[e])
    BY DEF Refs
  <2>1. p # x /\ Live(P, p) /\ Q[p].lu = P[p].lu /\ Q[p].span = P[p].span
    BY <1>1, <1>6
  <2>2. CASE p = w /\ e = IxEntry(n)
    BY <1>1, <2>2 DEF EntryFor, Noted
  <2>3. CASE ~(p = w /\ e = IxEntry(n))
    <3> DEFINE r == P[p].ix[e]
    <3>1. Q[p].ix[e] = r
      BY <1>2, <2>1, <2>3 DEF Noted
    <3>2. r \in Pages /\ EntryFor(P, p, e, r)
      BY <2>1, <3>1 DEF Forest, Refs
    <3> HIDE DEF r
    <3>3. Live(Q, r) /\ Q[r].lu = P[r].lu /\ Q[r].span = P[r].span
      BY <1>5, <3>2 DEF EntryFor
    <3> QED
      BY <2>1, <3>1, <3>2, <3>3 DEF EntryFor
  <2> QED
    BY <2>2, <2>3
<1>11. Owned(Q)
  <2> SUFFICES ASSUME NEW q \in Pages, Live(Q, q), ~IsIx(Q[q].lu) PROVE \E p \in Pages : Owner(Q, p, q)
    BY DEF Owned
  <2>1. CASE q = x
    <3>1. IxEntry(n) \in Entries
      BY SpanType DEF Entries
    <3>2. Owner(Q, w, x)
      BY <1>1, <3>1 DEF Owner, Noted
    <3> QED
      BY <1>1, <2>1, <3>2
  <2>2. CASE q # x
    <3>1. Live(P, q) /\ Q[q].lu = P[q].lu /\ Q[q].span = P[q].span /\ Q[q].span \in Nat
      BY <1>4, <1>6, <2>2
    <3>2. PICK p \in Pages : Owner(P, p, q)
      BY <3>1 DEF Forest, Owned
    <3>3. CASE p # w
      BY <1>2, <3>1, <3>2, <3>3 DEF Owner
    <3>4. CASE p = w
      <4>1. P[q].lu + IX_FLAG = cur /\ IxSpan(P[q].span) = IxSpan(n)
        BY <3>2, <3>4 DEF Owner, Noted
      <4>2. P[q].span # n
        BY <1>7, <3>1, <4>1
      <4>3. IxEntry(P[q].span) # IxEntry(n) /\ IxEntry(P[q].span) \in Entries
        BY <3>1, <4>1, <4>2, SpanEntry, SpanType DEF Entries
      <4>4. Owner(Q, w, q)
        BY <3>1, <3>2, <3>4, <4>3 DEF Owner, Noted
      <4> QED
        BY <1>1, <4>4
    <3> QED
      BY <3>3, <3>4
  <2> QED
    BY <2>1, <2>2
<1>12. Headed(Q)
  <2> SUFFICES ASSUME NEW q \in Pages, Live(Q, q)
               PROVE  \E h \in Pages : IsHeader(Q, h) /\ Q[h].lu = Obj(Q[q].lu)
    BY DEF Headed
  <2> DEFINE o == IF q = x THEN w ELSE q
  <2>1. o \in Pages /\ Live(P, o) /\ Obj(P[o].lu) = Obj(Q[q].lu)
    BY <1>1, <1>6 DEF Noted
  <2> HIDE DEF o
  <2>2. PICK h \in Pages : IsHeader(P, h) /\ P[h].lu = Obj(P[o].lu)
    BY <2>1 DEF Forest, Headed
  <2> QED
    BY <1>5, <2>1, <2>2 DEF IsHeader
<1>13. Sized(Q, cur)
  <2>1. \A p \in Pages : Live(P, p) /\ Obj(P[p].lu) # cur => Live(Q, p) /\ Q[p] = P[p]
    BY <1>1, <1>2 DEF Noted
  <2>2. \A p \in Pages : Live(Q, p) /\ Obj(Q[p].lu) # cur => Live(P, p) /\ Q[p] = P[p]
    BY <1>1, <1>3 DEF Noted
  <2> QED
    BY <1>8, <2>1, <2>2, OtherSized DEF Forest
<1>14. Extent(Q, cur, n + 1, m)
  <2>1. \A p \in Pages : Live(Q, p) /\ Q[p].lu + IX_FLAG = cur => Q[p].span < n + 1
    <3> SUFFICES ASSUME NEW p \in Pages, Live(Q, p), Q[p].lu + IX_FLAG = cur PROVE Q[p].span < n + 1
      OBVIOUS
    <3>1. CASE p = x
      BY <3>1 DEF Noted
    <3>2. CASE p # x
      <4>1. Live(P, p) /\ Q[p].lu = P[p].lu /\ Q[p].span = P[p].span /\ P[p].span \in Nat
        BY <1>4, <1>6, <3>2
      <4>2. P[p].span < n
        BY <1>7, <4>1
      <4> QED
        BY <4>1, <4>2
    <3> QED
      BY <3>1, <3>2
  <2>2. \A k \in 0 .. n + 1 - 1 : \E p \in Pages : Live(Q, p) /\ Q[p].lu + IX_FLAG = cur /\ Q[p].span = k
    <3> SUFFICES ASSUME NEW k \in 0 .. n + 1 - 1
                 PROVE  \E p \in Pages : Live(Q, p) /\ Q[p].lu + IX_FLAG = cur /\ Q[p].span = k
      OBVIOUS
    <3>1. CASE k = n
      BY <3>1, <1>1 DEF Noted
    <3>2. CASE k # n
      <4>1. PICK p \in Pages : Live(P, p) /\ P[p].lu + IX_FLAG = cur /\ P[p].span = k
        BY <3>2 DEF Extent
      <4> QED
        BY <1>5, <4>1
    <3> QED
      BY <3>1, <3>2
  <2>3. \A p \in Pages : Live(Q, p) /\ Q[p].lu = cur => Q[p].span < m
    BY <1>1, <1>6 DEF Extent
  <2>4. \A k \in 0 .. m - 1 : \E p \in Pages : Live(Q, p) /\ Q[p].lu = cur /\ Q[p].span = k
    <3> SUFFICES ASSUME NEW k \in 0 .. m - 1
                 PROVE  \E p \in Pages : Live(Q, p) /\ Q[p].lu = cur /\ Q[p].span = k
      OBVIOUS
    <3>1. PICK p \in Pages : Live(P, p) /\ P[p].lu = cur /\ P[p].span = k
      BY DEF Extent
    <3> QED
      BY <1>5, <3>1
  <2> QED
    BY <2>1, <2>2, <2>3, <2>4 DEF Extent
<1> QED
  BY <1>8, <1>9, <1>10, <1>11, <1>12, <1>13, <1>14 DEF Forest

\* The last data page q leaves, and its index page w no longer names it.
Dropped(P, Q, w, q, n, cur) ==
  /\ w \in Pages /\ q \in Pages /\ Live(P, w) /\ Live(Q, w) /\ Live(P, q) /\ ~Live(Q, q)
  /\ P[w].lu = cur /\ P[w].span = IxSpan(n)
  /\ P[q].lu + IX_FLAG = cur /\ P[q].span = n
  /\ Besides(P, Q, {w, q})
  /\ Q[w].lu = P[w].lu /\ Q[w].span = P[w].span /\ Shape(Q[w], cur)
  /\ \A e \in Entries : Q[w].ix[e] = IF e = IxEntry(n) THEN FREE ELSE P[w].ix[e]

\* Without its last data page the object is whole, one page shorter.
LEMMA DropLast ==
  ASSUME NEW P, NEW Q, NEW cur, NEW n \in Nat, NEW m, Forest(P, cur), Extent(P, cur, n + 1, m),
         NEW w, NEW q, Dropped(P, Q, w, q, n, cur)
  PROVE  Forest(Q, cur) /\ Extent(Q, cur, n, m)
<1>1. /\ w \in Pages /\ q \in Pages /\ w # q /\ cur \in IxIds /\ IsIx(cur) /\ ~IsIx(P[q].lu)
      /\ P[q].lu # cur /\ Obj(P[q].lu) = cur /\ Obj(cur) = cur /\ P[q].lu \in LiveIds
  <2>1. P[q].lu \in LiveIds /\ cur \in LiveIds
    BY DEF Dropped, Forest, Shaped, Shape
  <2> QED
    BY <2>1, IdKinds DEF Dropped, IxIds
<1>2. ASSUME NEW p \in Pages, Live(P, p), p # w, p # q PROVE Live(Q, p) /\ Q[p] = P[p]
  BY <1>2 DEF Dropped, Besides
<1>3. ASSUME NEW p \in Pages, Live(Q, p), p # w PROVE Live(P, p) /\ Q[p] = P[p] /\ p # q
  BY <1>3 DEF Dropped, Besides
<1>4. \A p \in Pages : Live(P, p) => P[p].lu \in LiveIds /\ P[p].span \in Nat
  BY DEF Forest, Shaped, Shape
<1>5. \A p \in Pages : Live(P, p) /\ p # q => Live(Q, p) /\ Q[p].lu = P[p].lu /\ Q[p].span = P[p].span
  BY <1>2 DEF Dropped
<1>6. \A p \in Pages : Live(Q, p) => p # q /\ Live(P, p) /\ Q[p].lu = P[p].lu /\ Q[p].span = P[p].span
  BY <1>3 DEF Dropped
<1>7. \A p \in Pages : Live(P, p) /\ p # q /\ P[p].lu + IX_FLAG = cur => P[p].span < n
  <2> SUFFICES ASSUME NEW p \in Pages, Live(P, p), p # q, P[p].lu + IX_FLAG = cur PROVE P[p].span < n
    OBVIOUS
  <2>1. P[p].span < n + 1 /\ P[p].span \in Nat /\ P[p].lu \in LiveIds
    BY <1>4 DEF Extent
  <2>2. P[p].lu = P[q].lu
    BY <1>1, <2>1 DEF Dropped, LiveIds, IX_FLAG
  <2>3. P[p].span # n
    BY <2>2 DEF Dropped, Forest, OneVersion
  <2> QED
    BY <2>1, <2>3
<1>8. Shaped(Q, cur)
  <2> SUFFICES ASSUME NEW p \in Pages, Live(Q, p) PROVE Shape(Q[p], cur)
    BY DEF Shaped
  <2> QED
    BY <1>3 DEF Dropped, Forest, Shaped
<1>9. OneVersion(Q)
  BY <1>6 DEF Forest, OneVersion
<1>10. Refs(Q)
  <2> SUFFICES ASSUME NEW p \in Pages, Live(Q, p), IsIx(Q[p].lu), NEW e \in Entries, Q[p].ix[e] # FREE
               PROVE  Q[p].ix[e] \in Pages /\ EntryFor(Q, p, e, Q[p].ix[e])
    BY DEF Refs
  <2>1. p # q /\ Live(P, p) /\ Q[p].lu = P[p].lu /\ Q[p].span = P[p].span
    BY <1>6
  <2>2. ~(p = w /\ e = IxEntry(n))
    BY DEF Dropped
  <2> DEFINE r == P[p].ix[e]
  <2>3. Q[p].ix[e] = r
    BY <1>3, <2>2 DEF Dropped
  <2>4. r \in Pages /\ EntryFor(P, p, e, r)
    BY <2>1, <2>3 DEF Forest, Refs
  <2> HIDE DEF r
  <2>5. r # q
    <3>1. SUFFICES ASSUME r = q PROVE FALSE
      OBVIOUS
    <3>2. P[p].lu = cur /\ P[p].span = IxSpan(n) /\ e = IxEntry(n)
      BY <2>4, <3>1 DEF EntryFor, Dropped
    <3>3. p = w
      BY <2>1, <3>2 DEF Dropped, Forest, OneVersion
    <3> QED
      BY <2>2, <3>2, <3>3
  <2>6. Live(Q, r) /\ Q[r].lu = P[r].lu /\ Q[r].span = P[r].span
    BY <1>5, <2>4, <2>5 DEF EntryFor
  <2> QED
    BY <2>1, <2>3, <2>4, <2>6 DEF EntryFor
<1>11. Owned(Q)
  <2> SUFFICES ASSUME NEW r \in Pages, Live(Q, r), ~IsIx(Q[r].lu) PROVE \E p \in Pages : Owner(Q, p, r)
    BY DEF Owned
  <2>1. r # q /\ Live(P, r) /\ Q[r].lu = P[r].lu /\ Q[r].span = P[r].span /\ Q[r].span \in Nat
        /\ P[r].lu \in LiveIds
    BY <1>4, <1>6
  <2>2. PICK p \in Pages : Owner(P, p, r)
    BY <2>1 DEF Forest, Owned
  <2>3. CASE p # w
    <3>1. p # q
      <4>1. P[p].lu = P[r].lu + IX_FLAG
        BY <2>2 DEF Owner
      <4> QED
        BY <1>1, <2>1, <4>1, IdKinds
    <3> QED
      BY <1>2, <2>1, <2>2, <2>3, <3>1 DEF Owner
  <2>4. CASE p = w
    <3>1. P[r].lu + IX_FLAG = cur /\ IxSpan(P[r].span) = IxSpan(n)
      BY <2>2, <2>4 DEF Owner, Dropped
    <3>2. P[r].span # n
      BY <1>7, <2>1, <3>1
    <3>3. IxEntry(P[r].span) # IxEntry(n) /\ IxEntry(P[r].span) \in Entries
      BY <2>1, <3>1, <3>2, SpanEntry, SpanType DEF Entries
    <3>4. Owner(Q, w, r)
      BY <2>1, <2>2, <2>4, <3>3 DEF Owner, Dropped
    <3> QED
      BY <1>1, <3>4
  <2> QED
    BY <2>3, <2>4
<1>12. Headed(Q)
  <2> SUFFICES ASSUME NEW r \in Pages, Live(Q, r)
               PROVE  \E h \in Pages : IsHeader(Q, h) /\ Q[h].lu = Obj(Q[r].lu)
    BY DEF Headed
  <2>1. Live(P, r) /\ Q[r].lu = P[r].lu
    BY <1>6
  <2>2. PICK h \in Pages : IsHeader(P, h) /\ P[h].lu = Obj(P[r].lu)
    BY <2>1 DEF Forest, Headed
  <2>3. h # q
    BY <1>1, <2>2 DEF IsHeader
  <2> QED
    BY <1>5, <2>1, <2>2, <2>3 DEF IsHeader
<1>13. Sized(Q, cur)
  <2>1. \A p \in Pages : Live(P, p) /\ Obj(P[p].lu) # cur => Live(Q, p) /\ Q[p] = P[p]
    BY <1>1, <1>2 DEF Dropped
  <2>2. \A p \in Pages : Live(Q, p) /\ Obj(Q[p].lu) # cur => Live(P, p) /\ Q[p] = P[p]
    BY <1>1, <1>3 DEF Dropped
  <2> QED
    BY <1>8, <2>1, <2>2, OtherSized DEF Forest
<1>14. Extent(Q, cur, n, m)
  <2>1. \A p \in Pages : Live(Q, p) /\ Q[p].lu + IX_FLAG = cur => Q[p].span < n
    BY <1>6, <1>7
  <2>2. \A k \in 0 .. n - 1 : \E p \in Pages : Live(Q, p) /\ Q[p].lu + IX_FLAG = cur /\ Q[p].span = k
    <3> SUFFICES ASSUME NEW k \in 0 .. n - 1
                 PROVE  \E p \in Pages : Live(Q, p) /\ Q[p].lu + IX_FLAG = cur /\ Q[p].span = k
      OBVIOUS
    <3>1. PICK p \in Pages : Live(P, p) /\ P[p].lu + IX_FLAG = cur /\ P[p].span = k
      BY DEF Extent
    <3>2. p # q
      BY <3>1 DEF Dropped
    <3> QED
      BY <1>5, <3>1, <3>2
  <2>3. \A p \in Pages : Live(Q, p) /\ Q[p].lu = cur => Q[p].span < m
    BY <1>6 DEF Extent
  <2>4. \A k \in 0 .. m - 1 : \E p \in Pages : Live(Q, p) /\ Q[p].lu = cur /\ Q[p].span = k
    <3> SUFFICES ASSUME NEW k \in 0 .. m - 1
                 PROVE  \E p \in Pages : Live(Q, p) /\ Q[p].lu = cur /\ Q[p].span = k
      OBVIOUS
    <3>1. PICK p \in Pages : Live(P, p) /\ P[p].lu = cur /\ P[p].span = k
      BY DEF Extent
    <3>2. p # q
      BY <1>1, <3>1
    <3> QED
      BY <1>5, <3>1, <3>2
  <2> QED
    BY <2>1, <2>2, <2>3, <2>4 DEF Extent
<1> QED
  BY <1>8, <1>9, <1>10, <1>11, <1>12, <1>13, <1>14 DEF Forest

\* The last index page w leaves, or a first one comes: it names nothing.
LEMMA DropIndex ==
  ASSUME NEW P, NEW Q, NEW cur, NEW n \in Nat, NEW m \in Nat, Forest(P, cur), Extent(P, cur, n, m + 1),
         \A k \in 0 .. n - 1 : IxSpan(k) < m,
         NEW w \in Pages, Live(P, w), ~Live(Q, w), P[w].lu = cur, IsIx(cur), P[w].span = m,
         Besides(P, Q, {w})
  PROVE  Forest(Q, cur) /\ Extent(Q, cur, n, m)
<1>1. ASSUME NEW p \in Pages, Live(P, p), p # w PROVE Live(Q, p) /\ Q[p] = P[p]
  BY <1>1 DEF Besides
<1>2. ASSUME NEW p \in Pages, Live(Q, p) PROVE Live(P, p) /\ Q[p] = P[p] /\ p # w
  BY <1>2 DEF Besides
<1>3. \A p \in Pages : Live(P, p) => P[p].lu \in LiveIds /\ P[p].span \in Nat
  BY DEF Forest, Shaped, Shape
<1>4. cur \in LiveIds /\ Obj(cur) = cur
  BY <1>3 DEF Obj
<1>5. \A p \in Pages : Live(P, p) /\ p # w /\ P[p].lu = cur => P[p].span < m
  <2> SUFFICES ASSUME NEW p \in Pages, Live(P, p), p # w, P[p].lu = cur PROVE P[p].span < m
    OBVIOUS
  <2>1. P[p].span < m + 1 /\ P[p].span \in Nat
    BY <1>3 DEF Extent
  <2>2. P[p].span # m
    BY DEF Forest, OneVersion
  <2> QED
    BY <2>1, <2>2
<1>6. \A p \in Pages : Live(P, p) /\ ~IsIx(P[p].lu) => p # w /\ ~Owner(P, w, p)
  <2> SUFFICES ASSUME NEW p \in Pages, Live(P, p), ~IsIx(P[p].lu), Owner(P, w, p) PROVE FALSE
    OBVIOUS
  <2>1. P[p].lu + IX_FLAG = cur /\ IxSpan(P[p].span) = m
    BY DEF Owner
  <2>2. P[p].span \in 0 .. n - 1
    BY <1>3, <2>1 DEF Extent
  <2> QED
    BY <2>1, <2>2
<1>7. Shaped(Q, cur) /\ OneVersion(Q)
  BY <1>2 DEF Forest, Shaped, OneVersion
<1>8. Refs(Q)
  <2> SUFFICES ASSUME NEW p \in Pages, Live(Q, p), IsIx(Q[p].lu), NEW e \in Entries, Q[p].ix[e] # FREE
               PROVE  Q[p].ix[e] \in Pages /\ EntryFor(Q, p, e, Q[p].ix[e])
    BY DEF Refs
  <2>1. Live(P, p) /\ Q[p] = P[p]
    BY <1>2
  <2> DEFINE r == P[p].ix[e]
  <2>2. r \in Pages /\ EntryFor(P, p, e, r) /\ Q[p].ix[e] = r
    BY <2>1 DEF Forest, Refs
  <2> HIDE DEF r
  <2>3. r # w
    <3>1. Live(P, r) /\ P[r].lu + IX_FLAG = P[p].lu /\ P[r].lu \in LiveIds /\ P[p].lu \in LiveIds
      BY <1>3, <2>1, <2>2 DEF EntryFor
    <3>2. ~IsIx(P[r].lu)
      BY <3>1, IdKinds
    <3> QED
      BY <1>6, <2>2, <3>1, <3>2
  <2> QED
    BY <1>1, <2>1, <2>2, <2>3 DEF EntryFor
<1>9. Owned(Q)
  <2> SUFFICES ASSUME NEW r \in Pages, Live(Q, r), ~IsIx(Q[r].lu) PROVE \E p \in Pages : Owner(Q, p, r)
    BY DEF Owned
  <2>1. Live(P, r) /\ Q[r] = P[r]
    BY <1>2
  <2>2. PICK p \in Pages : Owner(P, p, r)
    BY <2>1 DEF Forest, Owned
  <2>3. p # w /\ Live(P, p)
    BY <1>6, <2>1, <2>2 DEF Owner
  <2> QED
    BY <1>1, <2>1, <2>2, <2>3 DEF Owner
<1>10. Headed(Q)
  <2> SUFFICES ASSUME NEW r \in Pages, Live(Q, r)
               PROVE  \E h \in Pages : IsHeader(Q, h) /\ Q[h].lu = Obj(Q[r].lu)
    BY DEF Headed
  <2>1. Live(P, r) /\ Q[r] = P[r] /\ r # w
    BY <1>2
  <2>2. PICK h \in Pages : IsHeader(P, h) /\ P[h].lu = Obj(P[r].lu)
    BY <2>1 DEF Forest, Headed
  <2>3. h # w
    <3>1. SUFFICES ASSUME h = w PROVE FALSE
      OBVIOUS
    <3>2. m = 0 /\ n = 0
      <4>1. m = 0
        BY <2>2, <3>1 DEF IsHeader
      <4>2. n # 0 => IxSpan(0) < 0
        BY <4>1
      <4> QED
        BY <4>1, <4>2, SpanType
    <3>3. Obj(P[r].lu) = cur /\ P[r].lu \in LiveIds /\ P[r].span \in Nat
      BY <1>3, <2>1, <2>2, <3>1
    <3>4. CASE IsIx(P[r].lu)
      <4>1. P[r].lu = cur
        BY <3>3, <3>4 DEF Obj
      <4> QED
        BY <1>5, <2>1, <3>2, <3>3, <4>1
    <3>5. CASE ~IsIx(P[r].lu)
      <4>1. P[r].lu + IX_FLAG = cur
        BY <3>3, <3>5 DEF Obj
      <4>2. P[r].span < 0
        BY <2>1, <3>2, <4>1 DEF Extent
      <4> QED
        BY <3>3, <4>2
    <3> QED
      BY <3>4, <3>5
  <2> QED
    BY <1>1, <2>1, <2>2, <2>3 DEF IsHeader
<1>11. Sized(Q, cur)
  <2>1. \A p \in Pages : Live(P, p) /\ Obj(P[p].lu) # cur => Live(Q, p) /\ Q[p] = P[p]
    BY <1>1, <1>4
  <2>2. \A p \in Pages : Live(Q, p) /\ Obj(Q[p].lu) # cur => Live(P, p) /\ Q[p] = P[p]
    BY <1>2
  <2> QED
    BY <1>7, <2>1, <2>2, OtherSized DEF Forest
<1>12. Extent(Q, cur, n, m)
  <2>1. \A p \in Pages : Live(Q, p) /\ Q[p].lu + IX_FLAG = cur => Q[p].span < n
    BY <1>2 DEF Extent
  <2>2. \A k \in 0 .. n - 1 : \E p \in Pages : Live(Q, p) /\ Q[p].lu + IX_FLAG = cur /\ Q[p].span = k
    <3> SUFFICES ASSUME NEW k \in 0 .. n - 1
                 PROVE  \E p \in Pages : Live(Q, p) /\ Q[p].lu + IX_FLAG = cur /\ Q[p].span = k
      OBVIOUS
    <3>1. PICK p \in Pages : Live(P, p) /\ P[p].lu + IX_FLAG = cur /\ P[p].span = k
      BY DEF Extent
    <3>2. ~IsIx(P[p].lu)
      BY <1>3, <1>4, <3>1, IdKinds
    <3>3. p # w
      BY <1>6, <3>1, <3>2
    <3> QED
      BY <1>1, <3>1, <3>3
  <2>3. \A p \in Pages : Live(Q, p) /\ Q[p].lu = cur => Q[p].span < m
    BY <1>2, <1>5
  <2>4. \A k \in 0 .. m - 1 : \E p \in Pages : Live(Q, p) /\ Q[p].lu = cur /\ Q[p].span = k
    <3> SUFFICES ASSUME NEW k \in 0 .. m - 1
                 PROVE  \E p \in Pages : Live(Q, p) /\ Q[p].lu = cur /\ Q[p].span = k
      OBVIOUS
    <3>1. PICK p \in Pages : Live(P, p) /\ P[p].lu = cur /\ P[p].span = k
      BY DEF Extent
    <3>2. p # w
      BY <3>1
    <3> QED
      BY <1>1, <3>1, <3>2
  <2> QED
    BY <2>1, <2>2, <2>3, <2>4 DEF Extent
<1> QED
  BY <1>7, <1>8, <1>9, <1>10, <1>11, <1>12 DEF Forest

\* Index page x comes behind the last one of the object, or as its header.
LEMMA AddIndex ==
  ASSUME NEW P, NEW Q, NEW cur, NEW n, NEW m \in Nat, Forest(P, cur), Extent(P, cur, n, m),
         NEW x \in Pages, ~Live(P, x), Live(Q, x), Q[x].lu = cur, IsIx(cur), Q[x].span = m,
         Shape(Q[x], cur), \A e \in Entries : Q[x].ix[e] = FREE,
         Besides(P, Q, {x})
  PROVE  Forest(Q, cur) /\ Extent(Q, cur, n, m + 1)
<1>1. ASSUME NEW p \in Pages, Live(P, p) PROVE Live(Q, p) /\ Q[p] = P[p] /\ p # x
  BY <1>1 DEF Besides
<1>2. ASSUME NEW p \in Pages, Live(Q, p), p # x PROVE Live(P, p) /\ Q[p] = P[p]
  BY <1>2 DEF Besides
<1>3. \A p \in Pages : Live(P, p) => P[p].lu \in LiveIds /\ P[p].span \in Nat
  BY DEF Forest, Shaped, Shape
<1>4. cur \in LiveIds /\ Obj(cur) = cur
  BY DEF Obj, Shape
<1>5. \A p \in Pages : Live(P, p) /\ P[p].lu = cur => P[p].span < m
  BY DEF Extent
<1>7. Shaped(Q, cur)
  BY <1>2 DEF Forest, Shaped
<1>8. OneVersion(Q)
  <2>1. ASSUME NEW p \in Pages, Live(Q, p), p # x PROVE ~(Q[p].lu = Q[x].lu /\ Q[p].span = Q[x].span)
    <3>1. Live(P, p) /\ Q[p] = P[p] /\ P[p].span \in Nat
      BY <1>2, <1>3, <2>1
    <3> QED
      BY <1>5, <3>1
  <2> QED
    BY <1>2, <2>1 DEF Forest, OneVersion
<1>9. Refs(Q)
  <2> SUFFICES ASSUME NEW p \in Pages, Live(Q, p), IsIx(Q[p].lu), NEW e \in Entries, Q[p].ix[e] # FREE
               PROVE  Q[p].ix[e] \in Pages /\ EntryFor(Q, p, e, Q[p].ix[e])
    BY DEF Refs
  <2>1. p # x /\ Live(P, p) /\ Q[p] = P[p]
    BY <1>2
  <2>2. P[p].ix[e] \in Pages /\ EntryFor(P, p, e, P[p].ix[e])
    BY <2>1 DEF Forest, Refs
  <2> QED
    BY <1>1, <2>1, <2>2 DEF EntryFor
<1>10. Owned(Q)
  <2> SUFFICES ASSUME NEW r \in Pages, Live(Q, r), ~IsIx(Q[r].lu) PROVE \E p \in Pages : Owner(Q, p, r)
    BY DEF Owned
  <2>1. Live(P, r) /\ Q[r] = P[r]
    BY <1>2
  <2>2. PICK p \in Pages : Owner(P, p, r)
    BY <2>1 DEF Forest, Owned
  <2> QED
    BY <1>1, <2>1, <2>2 DEF Owner
<1>11. Headed(Q)
  <2> SUFFICES ASSUME NEW r \in Pages, Live(Q, r)
               PROVE  \E h \in Pages : IsHeader(Q, h) /\ Q[h].lu = Obj(Q[r].lu)
    BY DEF Headed
  <2>1. CASE r # x
    <3>1. Live(P, r) /\ Q[r] = P[r]
      BY <1>2, <2>1
    <3>2. PICK h \in Pages : IsHeader(P, h) /\ P[h].lu = Obj(P[r].lu)
      BY <3>1 DEF Forest, Headed
    <3> QED
      BY <1>1, <3>1, <3>2 DEF IsHeader
  <2>2. CASE r = x /\ m = 0
    BY <1>4, <2>2 DEF IsHeader
  <2>3. CASE r = x /\ m # 0
    <3>1. PICK h \in Pages : Live(P, h) /\ P[h].lu = cur /\ P[h].span = 0
      BY <2>3 DEF Extent
    <3>2. IsHeader(Q, h) /\ Q[h].lu = cur
      BY <1>1, <3>1 DEF IsHeader
    <3> QED
      BY <1>4, <2>3, <3>2
  <2> QED
    BY <2>1, <2>2, <2>3
<1>12. Sized(Q, cur)
  <2>1. \A p \in Pages : Live(P, p) /\ Obj(P[p].lu) # cur => Live(Q, p) /\ Q[p] = P[p]
    BY <1>1
  <2>2. \A p \in Pages : Live(Q, p) /\ Obj(Q[p].lu) # cur => Live(P, p) /\ Q[p] = P[p]
    BY <1>2, <1>4
  <2> QED
    BY <1>7, <2>1, <2>2, OtherSized DEF Forest
<1>13. Extent(Q, cur, n, m + 1)
  <2>1. \A p \in Pages : Live(Q, p) /\ Q[p].lu + IX_FLAG = cur => Q[p].span < n
    <3> SUFFICES ASSUME NEW p \in Pages, Live(Q, p), Q[p].lu + IX_FLAG = cur PROVE Q[p].span < n
      OBVIOUS
    <3>1. p # x
      BY <1>4, IdKinds
    <3> QED
      BY <1>2, <3>1 DEF Extent
  <2>2. \A k \in 0 .. n - 1 : \E p \in Pages : Live(Q, p) /\ Q[p].lu + IX_FLAG = cur /\ Q[p].span = k
    <3> SUFFICES ASSUME NEW k \in 0 .. n - 1
                 PROVE  \E p \in Pages : Live(Q, p) /\ Q[p].lu + IX_FLAG = cur /\ Q[p].span = k
      OBVIOUS
    <3>1. PICK p \in Pages : Live(P, p) /\ P[p].lu + IX_FLAG = cur /\ P[p].span = k
      BY DEF Extent
    <3> QED
      BY <1>1, <3>1
  <2>3. \A p \in Pages : Live(Q, p) /\ Q[p].lu = cur => Q[p].span < m + 1
    <3> SUFFICES ASSUME NEW p \in Pages, Live(Q, p), Q[p].lu = cur PROVE Q[p].span < m + 1
      OBVIOUS
    <3>1. CASE p # x
      BY <1>2, <1>3, <1>5, <3>1
    <3>2. CASE p = x
      BY <3>2
    <3> QED
      BY <3>1, <3>2
  <2>4. \A k \in 0 .. m + 1 - 1 : \E p \in Pages : Live(Q, p) /\ Q[p].lu = cur /\ Q[p].span = k
    <3> SUFFICES ASSUME NEW k \in 0 .. m + 1 - 1
                 PROVE  \E p \in Pages : Live(Q, p) /\ Q[p].lu = cur /\ Q[p].span = k
      OBVIOUS
    <3>1. CASE k = m
      BY <3>1
    <3>2. CASE k # m
      <4>1. k \in 0 .. m - 1
        BY <3>2
      <4>2. PICK p \in Pages : Live(P, p) /\ P[p].lu = cur /\ P[p].span = k
        BY <4>1 DEF Extent
      <4> QED
        BY <1>1, <4>2
    <3> QED
      BY <3>1, <3>2
  <2> QED
    BY <2>1, <2>2, <2>3, <2>4 DEF Extent
<1> QED
  BY <1>7, <1>8, <1>9, <1>10, <1>11, <1>12, <1>13 DEF Forest

\* The pages in use stay: so does the forest.
LEMMA SameForest ==
  ASSUME NEW P, NEW Q, NEW cur, SameLive(P, Q), Forest(P, cur)
  PROVE  Forest(Q, cur) /\ \A ix, n, m : Extent(P, ix, n, m) => Extent(Q, ix, n, m)
<1>1. CASE \E p \in Pages : Live(P, p)
  <2>1. PICK x \in Pages : Live(P, x)
    BY <1>1
  <2>2. \A p \in Pages : (Live(Q, p) <=> Live(P, p)) /\ (Live(P, p) => Q[p] = P[p] /\ Shape(P[p], cur))
    BY DEF SameLive, Live, Forest, Shaped
  <2>3. Renamed(P, Q, x, x, cur)
    BY <2>1, <2>2 DEF Renamed, Alt
  <2> QED
    BY <2>3, RenameForest, RenameExtent
<1>2. CASE \A p \in Pages : ~Live(P, p)
  <2>1. \A p \in Pages : ~Live(Q, p)
    BY <1>2 DEF SameLive, Live
  <2>2. Forest(Q, cur)
    BY <2>1 DEF Forest, Shaped, OneVersion, Refs, Owned, Headed, Sized, IsHeader
  <2>3. \A ix, n, m : Extent(P, ix, n, m) => Extent(Q, ix, n, m)
    BY <1>2, <2>1 DEF Extent
  <2> QED
    BY <2>2, <2>3
<1> QED
  BY <1>1, <1>2

\* A call begins to work on an object, and leaves it as its size says.
LEMMA BeginObject ==
  ASSUME NEW P, Forest(P, 0), NEW cur
  PROVE  Forest(P, cur)
<1>1. \A p \in Pages : Live(P, p) => P[p].lu # 0
  BY DEF Forest, Shaped, Shape, LiveIds
<1>2. Shaped(P, cur)
  BY <1>1 DEF Forest, Shaped, Shape
<1>3. Sized(P, cur)
  BY <1>1 DEF Forest, Sized, IsHeader
<1> QED
  BY <1>2, <1>3 DEF Forest

\* An object that is as long as its size says, and not half removed, is like any other.
LEMMA EndObject ==
  ASSUME NEW P, NEW cur, IsIx(cur), Forest(P, cur),
         \A h \in Pages : IsHeader(P, h) /\ P[h].lu = cur => Filled(P, h) /\ "IXDELE" \notin P[h].flags
  PROVE  Forest(P, 0)
<1>1. Shaped(P, 0)
  <2> SUFFICES ASSUME NEW p \in Pages, Live(P, p) PROVE Shape(P[p], 0)
    BY DEF Shaped
  <2>1. Shape(P[p], cur)
    BY DEF Forest, Shaped
  <2>2. "IXDELE" \notin P[p].flags
    <3>1. SUFFICES ASSUME "IXDELE" \in P[p].flags PROVE FALSE
      OBVIOUS
    <3>2. P[p].lu = cur /\ P[p].span = 0
      BY <2>1, <3>1 DEF Shape
    <3>4. IsIx(P[p].lu)
      BY <2>1, <3>2
    <3>5. IsHeader(P, p) /\ P[p].lu = cur
      BY <3>2, <3>4 DEF IsHeader
    <3> QED
      BY <3>1, <3>5
  <2> QED
    BY <2>1, <2>2 DEF Shape
<1>2. Sized(P, 0)
  BY DEF Forest, Sized
<1> QED
  BY <1>1, <1>2 DEF Forest

-----------------------------------------------------------------------------

\* The descriptors: each open one knows the header of its object, its size, and the
\* index page under its cursor.
FdFields == {"open", "id", "objix_hdr_pix", "size", "cursor_objix_pix", "cursor_objix_spix"}

CursorAt(d, P) ==
  \/ /\ d.cursor_objix_pix = NoPage
     /\ \A p \in Pages : ~(Live(P, p) /\ P[p].lu = d.id /\ P[p].span = d.cursor_objix_spix)
  \/ /\ d.cursor_objix_pix \in Pages /\ Live(P, d.cursor_objix_pix)
     /\ P[d.cursor_objix_pix].lu = d.id /\ P[d.cursor_objix_pix].span = d.cursor_objix_spix

FdOK(d, P, cur) ==
  /\ d.id \in IxIds
  /\ d.objix_hdr_pix \in Pages /\ IsHeader(P, d.objix_hdr_pix) /\ P[d.objix_hdr_pix].lu = d.id
  /\ d.size \in Nat
  /\ d.id # cur => Length(d.size) = Length(P[d.objix_hdr_pix].size)
  /\ d.cursor_objix_spix \in Nat
  /\ CursorAt(d, P)

FdsTyped(F) == DOMAIN F = Fds /\ \A f \in Fds : DOMAIN F[f] = FdFields

FdsOK(F, P, cur) == FdsTyped(F) /\ \A f \in Fds : F[f].open => FdOK(F[f], P, cur)

\* The index pages are where they were.
IxStay(P, Q, cur) ==
  \A p \in Pages :
     (Live(P, p) /\ IsIx(P[p].lu)) \/ (Live(Q, p) /\ IsIx(Q[p].lu)) =>
        /\ Live(P, p) /\ Live(Q, p) /\ Q[p].lu = P[p].lu /\ Q[p].span = P[p].span
        /\ P[p].lu # cur => Q[p].size = P[p].size

\* Descriptors are right while the index pages stay where they are.
LEMMA FdsStay ==
  ASSUME NEW P, NEW Q, NEW cur, NEW F, FdsOK(F, P, cur), IxStay(P, Q, cur)
  PROVE  FdsOK(F, Q, cur)
<1> SUFFICES ASSUME NEW f \in Fds, F[f].open PROVE FdOK(F[f], Q, cur)
  BY DEF FdsOK
<1> DEFINE d == F[f]
<1>1. FdOK(d, P, cur)
  BY DEF FdsOK
<1> HIDE DEF d
<1>2. IsIx(d.id)
  BY <1>1 DEF FdOK, IxIds
<1>3. CursorAt(d, Q)
  <2>1. CASE /\ d.cursor_objix_pix = NoPage
             /\ \A p \in Pages : ~(Live(P, p) /\ P[p].lu = d.id /\ P[p].span = d.cursor_objix_spix)
    <3>1. \A p \in Pages : ~(Live(Q, p) /\ Q[p].lu = d.id /\ Q[p].span = d.cursor_objix_spix)
      BY <1>2, <2>1 DEF IxStay
    <3> QED
      BY <2>1, <3>1 DEF CursorAt
  <2>2. CASE /\ d.cursor_objix_pix \in Pages /\ Live(P, d.cursor_objix_pix)
             /\ P[d.cursor_objix_pix].lu = d.id /\ P[d.cursor_objix_pix].span = d.cursor_objix_spix
    <3>1. /\ Live(Q, d.cursor_objix_pix)
          /\ Q[d.cursor_objix_pix].lu = d.id /\ Q[d.cursor_objix_pix].span = d.cursor_objix_spix
      BY <1>2, <2>2 DEF IxStay
    <3> QED
      BY <2>2, <3>1 DEF CursorAt
  <2> QED
    BY <1>1, <2>1, <2>2 DEF FdOK, CursorAt
<1>4. /\ IsHeader(Q, d.objix_hdr_pix) /\ Q[d.objix_hdr_pix].lu = d.id
      /\ d.id # cur => Length(d.size) = Length(Q[d.objix_hdr_pix].size)
  BY <1>1 DEF IxStay, FdOK, IsHeader
<1> QED
  BY <1>1, <1>3, <1>4 DEF FdOK, d

\* What an event does to a descriptor.
Follows(d, e, ev, id, spix, new_pix, new_size) ==
  /\ DOMAIN e = FdFields
  /\ ~d.open \/ d.id # id => e = d
  /\ d.open /\ d.id = id =>
       /\ e.id = d.id /\ e.cursor_objix_spix = d.cursor_objix_spix
       /\ e.open = ~(ev = "DEL" /\ spix = 0)
       /\ e.objix_hdr_pix = IF ev # "DEL" /\ spix = 0 THEN new_pix ELSE d.objix_hdr_pix
       /\ e.size = IF ev # "DEL" /\ spix = 0 /\ new_size # 0 THEN new_size ELSE d.size
       /\ e.cursor_objix_pix = IF d.cursor_objix_spix # spix THEN d.cursor_objix_pix
                               ELSE IF ev = "DEL" THEN NoPage ELSE new_pix

\* spiffs_cb_object_event tells every open descriptor of the object.
LEMMA EventFollows ==
  ASSUME NEW s, Flash(s), FdsTyped(s.fds), \A f \in Fds : s.fds[f].open => s.fds[f].id \in IxIds,
         NEW ev, NEW id \in IxIds, NEW spix, NEW new_pix, NEW new_size
  PROVE  LET t == cb_object_event(s, ev, id, spix, new_pix, new_size)
         IN FdsTyped(t.fds) /\ \A f \in Fds : Follows(s.fds[f], t.fds[f], ev, id, spix, new_pix, new_size)
<1> DEFINE Mine(d) == d.open /\ d.id % IX_FLAG = id % IX_FLAG
           Header(d) ==
             IF ~Mine(d) \/ spix # 0 THEN d
             ELSE IF ev = "DEL" THEN [d EXCEPT !.open = FALSE]
             ELSE [d EXCEPT !.objix_hdr_pix = new_pix,
                            !.size = IF new_size # 0 THEN new_size ELSE @]
           Cursor(d, e) ==
             IF ~Mine(d) \/ d.cursor_objix_spix # spix THEN e
             ELSE [e EXCEPT !.cursor_objix_pix = IF ev = "DEL" THEN NoPage ELSE new_pix]
           t == cb_object_event(s, ev, id, spix, new_pix, new_size)
<1>1. t.fds = [f \in Fds |-> Cursor(s.fds[f], Header(s.fds[f]))]
  BY DEF cb_object_event, Flash, StateFields, With, FdsTyped
<1>2. ASSUME NEW a \in IxIds PROVE a % IX_FLAG = id % IX_FLAG <=> a = id
  <2>1. ASSUME NEW b \in IxIds PROVE b % IX_FLAG = b - IX_FLAG /\ b \in Nat
    <3>1. b \in Nat /\ 32768 <= b /\ b < 65535
      BY DEF IxIds, LiveIds, IsIx, IX_FLAG, FREE
    <3>2. b % 32768 = b - 32768
      BY <3>1
    <3> QED
      BY <3>1, <3>2 DEF IX_FLAG
  <2> QED
    BY <2>1 DEF IX_FLAG
<1>3. ASSUME NEW f \in Fds PROVE Follows(s.fds[f], Cursor(s.fds[f], Header(s.fds[f])), ev, id, spix, new_pix, new_size)
  <2> DEFINE d == s.fds[f]
  <2>1. DOMAIN d = FdFields /\ (d.open => d.id \in IxIds)
    BY DEF FdsTyped
  <2> HIDE DEF d
  <2>2. d.open => (Mine(d) <=> d.id = id)
    BY <1>2, <2>1
  <2>3. ~Mine(d) => Cursor(d, Header(d)) = d
    OBVIOUS
  <2>4. Mine(d) => d.open
    OBVIOUS
  <2> DEFINE g == Header(d)
             e == Cursor(d, g)
  <2>5. CASE ~Mine(d)
    BY <2>1, <2>2, <2>3, <2>5 DEF Follows, d
  <2>6. CASE Mine(d)
    <3>1. g = IF spix # 0 THEN d
              ELSE IF ev = "DEL" THEN [d EXCEPT !.open = FALSE]
              ELSE [d EXCEPT !.objix_hdr_pix = new_pix, !.size = IF new_size # 0 THEN new_size ELSE @]
      BY <2>6
    <3>2. e = IF d.cursor_objix_spix # spix THEN g
              ELSE [g EXCEPT !.cursor_objix_pix = IF ev = "DEL" THEN NoPage ELSE new_pix]
      BY <2>6
    <3>3. d.open /\ d.id = id
      BY <2>2, <2>4, <2>6
    <3> HIDE DEF Mine, Header, Cursor, g, e
    <3>4. /\ DOMAIN g = FdFields /\ g.id = d.id /\ g.cursor_objix_spix = d.cursor_objix_spix
          /\ g.cursor_objix_pix = d.cursor_objix_pix
          /\ g.open = ~(ev = "DEL" /\ spix = 0)
      BY <2>1, <3>1, <3>3 DEF FdFields
    <3>5. /\ g.objix_hdr_pix = IF ev # "DEL" /\ spix = 0 THEN new_pix ELSE d.objix_hdr_pix
          /\ g.size = IF ev # "DEL" /\ spix = 0 /\ new_size # 0 THEN new_size ELSE d.size
      BY <2>1, <3>1 DEF FdFields
    <3>6. Follows(d, e, ev, id, spix, new_pix, new_size)
      BY <3>2, <3>3, <3>4, <3>5 DEF FdFields, Follows
    <3> QED
      BY <3>6 DEF d, e, g
  <2> QED
    BY <2>5, <2>6
<1> HIDE DEF Cursor, Header, Mine, t
<1>4. FdsTyped(t.fds)
  BY <1>1, <1>3 DEF FdsTyped, Follows
<1>5. \A f \in Fds : Follows(s.fds[f], t.fds[f], ev, id, spix, new_pix, new_size)
  BY <1>1, <1>3
<1> QED
  BY <1>4, <1>5 DEF t

Told(F, G, ev, id, spix, new_pix, new_size) ==
  FdsTyped(G) /\ \A f \in Fds : Follows(F[f], G[f], ev, id, spix, new_pix, new_size)

\* An index page has moved, and the descriptors were told.
LEMMA FdsMoved ==
  ASSUME NEW P, NEW Q, NEW cur, NEW src, NEW x, Renamed(P, Q, src, x, cur), Forest(P, cur), Forest(Q, cur),
         IsIx(P[src].lu), NEW F, FdsOK(F, P, cur), NEW G, NEW size \in Nat,
         Told(F, G, "UPD", P[src].lu, P[src].span, x, size),
         P[src].span = 0 /\ P[src].lu # cur => size = 0 \/ Length(size) = Length(Q[x].size)
  PROVE  FdsOK(G, Q, cur)
<1> DEFINE id == P[src].lu
           k == P[src].span
<1>1. src \in Pages /\ x \in Pages /\ Live(P, src) /\ Live(Q, x) /\ Q[x].lu = id /\ Q[x].span = k
      /\ (id # cur => Q[x].size = P[src].size) /\ IsIx(id) /\ k \in Nat
  BY DEF Renamed, Alt, Forest, Shaped, Shape
<1>2. \A p \in Pages : Live(P, p) /\ p # src /\ IsIx(P[p].lu) =>
         /\ Live(Q, p) /\ Q[p].lu = P[p].lu /\ Q[p].span = P[p].span
         /\ P[p].lu # cur => Q[p].size = P[p].size
  BY DEF Renamed, Alt
<1>3. \A q \in Pages : Live(Q, q) => \E p \in Pages : Live(P, p) /\ P[p].lu = Q[q].lu /\ P[p].span = Q[q].span
  BY RenameBack DEF Alt
<1> SUFFICES ASSUME NEW f \in Fds, G[f].open PROVE FdOK(G[f], Q, cur)
  BY DEF FdsOK, Told
<1> DEFINE d == F[f]
           e == G[f]
<1>4. Follows(d, e, "UPD", id, k, x, size) /\ e.open
  BY DEF Told
<1> HIDE DEF id, k
<1>5. d.open /\ e.id = d.id /\ e.cursor_objix_spix = d.cursor_objix_spix
  BY <1>4 DEF Follows
<1>6. FdOK(d, P, cur)
  BY <1>5 DEF FdsOK
<1> HIDE DEF d, e
<1>7. CASE d.id # id
  <2>1. e = d
    BY <1>4, <1>7 DEF Follows
  <2>2. P[d.objix_hdr_pix].lu = d.id /\ d.objix_hdr_pix # src
    BY <1>6, <1>7 DEF FdOK, id
  <2>3. IsHeader(Q, d.objix_hdr_pix) /\ Q[d.objix_hdr_pix].lu = d.id
        /\ (d.id # cur => Length(d.size) = Length(Q[d.objix_hdr_pix].size))
    BY <1>2, <1>6, <2>2 DEF FdOK, IsHeader
  <2>4. CursorAt(d, Q)
    <3>1. CASE /\ d.cursor_objix_pix = NoPage
               /\ \A p \in Pages : ~(Live(P, p) /\ P[p].lu = d.id /\ P[p].span = d.cursor_objix_spix)
      <4>1. \A p \in Pages : ~(Live(Q, p) /\ Q[p].lu = d.id /\ Q[p].span = d.cursor_objix_spix)
        BY <1>3, <3>1
      <4> QED
        BY <3>1, <4>1 DEF CursorAt
    <3>2. CASE /\ d.cursor_objix_pix \in Pages /\ Live(P, d.cursor_objix_pix)
               /\ P[d.cursor_objix_pix].lu = d.id /\ P[d.cursor_objix_pix].span = d.cursor_objix_spix
      <4>1. d.cursor_objix_pix # src /\ IsIx(P[d.cursor_objix_pix].lu)
        BY <1>6, <1>7, <3>2 DEF FdOK, IxIds, id
      <4>2. /\ Live(Q, d.cursor_objix_pix)
            /\ Q[d.cursor_objix_pix].lu = d.id /\ Q[d.cursor_objix_pix].span = d.cursor_objix_spix
        BY <1>2, <3>2, <4>1
      <4> QED
        BY <3>2, <4>2 DEF CursorAt
    <3> QED
      BY <1>6, <3>1, <3>2 DEF FdOK, CursorAt
  <2>5. FdOK(d, Q, cur)
    BY <1>6, <2>3, <2>4 DEF FdOK
  <2> QED
    BY <2>1, <2>5 DEF e
<1>8. CASE d.id = id
  <2>1. /\ e.objix_hdr_pix = IF k = 0 THEN x ELSE d.objix_hdr_pix
        /\ e.size = IF k = 0 /\ size # 0 THEN size ELSE d.size
        /\ e.cursor_objix_pix = IF d.cursor_objix_spix # k THEN d.cursor_objix_pix ELSE x
    BY <1>4, <1>5, <1>8 DEF Follows
  <2>2. d.objix_hdr_pix \in Pages /\ IsHeader(P, d.objix_hdr_pix) /\ P[d.objix_hdr_pix].lu = id
    BY <1>6, <1>8 DEF FdOK
  <2>3. /\ e.objix_hdr_pix \in Pages /\ IsHeader(Q, e.objix_hdr_pix) /\ Q[e.objix_hdr_pix].lu = id
        /\ e.size \in Nat
        /\ id # cur => Length(e.size) = Length(Q[e.objix_hdr_pix].size)
    <3>1. CASE k = 0
      <4>1. d.objix_hdr_pix = src
        BY <1>1, <2>2, <3>1 DEF IsHeader, Forest, OneVersion, id, k
      <4>2. IsHeader(Q, x) /\ e.objix_hdr_pix = x
        BY <1>1, <2>1, <3>1 DEF IsHeader
      <4>3. id # cur => Length(d.size) = Length(Q[x].size)
        BY <1>1, <1>6, <1>8, <4>1 DEF FdOK
      <4>4. id # cur => size = 0 \/ Length(size) = Length(Q[x].size)
        BY <3>1 DEF id, k
      <4>5. e.size = IF size # 0 THEN size ELSE d.size
        BY <2>1, <3>1
      <4> QED
        BY <1>1, <1>6, <4>2, <4>3, <4>4, <4>5 DEF FdOK
    <3>2. CASE k # 0
      <4>1. d.objix_hdr_pix # src
        BY <2>2, <3>2 DEF IsHeader, k
      <4>2. /\ IsHeader(Q, d.objix_hdr_pix) /\ Q[d.objix_hdr_pix].lu = id
            /\ id # cur => Q[d.objix_hdr_pix].size = P[d.objix_hdr_pix].size
        BY <1>1, <1>2, <2>2, <4>1 DEF IsHeader
      <4> QED
        BY <1>6, <1>8, <2>1, <2>2, <3>2, <4>2 DEF FdOK
    <3> QED
      BY <3>1, <3>2
  <2>4. CursorAt(e, Q)
    <3>1. CASE d.cursor_objix_spix = k
      BY <1>1, <1>5, <1>8, <2>1, <3>1 DEF CursorAt
    <3>2. CASE d.cursor_objix_spix # k /\ d.cursor_objix_pix = NoPage
               /\ \A p \in Pages : ~(Live(P, p) /\ P[p].lu = d.id /\ P[p].span = d.cursor_objix_spix)
      <4>1. \A p \in Pages : ~(Live(Q, p) /\ Q[p].lu = d.id /\ Q[p].span = d.cursor_objix_spix)
        BY <1>3, <3>2
      <4> QED
        BY <1>5, <2>1, <3>2, <4>1 DEF CursorAt
    <3>3. CASE d.cursor_objix_spix # k /\ d.cursor_objix_pix \in Pages /\ Live(P, d.cursor_objix_pix)
               /\ P[d.cursor_objix_pix].lu = d.id /\ P[d.cursor_objix_pix].span = d.cursor_objix_spix
      <4>1. d.cursor_objix_pix # src /\ IsIx(P[d.cursor_objix_pix].lu)
        BY <1>1, <1>8, <3>3 DEF k
      <4>2. /\ Live(Q, d.cursor_objix_pix)
            /\ Q[d.cursor_objix_pix].lu = d.id /\ Q[d.cursor_objix_pix].span = d.cursor_objix_spix
        BY <1>2, <3>3, <4>1
      <4> QED
        BY <1>5, <2>1, <3>3, <4>2 DEF CursorAt
    <3> QED
      BY <1>6, <3>1, <3>2, <3>3 DEF FdOK, CursorAt
  <2>5. FdOK(e, Q, cur)
    BY <1>5, <1>6, <1>8, <2>3, <2>4 DEF FdOK
  <2> QED
    BY <2>5 DEF e
<1> QED
  BY <1>7, <1>8

\* A new index page, and the descriptors were told.
LEMMA FdsCame ==
  ASSUME NEW P, NEW Q, NEW cur, NEW x \in Pages, ~Live(P, x), Live(Q, x), IsIx(Q[x].lu),
         Besides(P, Q, {x}), Shaped(P, cur),
         Q[x].span = 0 => \A p \in Pages : ~(Live(P, p) /\ P[p].lu = Q[x].lu),
         NEW F, FdsOK(F, P, cur), NEW G, NEW size, Told(F, G, "NEW", Q[x].lu, Q[x].span, x, size)
  PROVE  FdsOK(G, Q, cur)
<1> DEFINE id == Q[x].lu
           k == Q[x].span
<1>1. \A p \in Pages : Live(P, p) => Live(Q, p) /\ Q[p] = P[p]
  BY DEF Besides
<1>2. \A p \in Pages : Live(Q, p) /\ p # x => Live(P, p) /\ Q[p] = P[p]
  BY DEF Besides
<1> SUFFICES ASSUME NEW f \in Fds, G[f].open PROVE FdOK(G[f], Q, cur)
  BY DEF FdsOK, Told
<1> DEFINE d == F[f]
           e == G[f]
<1>3. Follows(d, e, "NEW", id, k, x, size) /\ e.open
  BY DEF Told
<1>4. k = 0 => \A p \in Pages : ~(Live(P, p) /\ P[p].lu = id)
  OBVIOUS
<1>5. id = Q[x].lu /\ k = Q[x].span
  OBVIOUS
<1> HIDE DEF id, k
<1>6. d.open /\ e.id = d.id /\ e.cursor_objix_spix = d.cursor_objix_spix
  BY <1>3 DEF Follows
<1>7. FdOK(d, P, cur)
  BY <1>6 DEF FdsOK
<1> HIDE DEF d, e
<1>8. IsHeader(Q, d.objix_hdr_pix) /\ Q[d.objix_hdr_pix] = P[d.objix_hdr_pix]
  BY <1>1, <1>7 DEF FdOK, IsHeader
<1>9. d.id = id => k # 0
  BY <1>4, <1>7 DEF FdOK, IsHeader
<1>10. e.objix_hdr_pix = d.objix_hdr_pix /\ e.size = d.size
  BY <1>3, <1>6, <1>9 DEF Follows
<1>11. CursorAt(e, Q)
  <2>1. CASE d.id = id /\ d.cursor_objix_spix = k
    <3>1. e.cursor_objix_pix = x
      BY <1>3, <1>6, <2>1 DEF Follows
    <3> QED
      BY <1>5, <1>6, <2>1, <3>1 DEF CursorAt
  <2>2. CASE ~(d.id = id /\ d.cursor_objix_spix = k)
    <3>1. e.cursor_objix_pix = d.cursor_objix_pix
      BY <1>3, <1>6, <2>2 DEF Follows
    <3>2. CASE d.cursor_objix_pix = NoPage
               /\ \A p \in Pages : ~(Live(P, p) /\ P[p].lu = d.id /\ P[p].span = d.cursor_objix_spix)
      <4>1. \A p \in Pages : ~(Live(Q, p) /\ Q[p].lu = d.id /\ Q[p].span = d.cursor_objix_spix)
        BY <1>2, <1>5, <2>2, <3>2
      <4> QED
        BY <1>6, <3>1, <3>2, <4>1 DEF CursorAt
    <3>3. CASE d.cursor_objix_pix \in Pages /\ Live(P, d.cursor_objix_pix)
               /\ P[d.cursor_objix_pix].lu = d.id /\ P[d.cursor_objix_pix].span = d.cursor_objix_spix
      BY <1>1, <1>6, <3>1, <3>3 DEF CursorAt
    <3> QED
      BY <1>7, <3>2, <3>3 DEF FdOK, CursorAt
  <2> QED
    BY <2>1, <2>2
<1>12. FdOK(e, Q, cur)
  BY <1>6, <1>7, <1>8, <1>10, <1>11 DEF FdOK
<1> QED
  BY <1>12 DEF e

\* An index page is gone, and the descriptors were told: those of a removed object are closed.
LEMMA FdsGone ==
  ASSUME NEW P, NEW Q, NEW cur, NEW w \in Pages, Live(P, w), ~Live(Q, w), IsIx(P[w].lu),
         Besides(P, Q, {w}), OneVersion(P),
         NEW F, FdsOK(F, P, cur), NEW G, Told(F, G, "DEL", P[w].lu, P[w].span, w, 0)
  PROVE  FdsOK(G, Q, cur)
<1> DEFINE id == P[w].lu
           k == P[w].span
<1>1. \A p \in Pages : Live(P, p) /\ p # w => Live(Q, p) /\ Q[p] = P[p]
  BY DEF Besides
<1>2. \A p \in Pages : Live(Q, p) => Live(P, p) /\ Q[p] = P[p] /\ p # w
  BY DEF Besides
<1> SUFFICES ASSUME NEW f \in Fds, G[f].open PROVE FdOK(G[f], Q, cur)
  BY DEF FdsOK, Told
<1> DEFINE d == F[f]
           e == G[f]
<1>3. Follows(d, e, "DEL", id, k, w, 0) /\ e.open
  BY DEF Told
<1>5. id = P[w].lu /\ k = P[w].span
  OBVIOUS
<1> HIDE DEF id, k
<1>6. d.open /\ e.id = d.id /\ e.cursor_objix_spix = d.cursor_objix_spix /\ (d.id = id => k # 0)
      /\ e.objix_hdr_pix = d.objix_hdr_pix /\ e.size = d.size
  BY <1>3 DEF Follows
<1>7. FdOK(d, P, cur)
  BY <1>6 DEF FdsOK
<1> HIDE DEF d, e
<1>8. IsHeader(Q, d.objix_hdr_pix) /\ Q[d.objix_hdr_pix] = P[d.objix_hdr_pix]
  <2>1. d.objix_hdr_pix # w
    BY <1>5, <1>6, <1>7 DEF FdOK, IsHeader
  <2> QED
    BY <1>1, <1>7, <2>1 DEF FdOK, IsHeader
<1>11. CursorAt(e, Q)
  <2>1. CASE d.id = id /\ d.cursor_objix_spix = k
    <3>1. e.cursor_objix_pix = NoPage
      BY <1>3, <1>6, <2>1 DEF Follows
    <3>2. \A p \in Pages : ~(Live(Q, p) /\ Q[p].lu = id /\ Q[p].span = k)
      BY <1>2, <1>5 DEF OneVersion
    <3> QED
      BY <1>6, <2>1, <3>1, <3>2 DEF CursorAt
  <2>2. CASE ~(d.id = id /\ d.cursor_objix_spix = k)
    <3>1. e.cursor_objix_pix = d.cursor_objix_pix
      BY <1>3, <1>6, <2>2 DEF Follows
    <3>2. CASE d.cursor_objix_pix = NoPage
               /\ \A p \in Pages : ~(Live(P, p) /\ P[p].lu = d.id /\ P[p].span = d.cursor_objix_spix)
      <4>1. \A p \in Pages : ~(Live(Q, p) /\ Q[p].lu = d.id /\ Q[p].span = d.cursor_objix_spix)
        BY <1>2, <3>2
      <4> QED
        BY <1>6, <3>1, <3>2, <4>1 DEF CursorAt
    <3>3. CASE d.cursor_objix_pix \in Pages /\ Live(P, d.cursor_objix_pix)
               /\ P[d.cursor_objix_pix].lu = d.id /\ P[d.cursor_objix_pix].span = d.cursor_objix_spix
      <4>1. d.cursor_objix_pix # w
        BY <1>5, <2>2, <3>3
      <4> QED
        BY <1>1, <1>6, <3>1, <3>3, <4>1 DEF CursorAt
    <3> QED
      BY <1>7, <3>2, <3>3 DEF FdOK, CursorAt
  <2> QED
    BY <2>1, <2>2
<1>12. FdOK(e, Q, cur)
  BY <1>6, <1>7, <1>8, <1>11 DEF FdOK
<1> QED
  BY <1>12 DEF e

\* A data page goes to page x, and its index page w says so.
DataGoes(P, Q, w, p, x, cur) ==
  /\ w \in Pages /\ p \in Pages /\ x \in Pages
  /\ Live(P, w) /\ Live(Q, w) /\ Live(P, p) /\ ~Live(Q, p) /\ ~Live(P, x) /\ Live(Q, x)
  /\ P[w].lu = P[p].lu + IX_FLAG /\ P[w].span = IxSpan(P[p].span)
  /\ Besides(P, Q, {w, p, x})
  /\ Q[x].lu = P[p].lu /\ Q[x].span = P[p].span /\ Shape(Q[x], cur)
  /\ Q[w].lu = P[w].lu /\ Q[w].span = P[w].span /\ Q[w].size = P[w].size /\ Shape(Q[w], cur)
  /\ \A e \in Entries : Q[w].ix[e] = IF e = IxEntry(P[p].span) THEN x ELSE P[w].ix[e]

\* A data page that goes, with the index page that says so, has moved.
LEMMA RelocateData ==
  ASSUME NEW P, NEW Q, NEW cur, Forest(P, cur), NEW w, NEW p, NEW x, DataGoes(P, Q, w, p, x, cur)
  PROVE  Renamed(P, Q, p, x, cur) /\ IxStay(P, Q, cur)
<1>1. /\ w \in Pages /\ p \in Pages /\ x \in Pages /\ w # x /\ p # x
      /\ Live(P, w) /\ Live(Q, w) /\ Live(P, p) /\ ~Live(Q, p) /\ ~Live(P, x) /\ Live(Q, x)
  BY DEF DataGoes
<1>2. \A q \in Pages : Live(P, q) => P[q].lu \in LiveIds /\ P[q].span \in Nat /\ Shape(P[q], cur)
  BY DEF Forest, Shaped, Shape
<1>3. ~IsIx(P[p].lu) /\ IsIx(P[w].lu) /\ w # p /\ ~IsIx(Q[x].lu)
  <2>1. P[p].lu \in LiveIds /\ P[w].lu \in LiveIds /\ P[p].lu + IX_FLAG = P[w].lu /\ Q[x].lu = P[p].lu
    BY <1>1, <1>2 DEF DataGoes
  <2> QED
    BY <2>1, IdKinds
<1>4. \A q \in Pages : q \notin {w, p, x} => (Live(Q, q) <=> Live(P, q)) /\ (Live(P, q) => Q[q] = P[q])
  BY DEF DataGoes, Besides
<1>5. ASSUME NEW q \in Pages, Live(P, q), IsIx(P[q].lu), NEW e \in Entries
      PROVE  P[q].ix[e] = p <=> q = w /\ e = IxEntry(P[p].span)
  <2>1. ASSUME P[q].ix[e] = p PROVE q = w /\ e = IxEntry(P[p].span)
    <3>1. EntryFor(P, q, e, p)
      BY <1>1, <1>5, <2>1, PageRange DEF Forest, Refs
    <3>2. P[q].lu = P[w].lu /\ P[q].span = P[w].span /\ e = IxEntry(P[p].span)
      BY <3>1 DEF EntryFor, DataGoes
    <3> QED
      BY <1>1, <1>5, <3>2 DEF Forest, OneVersion
  <2>2. P[w].ix[IxEntry(P[p].span)] = p
    <3>1. PICK o \in Pages : Owner(P, o, p)
      BY <1>1, <1>3 DEF Forest, Owned
    <3>2. o = w
      BY <1>1, <3>1 DEF Owner, DataGoes, Forest, OneVersion
    <3> QED
      BY <3>1, <3>2 DEF Owner
  <2> QED
    BY <2>1, <2>2
<1>6. Alt(P[p], Q[x], p, x, cur)
  BY <1>3 DEF Alt, DataGoes
<1>7. Alt(P[w], Q[w], p, x, cur)
  <2>1. \A e \in Entries : Q[w].ix[e] = IF P[w].ix[e] = p THEN x ELSE P[w].ix[e]
    BY <1>1, <1>3, <1>5 DEF DataGoes
  <2> QED
    BY <2>1 DEF Alt, DataGoes
<1>8. \A q \in Pages : q \notin {w, p, x} /\ Live(P, q) => Alt(P[q], Q[q], p, x, cur)
  <2> SUFFICES ASSUME NEW q \in Pages, q \notin {w, p, x}, Live(P, q) PROVE Alt(P[q], Q[q], p, x, cur)
    OBVIOUS
  <2>1. Q[q] = P[q] /\ Shape(P[q], cur)
    BY <1>2, <1>4
  <2>2. IsIx(P[q].lu) => \A e \in Entries : P[q].ix[e] # p
    BY <1>5
  <2> QED
    BY <2>1, <2>2 DEF Alt
<1>9. Renamed(P, Q, p, x, cur)
  BY <1>1, <1>4, <1>6, <1>7, <1>8 DEF Renamed
<1>10. IxStay(P, Q, cur)
  <2> SUFFICES ASSUME NEW q \in Pages, (Live(P, q) /\ IsIx(P[q].lu)) \/ (Live(Q, q) /\ IsIx(Q[q].lu))
               PROVE  /\ Live(P, q) /\ Live(Q, q) /\ Q[q].lu = P[q].lu /\ Q[q].span = P[q].span
                      /\ P[q].lu # cur => Q[q].size = P[q].size
    BY DEF IxStay
  <2>1. q # p /\ q # x
    BY <1>1, <1>3
  <2>2. CASE q = w
    BY <1>1, <2>2 DEF DataGoes
  <2>3. CASE q # w
    BY <1>4, <2>1, <2>3
  <2> QED
    BY <2>2, <2>3
<1> QED
  BY <1>9, <1>10

\* An index page goes to page x, perhaps with another size for the object in work.
IndexGoes(P, Q, w, x, cur) ==
  /\ w \in Pages /\ x \in Pages /\ Live(P, w) /\ ~Live(Q, w) /\ ~Live(P, x) /\ Live(Q, x)
  /\ IsIx(P[w].lu)
  /\ Besides(P, Q, {w, x})
  /\ Q[x].lu = P[w].lu /\ Q[x].span = P[w].span /\ Q[x].ix = P[w].ix /\ Shape(Q[x], cur)
  /\ P[w].lu # cur => Q[x].size = P[w].size

\* An index page that goes has moved.
LEMMA RelocateIndex ==
  ASSUME NEW P, NEW Q, NEW cur, Forest(P, cur), NEW w, NEW x, IndexGoes(P, Q, w, x, cur)
  PROVE  Renamed(P, Q, w, x, cur)
<1>1. \A q \in Pages : Live(P, q) => P[q].lu \in LiveIds /\ Shape(P[q], cur)
  BY DEF Forest, Shaped, Shape
<1>2. ASSUME NEW q \in Pages, Live(P, q), IsIx(P[q].lu), NEW e \in Entries
      PROVE  P[q].ix[e] # w
  <2>1. SUFFICES ASSUME P[q].ix[e] = w PROVE FALSE
    OBVIOUS
  <2>2. EntryFor(P, q, e, w)
    BY <1>2, <2>1, PageRange DEF Forest, Refs, IndexGoes
  <2>3. P[w].lu + IX_FLAG = P[q].lu /\ P[w].lu \in LiveIds /\ P[q].lu \in LiveIds
    BY <1>1, <1>2, <2>2 DEF EntryFor, IndexGoes
  <2> QED
    BY <2>3, IdKinds DEF IndexGoes
<1>3. \A q \in Pages : q \notin {w, x} => (Live(Q, q) <=> Live(P, q)) /\ (Live(P, q) => Q[q] = P[q])
  BY DEF IndexGoes, Besides
<1>4. Alt(P[w], Q[x], w, x, cur)
  <2>1. \A e \in Entries : P[w].ix[e] # w
    BY <1>2 DEF IndexGoes
  <2> QED
    BY <2>1 DEF Alt, IndexGoes
<1>5. \A q \in Pages : q \notin {w, x} /\ Live(P, q) => Alt(P[q], Q[q], w, x, cur)
  BY <1>1, <1>2, <1>3 DEF Alt
<1> QED
  BY <1>3, <1>4, <1>5 DEF Renamed, IndexGoes

\* Pages in use that stay as they are stay where they are.
LEMMA SameStay ==
  ASSUME NEW P, NEW Q, NEW cur, SameLive(P, Q)
  PROVE  IxStay(P, Q, cur) /\ \A p \in Pages : (Live(Q, p) <=> Live(P, p)) /\ (Live(P, p) => Q[p] = P[p])
  BY DEF SameLive, IxStay, Live

-----------------------------------------------------------------------------

\* Between two steps on an object every page is in its place. While a call works on
\* index page w, the new version of w is in s.work.
Settled(s, cur) ==
  Sound(s) /\ Layout(s) /\ Forest(s.page, cur) /\ FdsOK(s.fds, s.page, cur)

View(s, w) == [s.page EXCEPT ![w] = s.work]

Busy(s, w, cur) ==
  /\ Sound(s) /\ Layout(s) /\ DOMAIN s.work = PageFields
  /\ w \in Pages /\ Live(s.page, w) /\ Shape(s.page[w], cur)
  /\ s.work.lu = s.page[w].lu /\ s.work.span = s.page[w].span /\ IsIx(s.work.lu)
  /\ Forest(View(s, w), cur) /\ FdsOK(s.fds, View(s, w), cur)

\* A call that found no page ends.
Stopped(s) == Sound(s) /\ s.starved /\ s.res # "OK"

\* What the garbage collector does to the pages and the descriptors, step by step.
Gentle(s, t) ==
  /\ t.cleaning = s.cleaning /\ t.starved = s.starved
  /\ \A p \in Pages : s.page[p].lu # FREE => t.page[p].lu \in {s.page[p].lu, DELETED}
  /\ \/ t.free_cursor = s.free_cursor /\ t.page = s.page
     \/ t.free_cursor \in Pages /\ Live(t.page, t.free_cursor)

Kin(s, t) ==
  /\ \A f \in Fds : /\ t.fds[f].open = s.fds[f].open
                    /\ s.fds[f].open => /\ t.fds[f].id = s.fds[f].id
                                        /\ Length(t.fds[f].size) = Length(s.fds[f].size)
  /\ \A p \in Pages : Live(t.page, p) => \E q \in Pages : Live(s.page, q) /\ s.page[q].lu = t.page[p].lu

\* The collector's steps add up: to the pages,
LEMMA GentleTrans ==
  ASSUME NEW s, NEW t, NEW u, Gentle(s, t), Gentle(t, u)
  PROVE  Gentle(s, u)
<1>1. ASSUME NEW p \in Pages, s.page[p].lu # FREE PROVE u.page[p].lu \in {s.page[p].lu, DELETED}
  <2>1. t.page[p].lu \in {s.page[p].lu, DELETED} /\ t.page[p].lu # FREE
    BY <1>1 DEF Gentle, FREE, DELETED
  <2> QED
    BY <2>1 DEF Gentle
<1> QED
  BY <1>1 DEF Gentle

\* and to the descriptors and objects.
LEMMA KinTrans ==
  ASSUME NEW s, NEW t, NEW u, Kin(s, t), Kin(t, u)
  PROVE  Kin(s, u)
<1>1. ASSUME NEW p \in Pages, Live(u.page, p)
      PROVE  \E q \in Pages : Live(s.page, q) /\ s.page[q].lu = u.page[p].lu
  <2>1. PICK r \in Pages : Live(t.page, r) /\ t.page[r].lu = u.page[p].lu
    BY <1>1 DEF Kin
  <2>2. PICK q \in Pages : Live(s.page, q) /\ s.page[q].lu = t.page[r].lu
    BY <2>1 DEF Kin
  <2> QED
    BY <2>1, <2>2
<1>2. ASSUME NEW f \in Fds
      PROVE  /\ u.fds[f].open = s.fds[f].open
             /\ s.fds[f].open => /\ u.fds[f].id = s.fds[f].id
                                 /\ Length(u.fds[f].size) = Length(s.fds[f].size)
  BY DEF Kin
<1> QED
  BY <1>1, <1>2 DEF Kin

\* The flash as it will be differs from the flash in the page in work.
LEMMA ViewPage ==
  ASSUME NEW s, Sound(s), NEW w \in Pages
  PROVE  /\ View(s, w)[w] = s.work
         /\ \A p \in Pages : p # w => View(s, w)[p] = s.page[p]
         /\ Live(s.page, w) /\ s.work.lu = s.page[w].lu =>
               \A p \in Pages : Live(View(s, w), p) <=> Live(s.page, p)
  BY DEF View, Sound, Flash, Live

DataMoved(s, t, w, p) ==
  /\ Busy(t, w, 0) /\ t.res = "OK" /\ Gentle(s, t) /\ t.fds = s.fds
  /\ t.work.lu = s.work.lu /\ t.work.span = s.work.span
  /\ t.page[p].lu = DELETED
  /\ \A q \in Pages : q # p /\ Live(s.page, q) => t.page[q] = s.page[q]
  /\ \A q \in Pages : Live(t.page, q) => \E r \in Pages : Live(s.page, r) /\ s.page[r].lu = t.page[q].lu

\* A data page of the object in work is moved: no page is lost, and the work page knows.
LEMMA MoveDataBusy ==
  ASSUME NEW s, NEW w, Busy(s, w, 0), s.cleaning, s.res = "OK", NEW p \in Pages,
         NEW id \in LiveIds, id + IX_FLAG = s.work.lu,
         s.page[p].lu = id, IxSpan(s.page[p].span) = s.work.span
  PROVE  LET t == MoveData(s, p, id, s.work.span) IN Stopped(t) \/ DataMoved(s, t, w, p)
<1> DEFINE E == IxEntry(s.page[p].span)
           c == page_copy(s, id, p)
           t == [c EXCEPT !.work.ix[E] = c.pix]
           pg == [s.page[p] EXCEPT !.lu = id]
           P == View(s, w)
           Q == View(t, w)
           x == c.pix
<1>1. /\ Sound(s) /\ Layout(s) /\ w \in Pages /\ Live(s.page, w) /\ DOMAIN s.work = PageFields
      /\ Forest(P, 0) /\ s.work.lu = s.page[w].lu /\ IsIx(s.work.lu) /\ Shape(s.page[w], 0)
      /\ s.work.span = s.page[w].span
  BY DEF Busy
<1>2. /\ P[w] = s.work /\ \A q \in Pages : q # w => P[q] = s.page[q]
      /\ \A q \in Pages : Live(P, q) <=> Live(s.page, q)
  BY <1>1, ViewPage
<1> HIDE DEF P
<1>3. Live(s.page, p) /\ ~IsIx(id) /\ p # w
  BY <1>1, LiveId, IdKinds DEF Live, Shape
<1>4. /\ Shape(s.page[p], 0) /\ Shape(pg, 0) /\ Shape(s.work, 0)
      /\ pg.lu = id /\ pg.span = s.page[p].span
  <2>1. Shape(s.page[p], 0) /\ Shape(s.work, 0)
    BY <1>1, <1>2, <1>3 DEF Forest, Shaped
  <2>2. DOMAIN s.page[p] = PageFields
    BY <1>1 DEF Sound, Flash, PageOK
  <2>3. /\ pg.lu = id /\ pg.id = s.page[p].id /\ pg.span = s.page[p].span
        /\ pg.flags = s.page[p].flags /\ pg.ix = s.page[p].ix
    BY <2>2 DEF PageFields
  <2> HIDE DEF pg
  <2> QED
    BY <2>1, <2>3 DEF Shape
<1>5. MoveOK(s, c, pg, p)
  BY <1>1, <1>3, PageCopy
<1>6. MoveData(s, p, id, s.work.span) = IF c.res = "OK" THEN t ELSE c
  BY <1>4 DEF MoveData, Then, With, Shape
<1> HIDE DEF pg, c
<1>7. CASE c.res # "OK"
  BY <1>5, <1>6, <1>7 DEF MoveOK, Moved, NotFound, Stopped, c
<1>8. CASE c.res = "OK"
  <2>1. /\ Sound(c) /\ Same(s, c) /\ x \in Pages /\ ~Live(s.page, x) /\ c.page[x] = pg
        /\ c.page[p] = DeletedPage /\ c.free_cursor = x /\ x # p /\ Layout(c) /\ c.starved = s.starved
        /\ \A q \in Pages : q \notin {p, x} => c.page[q] = s.page[q]
        /\ s.page[x].lu = FREE
    BY <1>1, <1>4, <1>5, <1>8 DEF MoveOK, Moved, NotFound
  <2>2. x # w /\ Live(c.page, x) /\ ~Live(c.page, p) /\ c.work = s.work
    BY <1>1, <1>3, <1>4, <2>1, Blanks, LiveId DEF Live, Same
  <2>3. /\ Alike(c, t) /\ t.cleaning = c.cleaning /\ t.fds = c.fds /\ t.starved = c.starved
        /\ t.free_cursor = c.free_cursor /\ t.res = c.res
        /\ t.work = [s.work EXCEPT !.ix[E] = x]
    BY <2>1, <2>2 DEF Alike, Sound, Flash, StateFields
  <2> HIDE DEF t, x
  <2>4. E \in Entries /\ DOMAIN s.work.ix = Entries
    BY <1>1, <1>4, SpanType DEF Entries, Shape
  <2>5. /\ DOMAIN t.work = PageFields /\ t.work.lu = s.work.lu /\ t.work.span = s.work.span
        /\ t.work.size = s.work.size /\ t.work.id = s.work.id /\ t.work.flags = s.work.flags
        /\ t.work.ix = [s.work.ix EXCEPT ![E] = x]
    BY <1>1, <2>3 DEF PageFields
  <2>6. Sound(t) /\ Layout(t) /\ t.page = c.page
    BY <2>1, <2>3, AlikeSound DEF Alike, Layout, CursorOK
  <2>7. /\ Q[w] = t.work /\ \A q \in Pages : q # w => Q[q] = c.page[q]
        /\ \A q \in Pages : Live(Q, q) <=> Live(c.page, q)
        /\ Live(c.page, w) /\ c.page[w] = s.page[w]
    <3>1. Live(c.page, w) /\ c.page[w] = s.page[w]
      BY <1>1, <1>3, <2>1, <2>2 DEF Live
    <3>2. t.work.lu = t.page[w].lu
      BY <1>1, <2>5, <2>6, <3>1
    <3> QED
      BY <1>1, <2>6, <3>1, <3>2, ViewPage
  <2> HIDE DEF Q
  <2>8. Shape(t.work, 0)
    BY <1>4, <2>4, <2>5 DEF Shape
  <2>9. \A e \in Entries : Q[w].ix[e] = IF e = E THEN x ELSE P[w].ix[e]
    BY <1>2, <2>4, <2>5, <2>7
  <2>10. Besides(P, Q, {w, p, x})
    BY <1>2, <2>1, <2>7 DEF Besides, Live
  <2>11. DataGoes(P, Q, w, p, x, 0)
    <3>1. Live(P, w) /\ Live(Q, w) /\ Live(P, p) /\ ~Live(Q, p) /\ ~Live(P, x) /\ Live(Q, x)
      BY <1>1, <1>2, <1>3, <2>1, <2>2, <2>7
    <3>2. P[w].lu = P[p].lu + IX_FLAG /\ P[w].span = IxSpan(P[p].span) /\ P[p] = s.page[p] /\ Q[x] = pg
      BY <1>2, <1>3, <2>1, <2>2, <2>7
    <3>3. Q[w].lu = P[w].lu /\ Q[w].span = P[w].span /\ Q[w].size = P[w].size /\ Shape(Q[w], 0)
      BY <1>2, <2>5, <2>7, <2>8
    <3> QED
      BY <1>1, <1>4, <2>1, <2>9, <2>10, <3>1, <3>2, <3>3 DEF DataGoes, E
  <2>12. Renamed(P, Q, p, x, 0) /\ IxStay(P, Q, 0)
    BY <1>1, <2>11, RelocateData
  <2>13. Forest(Q, 0) /\ FdsOK(t.fds, Q, 0)
    <3>1. FdsOK(s.fds, P, 0) /\ t.fds = s.fds
      BY <2>1, <2>3 DEF Busy, Same, P
    <3> QED
      BY <1>1, <2>12, <3>1, RenameForest, FdsStay
  <2>14. Busy(t, w, 0)
    BY <1>1, <2>5, <2>6, <2>7, <2>13 DEF Busy, Q
  <2>15. Gentle(s, t)
    <3>1. \A q \in Pages : s.page[q].lu # FREE => t.page[q].lu \in {s.page[q].lu, DELETED}
      BY <2>1, <2>6, Blanks
    <3> QED
      BY <2>1, <2>2, <2>3, <2>6, <3>1 DEF Gentle, Same
  <2>16. t.page[p].lu = DELETED /\ \A q \in Pages : q # p /\ Live(s.page, q) => t.page[q] = s.page[q]
    BY <2>1, <2>6, Blanks
  <2>17. \A q \in Pages : Live(t.page, q) => \E r \in Pages : Live(s.page, r) /\ s.page[r].lu = t.page[q].lu
    <3> SUFFICES ASSUME NEW q \in Pages, Live(t.page, q)
                 PROVE  \E r \in Pages : Live(s.page, r) /\ s.page[r].lu = t.page[q].lu
      OBVIOUS
    <3>1. CASE q = x
      BY <1>3, <1>4, <2>1, <2>6, <3>1
    <3>2. CASE q # x
      <4>1. q # p
        BY <2>2, <2>6
      <4>2. Live(s.page, q) /\ s.page[q].lu = t.page[q].lu
        BY <2>1, <2>6, <3>2, <4>1 DEF Live
      <4> QED
        BY <4>2
    <3> QED
      BY <3>1, <3>2
  <2>18. t.fds = s.fds
    BY <2>1, <2>3 DEF Same
  <2>19. DataMoved(s, t, w, p)
    BY <1>8, <2>3, <2>5, <2>14, <2>15, <2>16, <2>17, <2>18 DEF DataMoved
  <2> QED
    BY <1>6, <1>8, <2>19
<1> QED
  BY <1>7, <1>8

\* An index page of P, which is u's flash but for that page, moves to a free page.
LEMMA Relocated ==
  ASSUME NEW u, Sound(u), NEW w \in Pages, Live(u.page, w), NEW cur, NEW P, Forest(P, cur),
         \A q \in Pages : q # w => P[q] = u.page[q],
         P[w].lu = u.page[w].lu, IsIx(P[w].lu),
         NEW c, NEW new, Moved(u, c, new, w), Shape(new, cur),
         new.lu = P[w].lu, new.span = P[w].span, new.ix = P[w].ix, P[w].lu # cur => new.size = P[w].size
  PROVE  /\ Renamed(P, c.page, w, c.pix, cur) /\ Forest(c.page, cur)
         /\ \A q \in Pages : Live(P, q) <=> Live(u.page, q)
         /\ Live(c.page, c.pix) /\ c.pix \in Pages /\ c.page[c.pix] = new
         /\ u.cleaning => Gentle(u, c)
<1> DEFINE x == c.pix
           Q == c.page
<1>1. /\ x \in Pages /\ x # w /\ ~Live(u.page, x) /\ Q[x] = new /\ Q[w] = DeletedPage
      /\ \A q \in Pages : q \notin {w, x} /\ (Live(u.page, q) \/ Live(Q, q)) => Q[q] = u.page[q]
      /\ c.free_cursor = x /\ c.starved = u.starved /\ c.cleaning = u.cleaning
  BY DEF Moved, Same
<1>2. \A q \in Pages : Live(P, q) <=> Live(u.page, q)
  BY DEF Live
<1>3. Live(Q, x) /\ ~Live(Q, w)
  BY <1>1, Blanks, LiveId DEF Live, Shape
<1>4. u.cleaning => Gentle(u, c)
  <2>1. ASSUME u.cleaning PROVE \A q \in Pages : u.page[q].lu # FREE => c.page[q].lu \in {u.page[q].lu, DELETED}
    BY <1>1, <2>1, Blanks DEF Moved
  <2> QED
    BY <1>1, <1>3, <2>1 DEF Gentle
<1> HIDE DEF x, Q
<1>5. Besides(P, Q, {w, x})
  <2> SUFFICES ASSUME NEW q \in Pages, q \notin {w, x}
               PROVE  (Live(Q, q) <=> Live(P, q)) /\ (Live(P, q) => Q[q] = P[q])
    BY DEF Besides
  <2>1. P[q] = u.page[q] /\ (Live(u.page, q) \/ Live(Q, q) => Q[q] = u.page[q])
    BY <1>1
  <2> QED
    BY <2>1 DEF Live
<1>6. IndexGoes(P, Q, w, x, cur)
  BY <1>1, <1>2, <1>3, <1>5 DEF IndexGoes
<1>7. Renamed(P, Q, w, x, cur)
  BY <1>6, RelocateIndex
<1>8. Forest(Q, cur)
  BY <1>7, RenameForest
<1> QED
  BY <1>1, <1>2, <1>3, <1>4, <1>7, <1>8 DEF x, Q

\* The index page in work has gone to the flash, and the descriptors were told.
Placed(u, t, w, cur, size) ==
  /\ Settled(t, cur) /\ t.res = "OK" /\ t.cleaning = u.cleaning /\ t.starved = u.starved
  /\ t.pix \in Pages /\ Renamed(View(u, w), t.page, w, t.pix, cur)
  /\ Told(u.fds, t.fds, "UPD", u.work.lu, u.work.span, t.pix, size)
  /\ u.cleaning => Gentle(u, t)
  /\ t.work = u.work
  /\ t.page[t.pix].size = u.work.size /\ t.page[t.pix].flags = u.work.flags

\* The index page in work is moved to the flash and its event is sent: it is there, or no
\* page was free.
LEMMA PlaceIndex ==
  ASSUME NEW u, NEW w, NEW cur, Busy(u, w, cur), u.res = "OK", NEW size \in Nat,
         u.work.span = 0 /\ u.work.lu # cur => size = 0 \/ Length(size) = Length(u.work.size)
  PROVE  LET c == page_move(u, u.work, u.work.lu, w)
             t == cb_object_event(c, "UPD", u.work.lu, u.work.span, c.pix, size)
         IN /\ c.res # "OK" => Stopped(c)
            /\ c.res = "OK" => Placed(u, t, w, cur, size)
<1> DEFINE id == u.work.lu
           span == u.work.span
           c == page_move(u, u.work, id, w)
           t == cb_object_event(c, "UPD", id, span, c.pix, size)
           new == [u.work EXCEPT !.lu = id]
           P == View(u, w)
<1>1. /\ Sound(u) /\ Layout(u) /\ DOMAIN u.work = PageFields /\ w \in Pages /\ Live(u.page, w)
      /\ Shape(u.page[w], cur) /\ id = u.page[w].lu /\ IsIx(id) /\ Forest(P, cur) /\ FdsOK(u.fds, P, cur)
      /\ id \in LiveIds
  BY DEF Busy, Shape
<1>2. P[w] = u.work /\ \A q \in Pages : q # w => P[q] = u.page[q]
  BY <1>1, ViewPage
<1>3. /\ new.lu = id /\ new.span = span /\ new.ix = u.work.ix /\ new.size = u.work.size
      /\ new.id = u.work.id /\ new.flags = u.work.flags
  BY <1>1 DEF PageFields
<1>4. MoveOK(u, c, new, w)
  BY <1>1, PageMove
<1> HIDE DEF P, new, c
<1>5. Shape(new, cur)
  <2>1. Live(P, w)
    BY <1>1, <1>2 DEF Live
  <2>2. Shape(u.work, cur)
    BY <1>1, <1>2, <2>1 DEF Forest, Shaped
  <2> QED
    BY <1>3, <2>2 DEF Shape
<1>6. ASSUME c.res # "OK" PROVE Stopped(c)
  BY <1>4, <1>6 DEF MoveOK, Moved, NotFound, Stopped
<1>7. ASSUME c.res = "OK" PROVE Placed(u, t, w, cur, size)
  <2>1. Moved(u, c, new, w)
    BY <1>4, <1>7 DEF MoveOK, NotFound
  <2>2. /\ Renamed(P, c.page, w, c.pix, cur) /\ Forest(c.page, cur)
        /\ c.page[c.pix] = new /\ c.pix \in Pages
        /\ u.cleaning => Gentle(u, c)
    BY <1>1, <1>2, <1>3, <1>5, <2>1, Relocated
  <2>3. Sound(c) /\ Layout(c) /\ c.cleaning = u.cleaning /\ c.starved = u.starved /\ c.fds = u.fds /\ c.work = u.work
    BY <1>1, <2>1 DEF Moved, Same
  <2>4. /\ Alike(c, t) /\ t.work = c.work /\ t.cleaning = c.cleaning /\ t.res = c.res /\ t.pix = c.pix
    BY <2>3, ObjectEvent DEF Sound
  <2>5. t.starved = c.starved /\ t.free_cursor = c.free_cursor
    BY <2>3 DEF cb_object_event, Sound, Flash, StateFields
  <2>6. Told(u.fds, t.fds, "UPD", id, span, t.pix, size)
    <3>1. FdsTyped(c.fds) /\ \A f \in Fds : c.fds[f].open => c.fds[f].id \in IxIds
      BY <1>1, <2>3 DEF FdsOK, FdOK
    <3>2. id \in IxIds
      BY <1>1 DEF IxIds
    <3> HIDE DEF id, span
    <3>3. FdsTyped(t.fds) /\ \A f \in Fds : Follows(c.fds[f], t.fds[f], "UPD", id, span, c.pix, size)
      BY <2>3, <3>1, <3>2, EventFollows DEF Sound
    <3> QED
      BY <2>3, <2>4, <3>3 DEF Told
  <2> HIDE DEF t
  <2>7. FdsOK(t.fds, t.page, cur)
    <3>1. P[w].lu = id /\ P[w].span = span
      BY <1>2
    <3>2. Told(u.fds, t.fds, "UPD", P[w].lu, P[w].span, c.pix, size)
      BY <2>4, <2>6, <3>1
    <3>3. P[w].span = 0 /\ P[w].lu # cur => size = 0 \/ Length(size) = Length(c.page[c.pix].size)
      BY <1>3, <2>2, <3>1
    <3>4. FdsOK(t.fds, c.page, cur)
      BY <1>1, <2>2, <3>1, <3>2, <3>3, FdsMoved
    <3> QED
      BY <2>4, <3>4 DEF Alike
  <2>8. Settled(t, cur)
    <3>1. Sound(t)
      BY <2>3, <2>4, AlikeSound
    <3>2. Layout(t) /\ Forest(t.page, cur)
      BY <2>2, <2>3, <2>4, <2>5 DEF Alike, Layout, CursorOK
    <3> QED
      BY <2>7, <3>1, <3>2 DEF Settled
  <2>9. u.cleaning => Gentle(u, t)
    BY <2>2, <2>4, <2>5 DEF Gentle, Alike
  <2> QED
    BY <1>3, <1>7, <2>2, <2>3, <2>4, <2>5, <2>6, <2>8, <2>9 DEF Placed, Alike, P
<1> QED
  BY <1>6, <1>7 DEF c, t, id, span

SameFields(F, G, f) ==
  /\ \A g \in Fds : g # f => G[g] = F[g]
  /\ DOMAIN G[f] = FdFields /\ \A k \in FdFields : G[f][k] = F[f][k]

\* An assignment that changes nothing.
LEMMA SameFd ==
  ASSUME NEW s, NEW P, NEW cur, Flash(s), FdsOK(s.fds, P, cur), NEW f \in Fds, NEW p, s.fds[f].objix_hdr_pix = p,
         NEW t, t = [s EXCEPT !.fds[f].objix_hdr_pix = p]
  PROVE  FdsOK(t.fds, P, cur) /\ SameFields(s.fds, t.fds, f)
<1>1. DOMAIN s.fds = Fds /\ DOMAIN s.fds[f] = FdFields
  BY DEF FdsOK, FdsTyped
<1>2. t.fds = [s.fds EXCEPT ![f].objix_hdr_pix = p]
  BY DEF Flash, StateFields
<1>3. t.fds[f] = [s.fds[f] EXCEPT !.objix_hdr_pix = p] /\ DOMAIN t.fds = Fds
      /\ \A g \in Fds : g # f => t.fds[g] = s.fds[g]
  BY <1>1, <1>2
<1>4. DOMAIN t.fds[f] = FdFields /\ \A k \in FdFields : t.fds[f][k] = s.fds[f][k]
  BY <1>1, <1>3
<1>5. FdsTyped(t.fds)
  <2>1. \A g \in Fds : DOMAIN t.fds[g] = FdFields
    BY <1>3, <1>4 DEF FdsOK, FdsTyped
  <2> QED
    BY <1>3, <2>1 DEF FdsTyped
<1>6. ASSUME NEW g \in Fds, t.fds[g].open PROVE FdOK(t.fds[g], P, cur)
  <2>1. CASE g # f
    BY <1>3, <1>6, <2>1 DEF FdsOK
  <2>2. CASE g = f
    <3>1. t.fds[f].open = s.fds[f].open /\ t.fds[f].id = s.fds[f].id /\ t.fds[f].size = s.fds[f].size
          /\ t.fds[f].objix_hdr_pix = s.fds[f].objix_hdr_pix
          /\ t.fds[f].cursor_objix_pix = s.fds[f].cursor_objix_pix
          /\ t.fds[f].cursor_objix_spix = s.fds[f].cursor_objix_spix
      BY <1>4 DEF FdFields
    <3>2. FdOK(s.fds[f], P, cur)
      BY <1>6, <2>2, <3>1 DEF FdsOK
    <3> QED
      BY <2>2, <3>1, <3>2 DEF FdOK, CursorAt
  <2> QED
    BY <2>1, <2>2
<1> QED
  BY <1>3, <1>4, <1>5, <1>6 DEF FdsOK, SameFields

\* The header with another name or size.
HeaderAs(hdr, name, size) == [hdr EXCEPT !.name = IF name # NoName THEN name ELSE @,
                                         !.size = IF size # 0 THEN size ELSE @]

\* spiffs_object_update_index_hdr puts the new header in place of the old one.
LEMMA PlaceHeader ==
  ASSUME NEW s, Sound(s), s.res = "OK", NEW f, NEW w \in Pages, NEW cur, NEW hdr, DOMAIN hdr = PageFields,
         NEW name, NEW size, NEW new, new = HeaderAs(hdr, name, size),
         NEW u, u = [s EXCEPT !.work = new], Busy(u, w, cur), new.span = 0, new.size \in Nat,
         f \in Fds => s.fds[f].open /\ s.fds[f].id = new.lu
  PROVE  LET t == update_index_hdr(s, f, new.lu, w, hdr, name, size)
         IN Stopped(t) \/ Placed(u, t, w, cur, new.size)
<1> DEFINE id == new.lu
           loaded == [s EXCEPT !.work = hdr]
           valid == Validate(loaded, hdr, TRUE, 0)
           set == [valid EXCEPT !.work = new]
           moved == page_move(u, new, id, w)
           told == cb_object_event(moved, "UPD", id, new.span, moved.pix, new.size)
           owned == IF f \in Fds THEN [told EXCEPT !.fds[f].objix_hdr_pix = told.pix] ELSE told
           Move(t) == page_move([t EXCEPT !.work = new], new, id, w)
           Tell(t) == cb_object_event(t, "UPD", id, new.span, t.pix, new.size)
           Own(t) == IF f \in Fds THEN [t EXCEPT !.fds[f].objix_hdr_pix = t.pix] ELSE t
           a == Then(valid, Move)
           b == Then(a, Tell)
<1>0. update_index_hdr(s, f, id, w, hdr, name, size) = Then(b, Own)
  BY DEF update_index_hdr, HeaderAs
<1>1. /\ u.work = new /\ u.res = "OK" /\ u.fds = s.fds /\ u.page = s.page /\ DOMAIN u = StateFields
  BY DEF Sound, Flash, StateFields
<1>2. /\ DOMAIN hdr = PageFields /\ hdr.flags = new.flags /\ hdr.span = new.span /\ hdr.lu = new.lu
  BY DEF PageFields, HeaderAs
<1>3. Shape(new, cur) /\ IsIx(new.lu) /\ View(u, w)[w] = new
  <2>1. Sound(u) /\ w \in Pages /\ Live(u.page, w) /\ new.lu = u.page[w].lu /\ IsIx(new.lu) /\ Forest(View(u, w), cur)
    BY <1>1 DEF Busy
  <2>2. u.work = new /\ u.work.lu = u.page[w].lu
    BY <1>1, <2>1
  <2>3. View(u, w)[w] = u.work /\ \A q \in Pages : Live(View(u, w), q) <=> Live(u.page, q)
    BY <2>1, <2>2, ViewPage
  <2>4. View(u, w)[w] = new /\ Live(View(u, w), w)
    BY <2>1, <2>2, <2>3
  <2> QED
    BY <2>1, <2>4 DEF Forest, Shaped
<1>4. valid = loaded
  BY <1>2, <1>3 DEF Validate, Shape
<1>5. Move(valid) = moved
  <2>1. [loaded EXCEPT !.work = new] = u
    BY DEF Sound, Flash, StateFields
  <2> QED
    BY <1>4, <2>1
<1>6. valid.res = "OK"
  BY <1>4 DEF Sound, Flash, StateFields
<1>7. a = moved
  <2> HIDE DEF valid, Move, moved
  <2> QED
    BY <1>5, <1>6 DEF Then, With
<1>8. b = IF a.res # "OK" THEN a ELSE Tell(a)
  <2> HIDE DEF a
  <2> QED
    BY DEF Then, With
<1>9. Then(b, Own) = IF b.res # "OK" THEN b ELSE Own(b)
  <2> HIDE DEF b
  <2> QED
    BY DEF Then, With
<1>10. told = Tell(moved) /\ owned = Own(told)
  OBVIOUS
<1>14. moved = page_move(u, u.work, u.work.lu, w) /\ told = cb_object_event(moved, "UPD", u.work.lu, u.work.span, moved.pix, new.size)
  BY <1>1
<1> HIDE DEF a, b, valid, loaded, told, owned, Tell, Own, Move, moved
<1>11. update_index_hdr(s, f, id, w, hdr, name, size)
         = IF moved.res # "OK" THEN moved ELSE IF told.res # "OK" THEN told ELSE owned
  <2>1. CASE moved.res # "OK"
    BY <1>0, <1>7, <1>8, <1>9, <2>1
  <2>2. CASE moved.res = "OK"
    <3>1. b = told
      BY <1>7, <1>8, <1>10, <2>2
    <3> QED
      BY <1>0, <1>9, <1>10, <2>2, <3>1
  <2> QED
    BY <2>1, <2>2
<1>12. (moved.res # "OK" => Stopped(moved)) /\ (moved.res = "OK" => Placed(u, told, w, cur, new.size))
  BY <1>1, <1>14, PlaceIndex
<1>13. ASSUME Placed(u, told, w, cur, new.size) PROVE told.res = "OK" /\ Placed(u, owned, w, cur, new.size)
  <2>1. CASE f \notin Fds
    BY <1>13, <2>1 DEF Placed, owned
  <2>2. CASE f \in Fds
    <3>1. Follows(u.fds[f], told.fds[f], "UPD", id, 0, told.pix, new.size) /\ u.fds[f].open /\ u.fds[f].id = id
      BY <1>1, <1>13, <2>2 DEF Placed, Told
    <3>2. told.fds[f].objix_hdr_pix = told.pix
      BY <3>1 DEF Follows
    <3>3. owned = [told EXCEPT !.fds[f].objix_hdr_pix = told.pix]
      BY <2>2 DEF owned
    <3>4. Settled(told, cur) /\ Flash(told) /\ FdsOK(told.fds, told.page, cur)
      BY <1>13 DEF Placed, Settled, Sound
    <3>5. FdsOK(owned.fds, told.page, cur) /\ SameFields(told.fds, owned.fds, f)
      BY <2>2, <3>2, <3>3, <3>4, SameFd
    <3>6. /\ Alike(told, owned) /\ owned.work = told.work /\ owned.cleaning = told.cleaning /\ owned.res = told.res
          /\ owned.pix = told.pix /\ owned.starved = told.starved /\ owned.free_cursor = told.free_cursor
      BY <3>3, <3>4 DEF Alike, Flash, StateFields
    <3> HIDE DEF id
    <3>7. Follows(u.fds[f], owned.fds[f], "UPD", id, 0, told.pix, new.size)
      BY <3>1, <3>5 DEF Follows, FdFields, SameFields
    <3>8. Told(u.fds, owned.fds, "UPD", id, 0, told.pix, new.size)
      <4>1. ASSUME NEW g \in Fds PROVE Follows(u.fds[g], owned.fds[g], "UPD", id, 0, told.pix, new.size)
        <5>1. u.work.lu = id /\ u.work.span = 0
          BY <1>1 DEF id
        <5>2. Told(u.fds, told.fds, "UPD", id, 0, told.pix, new.size)
          BY <1>13, <5>1 DEF Placed
        <5>3. g # f => owned.fds[g] = told.fds[g]
          BY <3>5 DEF SameFields
        <5> QED
          BY <3>7, <5>2, <5>3 DEF Told
      <4>2. FdsTyped(owned.fds)
        BY <3>5 DEF FdsOK
      <4> QED
        BY <4>1, <4>2 DEF Told
    <3>9. Settled(owned, cur)
      <4>1. Sound(owned)
        BY <3>4, <3>6, AlikeSound DEF Settled
      <4>2. Layout(owned) /\ Forest(owned.page, cur) /\ FdsOK(owned.fds, owned.page, cur)
        BY <3>4, <3>5, <3>6 DEF Alike, Layout, CursorOK, Settled
      <4> QED
        BY <4>1, <4>2 DEF Settled
    <3>10. owned.page = told.page
      BY <3>6 DEF Alike
    <3>11. u.cleaning => Gentle(u, owned)
      BY <1>13, <3>6, <3>10 DEF Placed, Gentle
    <3> QED
      BY <1>1, <1>13, <3>6, <3>8, <3>9, <3>10, <3>11 DEF Placed, id
  <2> QED
    BY <2>1, <2>2
<1> QED
  BY <1>11, <1>12, <1>13 DEF id

Edited(s, u, w, cur) ==
  /\ Busy(u, w, cur) /\ Renamed(View(s, w), View(u, w), w, w, cur)
  /\ u.res = s.res /\ u.fds = s.fds /\ u.page = s.page
  /\ u.cleaning = s.cleaning /\ u.starved = s.starved /\ u.free_cursor = s.free_cursor

\* The index page in work changes, but not what it names.
LEMMA WorkEdit ==
  ASSUME NEW s, NEW w, NEW cur, Busy(s, w, cur), NEW new, DOMAIN new = PageFields, Shape(new, cur),
         new.lu = s.work.lu, new.span = s.work.span, \A e \in Entries : new.ix[e] = s.work.ix[e],
         s.work.lu # cur => new.size = s.work.size,
         NEW u, u = [s EXCEPT !.work = new]
  PROVE  Edited(s, u, w, cur) /\ u.work = new
<1> DEFINE P == View(s, w)
           Q == View(u, w)
<1>1. /\ Sound(s) /\ Layout(s) /\ w \in Pages /\ Live(s.page, w) /\ s.work.lu = s.page[w].lu
      /\ s.work.span = s.page[w].span /\ IsIx(s.work.lu) /\ Forest(P, cur) /\ FdsOK(s.fds, P, cur)
      /\ Shape(s.page[w], cur)
  BY DEF Busy
<1>2. /\ Alike(s, u) /\ u.work = new /\ u.fds = s.fds /\ u.free_cursor = s.free_cursor /\ u.page = s.page
      /\ u.res = s.res /\ u.cleaning = s.cleaning /\ u.starved = s.starved
  BY <1>1 DEF Alike, Sound, Flash, StateFields
<1>3. Sound(u) /\ Layout(u)
  BY <1>1, <1>2, AlikeSound DEF Layout, CursorOK
<1>4. P[w] = s.work /\ (\A q \in Pages : q # w => P[q] = s.page[q]) /\ \A q \in Pages : Live(P, q) <=> Live(s.page, q)
  BY <1>1, ViewPage
<1>5. Q[w] = new /\ (\A q \in Pages : q # w => Q[q] = s.page[q]) /\ \A q \in Pages : Live(Q, q) <=> Live(s.page, q)
  <2>1. u.work.lu = u.page[w].lu /\ Live(u.page, w)
    BY <1>1, <1>2
  <2>2. Q[w] = u.work /\ (\A q \in Pages : q # w => Q[q] = u.page[q]) /\ \A q \in Pages : Live(Q, q) <=> Live(u.page, q)
    BY <1>1, <1>3, <2>1, ViewPage
  <2> QED
    BY <1>2, <2>2
<1> HIDE DEF P, Q
<1>6. \A q \in Pages : Live(P, q) => Shape(P[q], cur)
  BY <1>1 DEF Forest, Shaped
<1>7. Alt(P[w], Q[w], w, w, cur)
  BY <1>4, <1>5 DEF Alt
<1>8. \A q \in Pages : q # w /\ Live(P, q) => Alt(P[q], Q[q], w, w, cur)
  BY <1>4, <1>5, <1>6 DEF Alt
<1>9. Renamed(P, Q, w, w, cur)
  BY <1>1, <1>4, <1>5, <1>7, <1>8 DEF Renamed
<1>10. Forest(Q, cur)
  BY <1>1, <1>9, RenameForest
<1>11. IxStay(P, Q, cur)
  <2>1. \A q \in Pages : q # w => Q[q] = P[q]
    BY <1>4, <1>5
  <2> QED
    BY <1>4, <1>5, <2>1 DEF IxStay
<1>12. FdsOK(u.fds, Q, cur)
  BY <1>1, <1>2, <1>11, FdsStay
<1>13. Busy(u, w, cur)
  BY <1>1, <1>2, <1>3, <1>10, <1>12 DEF Busy, Q
<1> QED
  BY <1>2, <1>9, <1>13 DEF Edited, P, Q

\* Between two objects the collector has every page in its place, and took none in use.
Tidied(s, t) == Settled(t, 0) /\ t.res = "OK" /\ Gentle(s, t) /\ Kin(s, t)

\* No object comes into being when an index page is moved.
LEMMA KinPlaced ==
  ASSUME NEW u, NEW w, Busy(u, w, 0), NEW t, NEW size, Placed(u, t, w, 0, size),
         u.work.span = 0 => size = 0 \/ Length(size) = Length(u.work.size)
  PROVE  Kin(u, t)
<1> DEFINE P == View(u, w)
           id == u.work.lu
           span == u.work.span
<1>1. /\ Sound(u) /\ w \in Pages /\ Live(u.page, w) /\ id = u.page[w].lu /\ IsIx(id)
      /\ Forest(P, 0) /\ FdsOK(u.fds, P, 0)
  BY DEF Busy
<1>2. P[w] = u.work /\ (\A q \in Pages : q # w => P[q] = u.page[q]) /\ \A q \in Pages : Live(P, q) <=> Live(u.page, q)
  BY <1>1, ViewPage
<1> HIDE DEF P
<1>3. ASSUME NEW f \in Fds
      PROVE  /\ t.fds[f].open = u.fds[f].open
             /\ u.fds[f].open => t.fds[f].id = u.fds[f].id /\ Length(t.fds[f].size) = Length(u.fds[f].size)
  <2> DEFINE d == u.fds[f]
             e == t.fds[f]
  <2>1. Follows(d, e, "UPD", id, span, t.pix, size)
    BY DEF Placed, Told
  <2>2. CASE ~d.open \/ d.id # id
    BY <2>1, <2>2 DEF Follows
  <2>3. CASE d.open /\ d.id = id
    <3>1. e.open = TRUE /\ e.id = d.id /\ e.size = IF span = 0 /\ size # 0 THEN size ELSE d.size
      BY <2>1, <2>3 DEF Follows
    <3>2. CASE span = 0 /\ size # 0
      <4>1. FdOK(d, P, 0)
        BY <1>1, <2>3 DEF FdsOK
      <4>2. id # 0
        BY <1>1 DEF IsIx, IX_FLAG
      <4>3. d.objix_hdr_pix = w
        <5>1. IsHeader(P, d.objix_hdr_pix) /\ P[d.objix_hdr_pix].lu = id /\ d.objix_hdr_pix \in Pages
          BY <2>3, <4>1 DEF FdOK
        <5>2. Live(P, w) /\ P[w].lu = id /\ P[w].span = 0
          BY <1>1, <1>2, <3>2
        <5> QED
          BY <1>1, <5>1, <5>2 DEF Forest, OneVersion, IsHeader
      <4>4. Length(d.size) = Length(P[w].size)
        BY <2>3, <4>1, <4>2, <4>3 DEF FdOK
      <4> QED
        BY <1>2, <2>3, <3>1, <3>2, <4>4
    <3>3. CASE ~(span = 0 /\ size # 0)
      BY <2>3, <3>1, <3>3
    <3> QED
      BY <3>2, <3>3
  <2> QED
    BY <2>2, <2>3
<1>4. \A q \in Pages : Live(t.page, q) => \E r \in Pages : Live(u.page, r) /\ u.page[r].lu = t.page[q].lu
  <2> SUFFICES ASSUME NEW q \in Pages, Live(t.page, q)
               PROVE  \E r \in Pages : Live(u.page, r) /\ u.page[r].lu = t.page[q].lu
    OBVIOUS
  <2>1. Renamed(P, t.page, w, t.pix, 0)
    BY DEF Placed, P
  <2>2. PICK r \in Pages : Live(P, r) /\ Alt(P[r], t.page[q], w, t.pix, 0)
    BY <2>1, RenameBack
  <2>3. Live(u.page, r) /\ P[r].lu = u.page[r].lu
    BY <1>1, <1>2, <2>2
  <2> QED
    BY <2>2, <2>3 DEF Alt
<1> QED
  BY <1>3, <1>4 DEF Kin

\* The collector stores the index page in work after it has moved the data pages that the
\* page names.
LEMMA StoreIndexTidy ==
  ASSUME NEW s, NEW w, Busy(s, w, 0), s.res = "OK", s.cleaning, 0 \notin Fds
  PROVE  LET t == StoreIndex(s, s.work.lu, s.work.span, w) IN Stopped(t) \/ Tidied(s, t)
<1>1. /\ Sound(s) /\ w \in Pages /\ Live(s.page, w) /\ DOMAIN s.work = PageFields /\ s.work.lu = s.page[w].lu
      /\ Shape(s.work, 0) /\ IsIx(s.work.lu)
  <2>1. Sound(s) /\ w \in Pages /\ Live(s.page, w) /\ s.work.lu = s.page[w].lu /\ IsIx(s.work.lu)
        /\ Forest(View(s, w), 0) /\ DOMAIN s.work = PageFields
    BY DEF Busy
  <2>2. View(s, w)[w] = s.work /\ Live(View(s, w), w)
    BY <2>1, ViewPage
  <2> QED
    BY <2>1, <2>2 DEF Forest, Shaped
<1>2. CASE s.work.span = 0
  <2> DEFINE new == [s.work EXCEPT !.name = IF NoName # NoName THEN NoName ELSE @,
                                   !.size = IF 0 # 0 THEN 0 ELSE @]
             u == [s EXCEPT !.work = new]
             t == update_index_hdr(s, 0, new.lu, w, s.work, NoName, 0)
  <2>1. /\ DOMAIN new = PageFields /\ new.lu = s.work.lu /\ new.id = s.work.id /\ new.span = s.work.span
        /\ new.flags = s.work.flags /\ new.ix = s.work.ix /\ new.size = s.work.size
    BY <1>1 DEF PageFields
  <2> HIDE DEF new
  <2>2. Shape(new, 0)
    BY <1>1, <2>1 DEF Shape
  <2>3. /\ Busy(u, w, 0) /\ u.fds = s.fds /\ u.page = s.page /\ u.cleaning = s.cleaning
        /\ u.starved = s.starved /\ u.free_cursor = s.free_cursor /\ u.work = new
    <3>1. u = [s EXCEPT !.work = new]
      OBVIOUS
    <3> HIDE DEF u
    <3>2. Edited(s, u, w, 0) /\ u.work = new
      BY <2>1, <2>2, <3>1, WorkEdit
    <3> QED
      BY <3>2 DEF Edited
  <2>4. new.size \in Nat
    <3>1. Forest(View(u, w), 0) /\ View(u, w)[w] = new /\ Live(View(u, w), w) /\ IsIx(new.lu)
      <4>1. Sound(u) /\ w \in Pages /\ Live(u.page, w) /\ u.work.lu = u.page[w].lu /\ Forest(View(u, w), 0)
        BY <2>3 DEF Busy
      <4> QED
        BY <1>1, <2>1, <2>3, <4>1, ViewPage
    <3>2. IsHeader(View(u, w), w) /\ View(u, w)[w].lu # 0
      BY <1>1, <1>2, <2>1, <3>1 DEF IsHeader, IsIx, IX_FLAG
    <3> QED
      BY <1>1, <3>1, <3>2 DEF Forest, Sized, Filled
  <2>5. Stopped(t) \/ Placed(u, t, w, 0, new.size)
    <3>1. new.span = 0
      BY <1>2, <2>1
    <3>2. new = HeaderAs(s.work, NoName, 0)
      BY DEF new, HeaderAs
    <3>3. u = [s EXCEPT !.work = new]
      OBVIOUS
    <3> HIDE DEF u
    <3> QED
      BY <1>1, <2>3, <2>4, <3>1, <3>2, <3>3, PlaceHeader
  <2>6. StoreIndex(s, s.work.lu, s.work.span, w) = t
    BY <1>2, <2>1 DEF StoreIndex
  <2> HIDE DEF t, u
  <2>7. ASSUME Placed(u, t, w, 0, new.size) PROVE Tidied(s, t)
    <3>1. Kin(u, t)
      BY <2>3, <2>7, KinPlaced
    <3> QED
      BY <2>3, <2>7, <3>1 DEF Kin, Gentle, Placed, Tidied
  <2> QED
    BY <2>5, <2>6, <2>7
<1>3. CASE s.work.span # 0
  <2> DEFINE c == page_move(s, s.work, s.work.lu, w)
             t == cb_object_event(c, "UPD", s.work.lu, s.work.span, c.pix, 0)
  <2>1. (c.res # "OK" => Stopped(c)) /\ (c.res = "OK" => Placed(s, t, w, 0, 0))
    BY PlaceIndex
  <2>2. StoreIndex(s, s.work.lu, s.work.span, w)
          = IF c.res = "OK" THEN cb_object_event(c, "UPD", s.work.lu, c.work.span, c.pix, 0) ELSE c
    BY <1>3 DEF StoreIndex, Then, With
  <2>3. c.res = "OK" => c.work = s.work
    <3>1. MoveOK(s, c, [s.work EXCEPT !.lu = s.work.lu], w)
      BY <1>1, PageMove DEF Shape
    <3> HIDE DEF c
    <3> QED
      BY <3>1 DEF MoveOK, Moved, NotFound, Same
  <2> HIDE DEF c
  <2>4. StoreIndex(s, s.work.lu, s.work.span, w) = IF c.res = "OK" THEN t ELSE c
    BY <2>2, <2>3
  <2> HIDE DEF t
  <2>5. ASSUME Placed(s, t, w, 0, 0) PROVE Tidied(s, t)
    <3>1. Kin(s, t)
      BY <2>5, KinPlaced
    <3> QED
      BY <2>5, <3>1 DEF Placed, Tidied
  <2> QED
    BY <2>1, <2>4, <2>5
<1> QED
  BY <1>2, <1>3

\* The index page of an object is in work, and some of its data pages have moved.
Along(s, t, w) ==
  /\ Busy(t, w, 0) /\ t.res = "OK" /\ Gentle(s, t) /\ t.fds = s.fds
  /\ t.work.lu = s.work.lu /\ t.work.span = s.work.span
  /\ \A q \in Pages : Live(s.page, q) => t.page[q] = s.page[q] \/ t.page[q].lu = DELETED
  /\ \A q \in Pages : Live(t.page, q) => \E r \in Pages : Live(s.page, r) /\ s.page[r].lu = t.page[q].lu

\* One more data page has moved.
LEMMA AlongMoved ==
  ASSUME NEW s, NEW t, NEW u, NEW w, NEW q, Along(s, t, w), DataMoved(t, u, w, q)
  PROVE  Along(s, u, w)
<1>1. Gentle(s, u)
  BY GentleTrans DEF Along, DataMoved
<1>2. \A r \in Pages : Live(s.page, r) => u.page[r] = s.page[r] \/ u.page[r].lu = DELETED
  <2> SUFFICES ASSUME NEW r \in Pages, Live(s.page, r)
               PROVE  u.page[r] = s.page[r] \/ u.page[r].lu = DELETED
    OBVIOUS
  <2>1. CASE t.page[r].lu = DELETED
    BY <2>1 DEF DataMoved, Gentle, FREE, DELETED
  <2>2. CASE t.page[r] = s.page[r]
    BY <2>2 DEF DataMoved, Live
  <2> QED
    BY <2>1, <2>2 DEF Along
<1>3. \A r \in Pages : Live(u.page, r) => \E o \in Pages : Live(s.page, o) /\ s.page[o].lu = u.page[r].lu
  <2> SUFFICES ASSUME NEW r \in Pages, Live(u.page, r)
               PROVE  \E o \in Pages : Live(s.page, o) /\ s.page[o].lu = u.page[r].lu
    OBVIOUS
  <2>1. PICK m \in Pages : Live(t.page, m) /\ t.page[m].lu = u.page[r].lu
    BY DEF DataMoved
  <2> QED
    BY <2>1 DEF Along
<1> QED
  BY <1>1, <1>2, <1>3 DEF Along, DataMoved

\* All data pages of a block that one index page names are moved.
LEMMA DataLoopAlong ==
  ASSUME NEW s, NEW w, Busy(s, w, 0), s.cleaning, s.res = "OK", NEW b \in Blocks,
         NEW id \in LiveIds, id + IX_FLAG = s.work.lu, NEW n \in 1 .. MAX_ENTRIES,
         s.page[Scan(b)[n]].lu = id, IxSpan(s.page[Scan(b)[n]].span) = s.work.span
  PROVE  LET t == DataLoop(s, b, id, s.work.span)
         IN Stopped(t) \/ (Along(s, t, w) /\ t.page[Scan(b)[n]].lu = DELETED)
<1> DEFINE ixspan == s.work.span
           p == Scan(b)[n]
<1>1. PICK g : /\ g[0] = s
               /\ \A k \in 1 .. MAX_ENTRIES : g[k] = DataStep(g[k - 1], Scan(b)[k], id, ixspan)
               /\ DataLoop(s, b, id, ixspan) = g[MAX_ENTRIES]
  BY DataLoopSteps
<1>2. p \in Pages /\ Live(s.page, p) /\ MAX_ENTRIES \in Nat
  BY BlockScan, LiveId, SizesAssumption DEF Live
<1> DEFINE G == {k \in 0 .. MAX_ENTRIES :
                   Stopped(g[k]) \/ (Along(s, g[k], w) /\ (n <= k => g[k].page[p].lu = DELETED))}
<1>3. 0 \in G
  <2>1. Along(s, s, w)
    BY DEF Along, Gentle
  <2> QED
    BY <1>1, <1>2, <2>1
<1>4. ASSUME NEW k \in 1 .. MAX_ENTRIES, k - 1 \in G PROVE k \in G
  <2> DEFINE t == g[k - 1]
             q == Scan(b)[k]
             u == MoveData(t, q, id, ixspan)
  <2>1. g[k] = IF t.res = "OK" THEN u ELSE t
    BY <1>1 DEF DataStep, Then, With
  <2>2. q \in Pages
    BY BlockScan
  <2>3. Stopped(t) \/ (Along(s, t, w) /\ (n <= k - 1 => t.page[p].lu = DELETED))
    BY <1>4
  <2>4. q = p \/ n <= k - 1 \/ ~(n <= k)
    BY <1>2
  <2> HIDE DEF t, q, p, G
  <2>5. CASE Stopped(t)
    BY <2>1, <2>5 DEF Stopped, G
  <2>6. CASE Along(s, t, w) /\ (n <= k - 1 => t.page[p].lu = DELETED)
    <3>1. /\ Busy(t, w, 0) /\ t.res = "OK" /\ t.cleaning /\ t.work.lu = s.work.lu /\ t.work.span = ixspan
          /\ g[k] = u
      BY <2>1, <2>6 DEF Along, Gentle
    <3>2. CASE t.page[q].lu = id /\ IxSpan(t.page[q].span) = ixspan
      <4>1. Stopped(u) \/ DataMoved(t, u, w, q)
        BY <2>2, <3>1, <3>2, MoveDataBusy
      <4> HIDE DEF u
      <4>2. CASE Stopped(u)
        BY <3>1, <4>2 DEF G
      <4>3. CASE DataMoved(t, u, w, q)
        <5>1. Along(s, u, w)
          BY <2>6, <4>3, AlongMoved
        <5>2. n <= k => u.page[p].lu = DELETED
          <6>1. CASE q = p
            BY <4>3, <6>1 DEF DataMoved
          <6>2. CASE n <= k - 1
            BY <1>2, <2>6, <4>3, <6>2 DEF DataMoved, Gentle, FREE, DELETED
          <6> QED
            BY <2>4, <6>1, <6>2
        <5> QED
          BY <3>1, <5>1, <5>2 DEF G
      <4> QED
        BY <4>1, <4>2, <4>3
    <3>3. CASE ~(t.page[q].lu = id /\ IxSpan(t.page[q].span) = ixspan)
      <4>1. u = t
        BY <3>3 DEF MoveData
      <4>2. n <= k => t.page[p].lu = DELETED
        <5>1. CASE q = p
          <6>1. t.page[p] = s.page[p] \/ t.page[p].lu = DELETED
            BY <1>2, <2>6 DEF Along
          <6>2. s.page[p].lu = id /\ IxSpan(s.page[p].span) = ixspan
            BY DEF p
          <6> QED
            BY <3>3, <5>1, <6>1, <6>2
        <5> QED
          BY <2>4, <2>6, <5>1
      <4> QED
        BY <2>6, <3>1, <4>1, <4>2 DEF G
    <3> QED
      BY <3>2, <3>3
  <2> QED
    BY <2>3, <2>5, <2>6
<1> HIDE DEF G
<1>5. \A k \in 0 .. MAX_ENTRIES : k \in G
  BY <1>2, <1>3, <1>4, Steps
<1>6. Stopped(g[MAX_ENTRIES]) \/ (Along(s, g[MAX_ENTRIES], w) /\ g[MAX_ENTRIES].page[p].lu = DELETED)
  BY <1>2, <1>5 DEF G
<1> QED
  BY <1>1, <1>6

\* A search for an index page that is there finds it.
LEMMA Spot ==
  ASSUME NEW P, NEW cur, Shaped(P, cur), OneVersion(P), NEW w \in Pages, Live(P, w), IsIx(P[w].lu),
         "IXDELE" \notin P[w].flags
  PROVE  Matches(P, P[w].lu, P[w].span) = {w}
<1>1. Shape(P[w], cur)
  BY DEF Shaped
<1>2. w \in Matches(P, P[w].lu, P[w].span)
  BY <1>1 DEF Matches, Shape
<1>3. \A p \in Matches(P, P[w].lu, P[w].span) : p = w
  BY <1>1 DEF Matches, OneVersion, Live
<1> QED
  BY <1>2, <1>3

\* A search with one possible result reports it.
LEMMA SpotPage ==
  ASSUME NEW s, Flash(s), NEW id, NEW k, NEW w \in Pages, Matches(s.page, id, k) = {w}
  PROVE  obj_lu_find_id_and_span(s, id, k) = [s EXCEPT !.pix = w]
<1>1. Min({w}) = w
  BY PageRange DEF Min
<1> QED
  BY <1>1 DEF obj_lu_find_id_and_span

\* Two states that differ in what the page layer does not look at.
Still(s, t) ==
  /\ Alike(s, t) /\ t.fds = s.fds /\ t.free_cursor = s.free_cursor /\ t.res = s.res
  /\ t.cleaning = s.cleaning /\ t.starved = s.starved

\* Every page stays in its place when nothing changes that the page layer looks at.
LEMMA StillSettled ==
  ASSUME NEW s, NEW t, NEW cur, Settled(s, cur), Still(s, t)
  PROVE  Settled(t, cur) /\ t.page = s.page
<1>1. Sound(t)
  BY AlikeSound DEF Settled, Still
<1> QED
  BY <1>1 DEF Settled, Still, Alike, Layout, CursorOK

\* The index page w is read into work.
Loaded(s, t, w, cur) ==
  /\ Busy(t, w, cur)
  /\ \A q \in Pages : View(t, w)[q] = s.page[q]
  /\ Renamed(s.page, View(t, w), w, w, cur)
  /\ Validate(t, t.work, TRUE, s.page[w].span) = t

\* An index page that is read is in work, and passes its checks.
LEMMA LoadBusy ==
  ASSUME NEW s, NEW cur, Settled(s, cur), NEW w \in Pages, Live(s.page, w), IsIx(s.page[w].lu),
         NEW t, Still(s, t), t.work = s.page[w]
  PROVE  Loaded(s, t, w, cur)
<1>1. Sound(s) /\ Layout(s) /\ Forest(s.page, cur) /\ FdsOK(s.fds, s.page, cur)
  BY DEF Settled
<1>2. Sound(t) /\ Layout(t) /\ t.page = s.page
  BY <1>1, StillSettled DEF Settled
<1>3. Shape(s.page[w], cur) /\ DOMAIN s.page[w] = PageFields
  BY <1>1 DEF Forest, Shaped, Sound, Flash, PageOK
<1>4. View(t, w)[w] = t.work /\ \A q \in Pages : q # w => View(t, w)[q] = t.page[q]
  BY <1>2, ViewPage
<1>5. \A q \in Pages : View(t, w)[q] = s.page[q]
  BY <1>2, <1>4
<1>6. SameLive(s.page, View(t, w))
  BY <1>5 DEF SameLive
<1>7. Forest(View(t, w), cur) /\ IxStay(s.page, View(t, w), cur)
  BY <1>1, <1>6, SameForest, SameStay
<1>8. FdsOK(t.fds, View(t, w), cur)
  <2>1. t.fds = s.fds
    BY DEF Still
  <2> QED
    BY <1>1, <1>7, <2>1, FdsStay
<1>9. Busy(t, w, cur)
  BY <1>2, <1>3, <1>7, <1>8 DEF Busy
<1>10. Renamed(s.page, View(t, w), w, w, cur)
  <2> DEFINE Q == View(t, w)
  <2>1. \A q \in Pages : (Live(Q, q) <=> Live(s.page, q)) /\ (Live(s.page, q) => Shape(s.page[q], cur))
    BY <1>1, <1>5 DEF Live, Forest, Shaped
  <2>2. \A q \in Pages : Live(s.page, q) => Alt(s.page[q], Q[q], w, w, cur)
    BY <1>5, <2>1 DEF Alt
  <2> HIDE DEF Q
  <2> QED
    BY <2>1, <2>2 DEF Renamed, Q
<1>11. Validate(t, t.work, TRUE, s.page[w].span) = t
  BY <1>3 DEF Validate, Shape
<1> QED
  BY <1>5, <1>9, <1>10, <1>11 DEF Loaded

\* Two things that the collector did one after the other.
LEMMA TidyTrans ==
  ASSUME NEW s, NEW t, NEW u, Gentle(s, t), Kin(s, t), Tidied(t, u)
  PROVE  Tidied(s, u)
  BY GentleTrans, KinTrans DEF Tidied

\* The collector may also do nothing.
LEMMA TidySelf ==
  ASSUME NEW s, Settled(s, 0), s.res = "OK"
  PROVE  Tidied(s, s)
  BY DEF Tidied, Gentle, Kin

\* --------------------------- The garbage collector ----------------------------

\* Every data page of the object at p that is in the block moves, and its index page too.
LEMMA MoveObjectTidy ==
  ASSUME NEW s, Settled(s, 0), s.res = "OK", s.cleaning, 0 \notin Fds, NEW b \in Blocks, NEW n \in 1 .. MAX_ENTRIES
  PROVE  LET t == MoveObject(s, b, Scan(b)[n])
             p == Scan(b)[n]
         IN /\ Stopped(t) \/ (Tidied(s, t) /\ ~(Live(t.page, p) /\ ~IsIx(t.page[p].lu)))
            /\ Live(s.page, p) \/ t = s
<1> DEFINE p == Scan(b)[n]
           id == s.page[p].lu
           ixspan == IxSpan(s.page[p].span)
           t == MoveObject(s, b, p)
<1>1. CASE id \in {FREE, DELETED} \/ IsIx(id)
  BY <1>1, TidySelf DEF MoveObject, Live
<1>2. CASE ~(id \in {FREE, DELETED} \/ IsIx(id))
  <2>1. p \in Pages /\ Live(s.page, p) /\ ~IsIx(id)
    BY <1>2, BlockScan DEF Live
  <2>2. Shape(s.page[p], 0) /\ Sound(s) /\ Forest(s.page, 0)
    BY <2>1 DEF Settled, Forest, Shaped
  <2>3. PICK w \in Pages : Owner(s.page, w, p)
    BY <2>1, <2>2 DEF Forest, Owned
  <2> DEFINE found == [s EXCEPT !.pix = w]
             valid == [found EXCEPT !.work = s.page[w]]
             moved == DataLoop(valid, b, id, ixspan)
             stored == StoreIndex(moved, id + IX_FLAG, ixspan, w)
             All(v) ==
               LET load == [v EXCEPT !.work = v.page[v.pix]]
                   Step(u, q) == Then(u, LAMBDA x : MoveData(x, q, id, ixspan))
               IN Then(Then(Validate(load, load.work, TRUE, ixspan),
                            LAMBDA u : Fold(Step, u, Scan(b))),
                       LAMBDA u : StoreIndex(u, id + IX_FLAG, ixspan, v.pix))
  <2>4. t = Then(obj_lu_find_id_and_span(s, id + IX_FLAG, ixspan), All)
    BY <1>2 DEF MoveObject
  <2>5. id \in LiveIds /\ IsIx(id + IX_FLAG) /\ Live(s.page, w) /\ s.page[w].lu = id + IX_FLAG
        /\ s.page[w].span = ixspan /\ Shape(s.page[w], 0)
    BY <2>1, <2>2, <2>3, IndexId DEF Owner, Shape, Forest, Shaped
  <2> HIDE DEF id, ixspan, p
  <2>6. obj_lu_find_id_and_span(s, id + IX_FLAG, ixspan) = found
    <3>1. "IXDELE" \notin s.page[w].flags
      BY <2>5 DEF Shape, LiveIds
    <3>2. Matches(s.page, id + IX_FLAG, ixspan) = {w}
      BY <2>2, <2>5, <3>1, Spot DEF Forest
    <3> QED
      BY <2>2, <3>2, SpotPage DEF Sound
  <2>7. /\ Still(s, found) /\ Still(s, valid) /\ valid.work = s.page[w]
        /\ found.pix = w /\ found.page = s.page /\ found.res = "OK" /\ valid.res = "OK"
        /\ valid.cleaning
    BY <2>2 DEF Still, Alike, Sound, Flash, StateFields
  <2> HIDE DEF found, valid
  <2>8. Busy(valid, w, 0) /\ Validate(valid, valid.work, TRUE, ixspan) = valid
    <3>1. Loaded(s, valid, w, 0)
      BY <2>5, <2>7, LoadBusy
    <3> QED
      BY <2>5, <3>1 DEF Loaded
  <2>9. All(found) = IF moved.res = "OK" THEN stored ELSE moved
    <3>1. [found EXCEPT !.work = found.page[found.pix]] = valid
      BY <2>7 DEF valid
    <3> DEFINE load == [found EXCEPT !.work = found.page[found.pix]]
    <3>0. All(found) = Then(Then(Validate(load, load.work, TRUE, ixspan),
                                 LAMBDA u : DataLoop(u, b, id, ixspan)),
                            LAMBDA u : StoreIndex(u, id + IX_FLAG, ixspan, found.pix))
      BY DEF DataLoop
    <3> HIDE DEF load
    <3>2. All(found) = Then(Then(Validate(valid, valid.work, TRUE, ixspan),
                                 LAMBDA u : DataLoop(u, b, id, ixspan)),
                            LAMBDA u : StoreIndex(u, id + IX_FLAG, ixspan, w))
      <4> HIDE DEF All
      <4> QED
        BY <2>7, <3>0, <3>1 DEF load, Then, With
    <3> HIDE DEF All
    <3>3. Then(valid, LAMBDA u : DataLoop(u, b, id, ixspan)) = moved
      BY <2>7 DEF Then, With
    <3>4. Then(moved, LAMBDA u : StoreIndex(u, id + IX_FLAG, ixspan, w)) = IF moved.res = "OK" THEN stored ELSE moved
      <4> HIDE DEF moved
      <4> QED
        BY DEF Then, With
    <3> QED
      BY <2>8, <3>2, <3>3, <3>4
  <2>10. t = IF moved.res = "OK" THEN stored ELSE moved
    <3>1. t = All(found)
      <4> HIDE DEF All
      <4> QED
        BY <2>4, <2>6, <2>7 DEF Then, With
    <3> QED
      BY <2>9, <3>1
  <2> HIDE DEF t, All
  <2>11. valid.work.lu = id + IX_FLAG /\ valid.work.span = ixspan /\ valid.page = s.page /\ valid.fds = s.fds
    BY <2>5, <2>7 DEF Still, Alike
  <2>12. Stopped(moved) \/ (Along(valid, moved, w) /\ moved.page[p].lu = DELETED)
    <3>1. valid.page[p].lu = id /\ IxSpan(valid.page[p].span) = valid.work.span
      BY <2>11 DEF id, ixspan
    <3>2. LET u == DataLoop(valid, b, id, valid.work.span)
          IN Stopped(u) \/ (Along(valid, u, w) /\ u.page[Scan(b)[n]].lu = DELETED)
      BY <2>5, <2>7, <2>8, <2>11, <3>1, DataLoopAlong DEF p
    <3> QED
      BY <2>11, <3>2 DEF p
  <2> HIDE DEF moved
  <2>13. CASE Stopped(moved)
    BY <2>1, <2>10, <2>13 DEF Stopped, t, p
  <2>14. CASE Along(valid, moved, w) /\ moved.page[p].lu = DELETED
    <3>1. Busy(moved, w, 0) /\ moved.res = "OK" /\ moved.cleaning /\ moved.work.lu = id + IX_FLAG
          /\ moved.work.span = ixspan
      BY <2>7, <2>11, <2>14 DEF Along, Gentle
    <3>2. Stopped(stored) \/ Tidied(moved, stored)
      BY <3>1, StoreIndexTidy
    <3>3. Gentle(s, moved) /\ Kin(s, moved)
      BY <2>7, <2>11, <2>14 DEF Along, Gentle, Kin, Still
    <3> HIDE DEF stored
    <3>4. Tidied(moved, stored) => Tidied(s, stored)
      BY <3>3, TidyTrans
    <3>5. Tidied(moved, stored) => ~Live(stored.page, p)
      BY <2>1, <2>14 DEF Tidied, Gentle, Live, FREE, DELETED
    <3> QED
      BY <2>1, <2>10, <2>14, <3>1, <3>2, <3>4, <3>5 DEF t, p
  <2> QED
    BY <2>12, <2>13, <2>14
<1> QED
  BY <1>1, <1>2

\* No data page is left in the first k pages of block b.
DataGone(P, b, k) == \A i \in 1 .. k : ~(Live(P, Scan(b)[i]) /\ ~IsIx(P[Scan(b)[i]].lu))

\* The loop over the objects with data pages in a block leaves none there: what is
\* copied into the block during the loop comes behind the page that the loop is at.
LEMMA ObjectLoopTidy ==
  ASSUME NEW s, Settled(s, 0), s.res = "OK", s.cleaning, 0 \notin Fds, NEW b \in Blocks
  PROVE  LET t == ObjectLoop(s, b) IN Stopped(t) \/ (Tidied(s, t) /\ DataGone(t.page, b, MAX_ENTRIES))
<1>1. PICK g : /\ g[0] = s
               /\ \A k \in 1 .. MAX_ENTRIES : g[k] = ObjectStep(g[k - 1], Scan(b)[k], b)
               /\ ObjectLoop(s, b) = g[MAX_ENTRIES]
  BY ObjectLoopSteps
<1> DEFINE G == {k \in 0 .. MAX_ENTRIES : Stopped(g[k]) \/ (Tidied(s, g[k]) /\ DataGone(g[k].page, b, k))}
<1>2. MAX_ENTRIES \in Nat
  BY SizesAssumption
<1>3. 0 \in G
  <2>1. Tidied(s, s)
    BY TidySelf
  <2>2. DataGone(s.page, b, 0)
    BY DEF DataGone
  <2> QED
    BY <1>1, <1>2, <2>1, <2>2
<1>4. ASSUME NEW k \in 1 .. MAX_ENTRIES, k - 1 \in G
      PROVE  k \in G
  <2> DEFINE t == g[k - 1]
             p == Scan(b)[k]
             u == MoveObject(t, b, p)
  <2>1. g[k] = IF t.res = "OK" THEN u ELSE t
    <3>1. g[k] = ObjectStep(t, p, b)
      BY <1>1
    <3> HIDE DEF t, p
    <3> QED
      BY <3>1 DEF ObjectStep, Then, With
  <2>2. Stopped(t) \/ (Tidied(s, t) /\ DataGone(t.page, b, k - 1))
    BY <1>4
  <2>3. CASE Stopped(t)
    <3>1. g[k] = t
      BY <2>1, <2>3 DEF Stopped
    <3> QED
      BY <2>3, <3>1
  <2>4. CASE Tidied(s, t) /\ DataGone(t.page, b, k - 1)
    <3>1. Settled(t, 0) /\ t.res = "OK" /\ t.cleaning /\ g[k] = u
      BY <2>1, <2>4 DEF Tidied, Gentle
    <3> HIDE DEF t
    <3>2. /\ Stopped(u) \/ (Tidied(t, u) /\ ~(Live(u.page, p) /\ ~IsIx(u.page[p].lu)))
          /\ Live(t.page, p) \/ u = t
      BY <3>1, MoveObjectTidy
    <3> HIDE DEF u
    <3>3. CASE Stopped(u)
      BY <3>1, <3>3
    <3>4. CASE Tidied(t, u) /\ ~(Live(u.page, p) /\ ~IsIx(u.page[p].lu))
      <4>1. Tidied(s, u)
        BY <2>4, <3>4, TidyTrans DEF Tidied
      <4>2. ASSUME NEW i \in 1 .. k, Live(u.page, Scan(b)[i]), ~IsIx(u.page[Scan(b)[i]].lu)
            PROVE  FALSE
        <5> DEFINE q == Scan(b)[i]
        <5>1. i # k
          BY <3>4, <4>2
        <5>2. i \in 1 .. k - 1
          BY <5>1
        <5>3. ~(Live(t.page, q) /\ ~IsIx(t.page[q].lu))
          BY <2>4, <5>2 DEF DataGone
        <5>4. u # t /\ Live(t.page, p)
          BY <3>2, <4>2, <5>3
        <5>5. q \in Pages /\ p \in Pages /\ BlockOf(q) = b /\ BlockOf(p) = b /\ q < p
          <6>1. i \in 1 .. MAX_ENTRIES
            BY <1>2
          <6>2. q \in Pages /\ p \in Pages /\ q \in PagesOf(b) /\ p \in PagesOf(b)
            BY <6>1, BlockScan
          <6>3. BlockOf(q) = b /\ BlockOf(p) = b
            BY <6>2, BlockPages
          <6>4. q = b * MAX_ENTRIES + i - 1 /\ p = b * MAX_ENTRIES + k - 1
            BY <6>1 DEF Scan
          <6>5. b * MAX_ENTRIES \in Nat
            BY <1>2 DEF Blocks
          <6> HIDE DEF q, p
          <6> QED
            BY <5>2, <6>2, <6>3, <6>4, <6>5
        <5> HIDE DEF q, p
        <5>6. t.page[q].lu # FREE
          BY <3>1, <5>4, <5>5 DEF Settled, Layout, FreeLast, Live
        <5>7. u.page[q].lu \in {t.page[q].lu, DELETED}
          BY <3>4, <5>5, <5>6 DEF Tidied, Gentle
        <5> QED
          BY <4>2, <5>3, <5>6, <5>7 DEF Live, q
      <4>3. DataGone(u.page, b, k)
        BY <4>2 DEF DataGone
      <4> QED
        BY <3>1, <4>1, <4>3
    <3> QED
      BY <3>2, <3>3, <3>4
  <2> QED
    BY <2>2, <2>3, <2>4
<1> HIDE DEF G
<1>5. \A k \in 0 .. MAX_ENTRIES : k \in G
  BY <1>2, <1>3, <1>4, Steps
<1>6. Stopped(g[MAX_ENTRIES]) \/ (Tidied(s, g[MAX_ENTRIES]) /\ DataGone(g[MAX_ENTRIES].page, b, MAX_ENTRIES))
  BY <1>2, <1>5 DEF G
<1> QED
  BY <1>1, <1>6

\* The index page at p moves, and the data pages stay where they are.
IndexMoved(s, t, p) ==
  /\ Tidied(s, t)
  /\ ~(Live(t.page, p) /\ IsIx(t.page[p].lu))
  /\ \A q \in Pages : Live(t.page, q) /\ ~IsIx(t.page[q].lu) => Live(s.page, q) /\ ~IsIx(s.page[q].lu)

\* The collector moves an index page of the block.
LEMMA MoveIndexTidy ==
  ASSUME NEW s, Settled(s, 0), s.res = "OK", s.cleaning, NEW p \in Pages
  PROVE  LET t == MoveIndex(s, p)
         IN /\ Stopped(t) \/ IndexMoved(s, t, p)
            /\ Live(s.page, p) \/ t = s
<1> DEFINE id == s.page[p].lu
           span == s.page[p].span
           c == page_copy(s, id, p)
           e == cb_object_event(c, "UPD", id, span, c.pix, 0)
           t == MoveIndex(s, p)
           new == [s.page[p] EXCEPT !.lu = id]
<1>0. Sound(s) /\ Layout(s) /\ Forest(s.page, 0) /\ FdsOK(s.fds, s.page, 0)
  BY DEF Settled
<1>1. CASE ~IsIx(id)
  BY <1>1, TidySelf DEF MoveIndex, IndexMoved
<1>2. CASE IsIx(id)
  <2>1. Live(s.page, p)
    BY <1>2 DEF IsIx, Live, FREE, DELETED, IX_FLAG
  <2>2. Shape(s.page[p], 0) /\ id \in IxIds /\ id \in LiveIds
    BY <1>0, <1>2, <2>1 DEF Forest, Shaped, Shape, IxIds
  <2>3. t = IF c.res = "OK" THEN e ELSE c
    BY <1>2, <2>2 DEF MoveIndex, Shape, Then, With
  <2>4. MoveOK(s, c, new, p)
    BY <1>0, <2>1, <2>2, PageCopy
  <2>5. DOMAIN s.page[p] = PageFields
    BY <1>0 DEF Sound, Flash, PageOK
  <2>6. /\ new.lu = id /\ new.span = span /\ new.ix = s.page[p].ix /\ new.size = s.page[p].size
        /\ new.id = s.page[p].id /\ new.flags = s.page[p].flags
    BY <2>5 DEF PageFields
  <2> HIDE DEF t, c, new
  <2>7. Shape(new, 0)
    BY <2>2, <2>6 DEF Shape
  <2>8. CASE c.res # "OK"
    BY <2>1, <2>3, <2>4, <2>8 DEF MoveOK, Moved, NotFound, Stopped, t
  <2>9. CASE c.res = "OK"
    <3>1. Moved(s, c, new, p)
      BY <2>4, <2>9 DEF MoveOK, NotFound
    <3>2. /\ Renamed(s.page, c.page, p, c.pix, 0) /\ Forest(c.page, 0)
          /\ c.page[c.pix] = new /\ c.pix \in Pages
          /\ s.cleaning => Gentle(s, c)
      BY <1>0, <1>2, <2>1, <2>6, <2>7, <3>1, Relocated
    <3>3. Sound(c) /\ Layout(c) /\ c.cleaning = s.cleaning /\ c.starved = s.starved /\ c.fds = s.fds
      BY <1>0, <3>1 DEF Moved, Same
    <3>4. /\ Alike(c, e) /\ e.res = c.res
      BY <3>3, ObjectEvent DEF Sound
    <3>5. e.starved = c.starved /\ e.free_cursor = c.free_cursor /\ e.cleaning = c.cleaning
      BY <3>3 DEF cb_object_event, Sound, Flash, StateFields
    <3>6. Told(s.fds, e.fds, "UPD", id, span, c.pix, 0)
      <4>1. FdsTyped(c.fds) /\ \A f \in Fds : c.fds[f].open => c.fds[f].id \in IxIds
        BY <1>0, <3>3 DEF FdsOK, FdOK
      <4> HIDE DEF id, span
      <4>2. FdsTyped(e.fds) /\ \A f \in Fds : Follows(c.fds[f], e.fds[f], "UPD", id, span, c.pix, 0)
        BY <2>2, <3>3, <4>1, EventFollows DEF Sound
      <4> QED
        BY <3>3, <4>2 DEF Told
    <3> HIDE DEF e
    <3>7. FdsOK(e.fds, c.page, 0)
      BY <1>0, <1>2, <3>2, <3>6, FdsMoved
    <3>8. Sound(e)
      BY <3>3, <3>4, AlikeSound
    <3>9. Settled(e, 0)
      BY <3>2, <3>3, <3>4, <3>5, <3>7, <3>8 DEF Alike, Layout, CursorOK, Settled
    <3>10. Gentle(s, e)
      BY <3>2, <3>4, <3>5 DEF Gentle, Alike
    <3>11. Kin(s, e)
      <4>1. \A f \in Fds : /\ e.fds[f].open = s.fds[f].open
                           /\ s.fds[f].open => /\ e.fds[f].id = s.fds[f].id
                                               /\ Length(e.fds[f].size) = Length(s.fds[f].size)
        <5> SUFFICES ASSUME NEW f \in Fds
                     PROVE  /\ e.fds[f].open = s.fds[f].open
                            /\ s.fds[f].open => e.fds[f].id = s.fds[f].id /\ e.fds[f].size = s.fds[f].size
          OBVIOUS
        <5>1. Follows(s.fds[f], e.fds[f], "UPD", id, span, c.pix, 0)
          BY <3>6 DEF Told
        <5>2. CASE ~s.fds[f].open \/ s.fds[f].id # id
          BY <5>1, <5>2 DEF Follows
        <5>3. CASE s.fds[f].open /\ s.fds[f].id = id
          BY <5>1, <5>3 DEF Follows
        <5> QED
          BY <5>2, <5>3
      <4>2. \A q \in Pages : Live(e.page, q) => \E r \in Pages : Live(s.page, r) /\ s.page[r].lu = e.page[q].lu
        BY <3>2, <3>4, RenameBack DEF Alt, Alike
      <4> QED
        BY <4>1, <4>2 DEF Kin
    <3>12. ~(Live(e.page, p) /\ IsIx(e.page[p].lu))
      BY <3>1, <3>4, Blanks DEF Moved, Alike, Live
    <3>13. \A q \in Pages : Live(e.page, q) /\ ~IsIx(e.page[q].lu) => Live(s.page, q) /\ ~IsIx(s.page[q].lu)
      <4> SUFFICES ASSUME NEW q \in Pages, Live(c.page, q), ~IsIx(c.page[q].lu)
                   PROVE  Live(s.page, q) /\ ~IsIx(s.page[q].lu)
        BY <3>4 DEF Alike
      <4>1. q # c.pix /\ q # p
        BY <1>2, <2>6, <3>1, <3>2, Blanks DEF Moved, Live
      <4> QED
        BY <3>1, <4>1 DEF Moved, Live
    <3> QED
      BY <2>1, <2>3, <2>9, <3>4, <3>9, <3>10, <3>11, <3>12, <3>13 DEF IndexMoved, Tidied, t
  <2> QED
    BY <2>8, <2>9
<1> QED
  BY <1>1, <1>2

\* No index page is left in the first k pages of block b.
IndexGone(P, b, k) == \A i \in 1 .. k : ~(Live(P, Scan(b)[i]) /\ IsIx(P[Scan(b)[i]].lu))

\* The same for index pages. The block has no data page then, and gets none.
LEMMA IndexLoopTidy ==
  ASSUME NEW s, Settled(s, 0), s.res = "OK", s.cleaning, NEW b \in Blocks, DataGone(s.page, b, MAX_ENTRIES)
  PROVE  LET t == IndexLoop(s, b)
         IN Stopped(t) \/ (Tidied(s, t) /\ DataGone(t.page, b, MAX_ENTRIES) /\ IndexGone(t.page, b, MAX_ENTRIES))
<1>1. PICK g : /\ g[0] = s
               /\ \A k \in 1 .. MAX_ENTRIES : g[k] = IndexStep(g[k - 1], Scan(b)[k])
               /\ IndexLoop(s, b) = g[MAX_ENTRIES]
  BY IndexLoopSteps
<1> DEFINE Good(t, k) == Tidied(s, t) /\ DataGone(t.page, b, MAX_ENTRIES) /\ IndexGone(t.page, b, k)
           G == {k \in 0 .. MAX_ENTRIES : Stopped(g[k]) \/ Good(g[k], k)}
<1>2. MAX_ENTRIES \in Nat
  BY SizesAssumption
<1>3. 0 \in G
  <2>1. Tidied(s, s)
    BY TidySelf
  <2>2. IndexGone(s.page, b, 0)
    BY DEF IndexGone
  <2> QED
    BY <1>1, <1>2, <2>1, <2>2
<1>4. ASSUME NEW k \in 1 .. MAX_ENTRIES, k - 1 \in G
      PROVE  k \in G
  <2> DEFINE t == g[k - 1]
             p == Scan(b)[k]
             u == MoveIndex(t, p)
  <2>1. g[k] = IF t.res = "OK" THEN u ELSE t
    <3>1. g[k] = IndexStep(t, p)
      BY <1>1
    <3> HIDE DEF t, p
    <3> QED
      BY <3>1 DEF IndexStep, Then, With
  <2>2. Stopped(t) \/ Good(t, k - 1)
    BY <1>4
  <2>3. CASE Stopped(t)
    <3>1. g[k] = t
      BY <2>1, <2>3 DEF Stopped
    <3> QED
      BY <2>3, <3>1
  <2>4. CASE Good(t, k - 1)
    <3>1. Settled(t, 0) /\ t.res = "OK" /\ t.cleaning /\ g[k] = u
      BY <2>1, <2>4 DEF Tidied, Gentle
    <3>0. p \in Pages
      BY BlockScan
    <3> HIDE DEF t
    <3>2. /\ Stopped(u) \/ IndexMoved(t, u, p)
          /\ Live(t.page, p) \/ u = t
      BY <3>0, <3>1, MoveIndexTidy
    <3> HIDE DEF u
    <3>3. CASE Stopped(u)
      BY <3>1, <3>3
    <3>4. CASE IndexMoved(t, u, p)
      <4>1. Tidied(s, u)
        BY <2>4, <3>4, TidyTrans DEF Tidied, IndexMoved
      <4>2. ASSUME NEW i \in 1 .. k, Live(u.page, Scan(b)[i]), IsIx(u.page[Scan(b)[i]].lu)
            PROVE  FALSE
        <5> DEFINE q == Scan(b)[i]
        <5>1. i # k
          BY <3>4, <4>2 DEF IndexMoved
        <5>2. i \in 1 .. k - 1
          BY <5>1
        <5>3. ~(Live(t.page, q) /\ IsIx(t.page[q].lu))
          BY <2>4, <5>2 DEF IndexGone
        <5>4. u # t /\ Live(t.page, p)
          BY <3>2, <4>2, <5>3
        <5>5. q \in Pages /\ p \in Pages /\ BlockOf(q) = b /\ BlockOf(p) = b /\ q < p
          <6>1. i \in 1 .. MAX_ENTRIES
            BY <1>2
          <6>2. q \in Pages /\ p \in Pages /\ q \in PagesOf(b) /\ p \in PagesOf(b)
            BY <6>1, BlockScan
          <6>3. BlockOf(q) = b /\ BlockOf(p) = b
            BY <6>2, BlockPages
          <6>4. q = b * MAX_ENTRIES + i - 1 /\ p = b * MAX_ENTRIES + k - 1
            BY <6>1 DEF Scan
          <6>5. b * MAX_ENTRIES \in Nat
            BY <1>2 DEF Blocks
          <6> HIDE DEF q, p
          <6> QED
            BY <5>2, <6>2, <6>3, <6>4, <6>5
        <5> HIDE DEF q, p
        <5>6. t.page[q].lu # FREE
          BY <3>1, <5>4, <5>5 DEF Settled, Layout, FreeLast, Live
        <5>7. u.page[q].lu \in {t.page[q].lu, DELETED}
          BY <3>4, <5>5, <5>6 DEF Tidied, Gentle, IndexMoved
        <5> QED
          BY <4>2, <5>3, <5>6, <5>7 DEF Live, q
      <4>3. IndexGone(u.page, b, k)
        BY <4>2 DEF IndexGone
      <4>4. DataGone(u.page, b, MAX_ENTRIES)
        BY <2>4, <3>4, BlockScan DEF DataGone, IndexMoved
      <4> QED
        BY <3>1, <4>1, <4>3, <4>4
    <3> QED
      BY <3>2, <3>3, <3>4
  <2> QED
    BY <2>2, <2>3, <2>4
<1> HIDE DEF G
<1>5. \A k \in 0 .. MAX_ENTRIES : k \in G
  BY <1>2, <1>3, <1>4, Steps
<1>6. Stopped(g[MAX_ENTRIES]) \/ Good(g[MAX_ENTRIES], MAX_ENTRIES)
  BY <1>2, <1>5 DEF G
<1> QED
  BY <1>1, <1>6

\* A block is empty: it holds no page in use, and the next search does not start in it.
Emptied(s, b) == /\ \A p \in PagesOf(b) : ~Live(s.page, p)
                 /\ s.free_cursor \notin PagesOf(b)

\* Cleaning a block empties it, and every page that was in use there is in use elsewhere.
LEMMA CleanTidy ==
  ASSUME NEW s, Settled(s, 0), s.res = "OK", s.cleaning, 0 \notin Fds, NEW b \in Blocks,
         s.page[b * MAX_ENTRIES].lu # FREE
  PROVE  LET t == gc_clean(s, b)
         IN Stopped(t) \/ /\ Settled(t, 0) /\ t.res = "OK" /\ t.starved = s.starved /\ Kin(s, t)
                          /\ Emptied(t, b) /\ t.page[b * MAX_ENTRIES].lu # FREE
<1> DEFINE away == ((b + 1) % block_count) * MAX_ENTRIES
           from == IF BlockOf(s.free_cursor) = b THEN away ELSE s.free_cursor
           cursor == [s EXCEPT !.free_cursor = from]
           data == ObjectLoop(cursor, b)
           t == IndexLoop(data, b)
<1>1. gc_clean(s, b) = t
  BY DEF gc_clean, IndexLoop, ObjectLoop
<1>0. Sound(s) /\ Layout(s) /\ Forest(s.page, 0) /\ FdsOK(s.fds, s.page, 0)
  BY DEF Settled
<1>2. /\ Alike(s, cursor) /\ cursor.cleaning /\ cursor.fds = s.fds /\ cursor.res = "OK"
      /\ cursor.starved = s.starved /\ cursor.free_cursor = from
  BY <1>0 DEF Sound, Flash, Alike, StateFields
<1>3. (b + 1) % block_count \in Blocks /\ (b + 1) % block_count # b
  BY SizesAssumption DEF Blocks
<1>4. away \in Pages /\ EntryOf(away) = 0 /\ BlockOf(away) # b
  BY <1>3, BlockPages
<1> HIDE DEF cursor, away
<1>5. from \in Pages /\ BlockOf(from) # b
  BY <1>0, <1>4 DEF Layout, CursorOK
<1>6. Settled(cursor, 0)
  <2>1. Sound(cursor)
    BY <1>0, <1>2, AlikeSound
  <2>2. Layout(cursor)
    BY <1>0, <1>2, <1>4 DEF Layout, CursorOK, Alike
  <2> QED
    BY <1>0, <1>2, <2>1, <2>2 DEF Settled, Alike
<1>7. Stopped(data) \/ (Tidied(cursor, data) /\ DataGone(data.page, b, MAX_ENTRIES))
  BY <1>2, <1>6, ObjectLoopTidy
<1> HIDE DEF data
<1>8. CASE Stopped(data)
  <2>1. PICK g : /\ g[0] = data
                 /\ \A k \in 1 .. MAX_ENTRIES : g[k] = IndexStep(g[k - 1], Scan(b)[k])
                 /\ t = g[MAX_ENTRIES]
    BY IndexLoopSteps
  <2> DEFINE G == {k \in 0 .. MAX_ENTRIES : g[k] = data}
  <2>2. MAX_ENTRIES \in Nat
    BY SizesAssumption
  <2>3. 0 \in G
    BY <2>1, <2>2
  <2>4. ASSUME NEW k \in 1 .. MAX_ENTRIES, k - 1 \in G
        PROVE  k \in G
    <3>1. g[k] = IndexStep(data, Scan(b)[k])
      BY <2>1, <2>4
    <3>2. IndexStep(data, Scan(b)[k]) = data
      BY <1>8 DEF Stopped, IndexStep, Then, With
    <3> QED
      BY <3>1, <3>2
  <2> HIDE DEF G
  <2>5. \A k \in 0 .. MAX_ENTRIES : k \in G
    BY <2>2, <2>3, <2>4, Steps
  <2> QED
    BY <1>1, <1>8, <2>1, <2>2, <2>5 DEF G
<1>9. CASE Tidied(cursor, data) /\ DataGone(data.page, b, MAX_ENTRIES)
  <2>1. Settled(data, 0) /\ data.res = "OK" /\ data.cleaning
    BY <1>2, <1>9 DEF Tidied, Gentle
  <2>2. Stopped(t) \/ (Tidied(data, t) /\ DataGone(t.page, b, MAX_ENTRIES) /\ IndexGone(t.page, b, MAX_ENTRIES))
    BY <1>9, <2>1, IndexLoopTidy
  <2> HIDE DEF t
  <2>3. CASE Tidied(data, t) /\ DataGone(t.page, b, MAX_ENTRIES) /\ IndexGone(t.page, b, MAX_ENTRIES)
    <3>1. Tidied(cursor, t)
      BY <1>9, <2>3, TidyTrans DEF Tidied
    <3>2. \A p \in PagesOf(b) : ~Live(t.page, p)
      <4> SUFFICES ASSUME NEW p \in PagesOf(b) PROVE ~Live(t.page, p)
        OBVIOUS
      <4> DEFINE i == p - b * MAX_ENTRIES + 1
      <4>1. i \in 1 .. MAX_ENTRIES
        BY SizesAssumption DEF PagesOf, Blocks
      <4>2. Scan(b)[i] = p
        BY <4>1, SizesAssumption DEF Scan, PagesOf, Blocks
      <4> HIDE DEF i
      <4> QED
        BY <2>3, <4>1, <4>2 DEF DataGone, IndexGone
    <3>3. t.free_cursor \notin PagesOf(b)
      <4>1. CASE t.free_cursor = cursor.free_cursor
        BY <1>2, <1>5, <4>1, BlockPages
      <4>2. CASE t.free_cursor \in Pages /\ Live(t.page, t.free_cursor)
        BY <3>2, <4>2
      <4> QED
        BY <3>1, <4>1, <4>2 DEF Tidied, Gentle
    <3>4. Kin(s, cursor)
      BY <1>2 DEF Kin, Alike
    <3>5. Kin(s, t)
      BY <3>1, <3>4, KinTrans DEF Tidied
    <3>6. t.page[b * MAX_ENTRIES].lu # FREE
      BY <1>2, <3>1, BlockPages DEF Tidied, Gentle, Alike, FREE, DELETED
    <3> QED
      BY <1>1, <1>2, <3>1, <3>2, <3>3, <3>5, <3>6 DEF Tidied, Gentle, Emptied
  <2> QED
    BY <1>1, <2>2, <2>3
<1> QED
  BY <1>7, <1>8, <1>9

Wiped(s, t, b) ==
  /\ Sound(t) /\ t.page = [p \in Pages |-> IF p \in PagesOf(b) THEN Erased ELSE s.page[p]]
  /\ t.fds = s.fds /\ t.res = s.res /\ t.starved = s.starved /\ t.free_cursor = s.free_cursor

\* Erasing a block takes its pages out of the counts.
LEMMA WipedBlock ==
  ASSUME NEW s, Sound(s), NEW b \in Blocks, s.page[b * MAX_ENTRIES].lu # FREE
  PROVE  Wiped(s, erase_block(gc_erase_page_stats(s, b), b), b)
<1> DEFINE t == gc_erase_page_stats(s, b)
           live == {p \in PagesOf(b) : Live(s.page, p)}
           dead == {p \in PagesOf(b) : s.page[p].lu = DELETED}
<1>1. /\ DOMAIN t = StateFields /\ t.page = s.page /\ t.free_blocks = s.free_blocks
      /\ t.allocated = s.allocated - Cardinality(live) /\ t.deleted = s.deleted - Cardinality(dead)
      /\ t.erase = s.erase /\ t.max_erase_count = s.max_erase_count /\ t.fds = s.fds /\ t.res = s.res
      /\ t.starved = s.starved /\ t.free_cursor = s.free_cursor
  BY DEF gc_erase_page_stats, Sound, Flash, StateFields
<1> HIDE DEF t
<1>2. Flash(t)
  BY <1>1 DEF Flash, Sound
<1>3. PagesOf(b) \subseteq Pages
  BY BlockPages
<1>4. LivePages(s.page) \intersect PagesOf(b) = live
  BY <1>3 DEF LivePages
<1>5. DeletedPages(s.page) \intersect PagesOf(b) = dead
  BY <1>3 DEF DeletedPages
<1>6. Cardinality(LivePages(s.page) \ PagesOf(b)) = Cardinality(LivePages(s.page)) - Cardinality(live)
  <2> DEFINE A == LivePages(s.page)  B == PagesOf(b)
  <2>1. IsFiniteSet(A) /\ A \intersect B = live
    BY <1>4, Finite
  <2> HIDE DEF A, B, live
  <2>2. Cardinality(A \ B) = Cardinality(A) - Cardinality(A \intersect B)
    BY <2>1, FS_Difference
  <2> QED
    BY <2>1, <2>2 DEF A, B
<1>7. Cardinality(DeletedPages(s.page) \ PagesOf(b)) = Cardinality(DeletedPages(s.page)) - Cardinality(dead)
  <2> DEFINE A == DeletedPages(s.page)  B == PagesOf(b)
  <2>1. IsFiniteSet(A) /\ A \intersect B = dead
    BY <1>5, Finite
  <2> HIDE DEF A, B, dead
  <2>2. Cardinality(A \ B) = Cardinality(A) - Cardinality(A \intersect B)
    BY <2>1, FS_Difference
  <2> QED
    BY <2>1, <2>2 DEF A, B
<1>8. /\ t.allocated = Cardinality(LivePages(t.page) \ PagesOf(b))
      /\ t.deleted = Cardinality(DeletedPages(t.page) \ PagesOf(b))
      /\ t.free_blocks = Cardinality(FreeBlocks(t.page)) /\ t.page[b * MAX_ENTRIES].lu # FREE
  BY <1>1, <1>6, <1>7 DEF Sound, Counted
<1>9. /\ Sound(erase_block(t, b)) /\ Same(t, erase_block(t, b)) /\ erase_block(t, b).res = t.res
      /\ erase_block(t, b).page = [p \in Pages |-> IF p \in PagesOf(b) THEN Erased ELSE t.page[p]]
      /\ erase_block(t, b).starved = t.starved /\ erase_block(t, b).free_cursor = t.free_cursor
  BY <1>2, <1>8, EraseBlock
<1> QED
  BY <1>1, <1>9 DEF t, Wiped, Same

\* An empty block is erased: the files and the descriptors are as they were.
LEMMA WipedSettled ==
  ASSUME NEW s, Settled(s, 0), NEW b \in Blocks, Emptied(s, b), NEW t, Wiped(s, t, b)
  PROVE  Settled(t, 0) /\ Kin(s, t)
<1>1. Sound(s) /\ Layout(s) /\ Forest(s.page, 0) /\ FdsOK(s.fds, s.page, 0) /\ Sound(t)
  BY DEF Settled, Wiped
<1>2. PagesOf(b) \subseteq Pages
  BY BlockPages
<1>3. \A p \in Pages : t.page[p] = IF p \in PagesOf(b) THEN Erased ELSE s.page[p]
  BY DEF Wiped
<1>4. SameLive(s.page, t.page)
  BY <1>3, Blanks DEF SameLive, Emptied, Live
<1>5. Layout(t)
  BY <1>1, EraseLayout DEF Emptied, Wiped
<1>6. Forest(t.page, 0)
  BY <1>1, <1>4, SameForest
<1>7. FdsOK(t.fds, t.page, 0)
  <2>1. IxStay(s.page, t.page, 0)
    BY <1>4, SameStay
  <2>2. FdsOK(s.fds, t.page, 0)
    BY <1>1, <2>1, FdsStay
  <2> QED
    BY <2>2 DEF Wiped
<1>8. Kin(s, t)
  <2>1. \A p \in Pages : Live(t.page, p) => Live(s.page, p) /\ s.page[p].lu = t.page[p].lu
    BY <1>4 DEF SameLive, Live
  <2> QED
    BY <2>1 DEF Kin, Wiped
<1> QED
  BY <1>1, <1>5, <1>6, <1>7, <1>8 DEF Settled

\* What a round of the collector leaves behind.
Collected(s, t) == Settled(t, 0) /\ Kin(s, t) /\ t.starved = s.starved /\ (t.res = "OK" \/ t.stop)

\* A round that has a block to clean: it erases the block when it is empty, or runs out
\* of pages.
LEMMA CollectTidy ==
  ASSUME NEW s, Settled(s, 0), s.res = "OK", Candidates(s) # {}, NEW len, 0 \notin Fds
  PROVE  LET t == Collect(s, len) IN (Stopped(t) /\ t.stop) \/ Collected(s, t)
<1> DEFINE before == free_pages(s)
           b == find_candidate(s, before <= 0)
           begin == [s EXCEPT !.cleaning = TRUE, !.work = Erased]
           clean == gc_clean(begin, b)
           end == [clean EXCEPT !.cleaning = FALSE]
           wiped == erase_block(gc_erase_page_stats(end, b), b)
           t == IF end.res = "OK" THEN wiped ELSE end
           stop == \/ t.res # "OK"
                   \/ before <= 0 /\ free_pages(t) = before
                   \/ t.free_blocks > 2 /\ len <= free_pages(t) * DATA_PAGE_SIZE
           out == [t EXCEPT !.stop = stop]
<1>1. Collect(s, len) = out
  BY DEF Collect, Then, With
<1>0. Sound(s)
  BY DEF Settled
<1>2. b \in Blocks /\ s.page[b * MAX_ENTRIES].lu # FREE
  BY <1>0, Candidate DEF Sound
<1> HIDE DEF b
<1>3. /\ Alike(s, begin) /\ begin.cleaning = TRUE /\ begin.fds = s.fds /\ begin.res = "OK"
      /\ begin.starved = s.starved /\ begin.free_cursor = s.free_cursor
  BY <1>0 DEF Sound, Flash, Alike, StateFields
<1> HIDE DEF begin
<1>4. Settled(begin, 0) /\ begin.page = s.page
  <2>1. Sound(begin)
    BY <1>0, <1>3, AlikeSound
  <2> QED
    BY <1>3, <2>1 DEF Settled, Alike, Layout, CursorOK
<1>5. Stopped(clean) \/ /\ Settled(clean, 0) /\ clean.res = "OK" /\ clean.starved = begin.starved
                        /\ Kin(begin, clean) /\ Emptied(clean, b) /\ clean.page[b * MAX_ENTRIES].lu # FREE
  BY <1>2, <1>3, <1>4, CleanTidy
<1> HIDE DEF clean
<1>6. /\ Alike(clean, end) /\ end.fds = clean.fds /\ end.res = clean.res /\ end.starved = clean.starved
      /\ end.free_cursor = clean.free_cursor
  <2>1. DOMAIN clean = StateFields
    BY <1>5 DEF Stopped, Settled, Sound, Flash
  <2> QED
    BY <2>1 DEF Alike, StateFields
<1> HIDE DEF end
<1>7. CASE Stopped(clean)
  <2>1. Stopped(end)
    BY <1>6, <1>7, AlikeSound DEF Stopped
  <2>2. t = end
    BY <2>1 DEF Stopped
  <2> HIDE DEF t, stop
  <2>3. stop
    BY <2>1, <2>2 DEF stop, Stopped
  <2>4. Alike(t, out) /\ out.res = t.res /\ out.starved = t.starved /\ out.stop = stop
    BY <2>1, <2>2 DEF Stopped, Sound, Flash, Alike, StateFields
  <2> HIDE DEF out
  <2>5. Stopped(out)
    BY <2>1, <2>2, <2>4, AlikeSound DEF Stopped
  <2> QED
    BY <1>1, <2>3, <2>4, <2>5
<1>8. CASE /\ Settled(clean, 0) /\ clean.res = "OK" /\ clean.starved = begin.starved
           /\ Kin(begin, clean) /\ Emptied(clean, b) /\ clean.page[b * MAX_ENTRIES].lu # FREE
  <2>1. Settled(end, 0) /\ end.page = clean.page
    <3>1. Sound(end)
      BY <1>6, <1>8, AlikeSound DEF Settled
    <3> QED
      BY <1>6, <1>8, <3>1 DEF Settled, Alike, Layout, CursorOK
  <2>2. Emptied(end, b)
    BY <1>6, <1>8, <2>1 DEF Emptied
  <2>3. Wiped(end, wiped, b)
    BY <1>2, <1>8, <2>1, WipedBlock DEF Settled
  <2>4. t = wiped
    BY <1>6, <1>8
  <2> HIDE DEF t, wiped, stop
  <2>5. Settled(t, 0) /\ Kin(end, t) /\ t.res = "OK" /\ t.starved = s.starved
    BY <1>2, <1>3, <1>6, <1>8, <2>1, <2>2, <2>3, <2>4, WipedSettled DEF Wiped
  <2>6. Alike(t, out) /\ out.fds = t.fds /\ out.res = t.res /\ out.starved = t.starved /\ out.free_cursor = t.free_cursor
    BY <2>5 DEF Settled, Sound, Flash, Alike, StateFields
  <2> HIDE DEF out
  <2>7. Settled(out, 0)
    <3>1. Sound(out)
      BY <2>5, <2>6, AlikeSound DEF Settled
    <3> QED
      BY <2>5, <2>6, <3>1 DEF Settled, Alike, Layout, CursorOK
  <2>8. Kin(s, out)
    <3>1. Kin(s, begin) /\ Kin(clean, end) /\ Kin(t, out)
      BY <1>3, <1>4, <1>6, <2>1, <2>6 DEF Kin, Alike
    <3>2. Kin(s, clean)
      BY <1>8, <3>1, KinTrans
    <3>3. Kin(s, end)
      BY <3>1, <3>2, KinTrans
    <3>4. Kin(s, t)
      BY <2>5, <3>3, KinTrans
    <3> QED
      BY <3>1, <3>4, KinTrans
  <2> QED
    BY <1>1, <2>5, <2>6, <2>7, <2>8 DEF Collected
<1> QED
  BY <1>5, <1>7, <1>8

\* A round of the collector,
LEMMA RoundTidy ==
  ASSUME NEW s, Settled(s, 0), s.res = "OK" \/ s.stop, NEW len, 0 \notin Fds
  PROVE  LET t == RoundStep(s, len) IN (Stopped(t) /\ t.stop) \/ Collected(s, t)
<1> DEFINE end == IF (len + DATA_PAGE_SIZE - 1) \div DATA_PAGE_SIZE < free_pages(s) THEN "OK" ELSE "FULL"
           t == [s EXCEPT !.stop = TRUE, !.empty = TRUE, !.work = Erased, !.res = end]
<1>1. RoundStep(s, len) = IF s.stop THEN s ELSE IF Candidates(s) = {} THEN t ELSE Collect(s, len)
  BY DEF RoundStep
<1>2. CASE s.stop
  <2>1. Collected(s, s)
    BY <1>2 DEF Collected, Kin
  <2> QED
    BY <1>1, <1>2, <2>1
<1>3. CASE ~s.stop /\ Candidates(s) = {}
  <2> HIDE DEF end
  <2>1. Alike(s, t) /\ t.fds = s.fds /\ t.starved = s.starved /\ t.free_cursor = s.free_cursor /\ t.stop
    BY DEF Settled, Sound, Flash, Alike, StateFields
  <2> HIDE DEF t
  <2>2. Settled(t, 0)
    <3>1. Sound(t)
      BY <2>1, AlikeSound DEF Settled
    <3> QED
      BY <2>1, <3>1 DEF Settled, Alike, Layout, CursorOK
  <2>3. Kin(s, t)
    BY <2>1 DEF Kin, Alike
  <2> QED
    BY <1>1, <1>3, <2>1, <2>2, <2>3 DEF Collected
<1>4. CASE ~s.stop /\ Candidates(s) # {}
  BY <1>1, <1>4, CollectTidy
<1> QED
  BY <1>2, <1>3, <1>4

\* The rounds of the collector are a sequence of states.
LEMMA RoundSteps ==
  ASSUME NEW s, NEW len
  PROVE  \E g : /\ g[0] = s
                /\ \A k \in 1 .. SPIFFS_GC_MAX_RUNS : g[k] = RoundStep(g[k - 1], len)
                /\ RoundLoop(s, len) = g[SPIFFS_GC_MAX_RUNS]
<1> DEFINE Op(t, i) == RoundStep(t, len)
           n == SPIFFS_GC_MAX_RUNS
           seq == [i \in 1 .. n |-> i]
           Is(g, m) == g = [k \in 0 .. m |-> IF k = 0 THEN s ELSE Op(g[k - 1], seq[k])]
           after == CHOOSE g : Is(g, n)
<1>1. n \in Nat /\ Len(seq) = n
  BY DEF SPIFFS_GC_MAX_RUNS
<1>2. RoundLoop(s, len) = after[n]
  BY <1>1 DEF RoundLoop, Fold
<1>3. \A t, i : Op(t, i) = RoundStep(t, len)
  OBVIOUS
<1> HIDE DEF Op, seq, n
<1>4. \E g : Is(g, n)
  <2> DEFINE G == {m \in 0 .. n : \E g : Is(g, m)}
  <2>1. 0 \in G
    <3>1. Is([k \in 0 .. 0 |-> s], 0)
      OBVIOUS
    <3> HIDE DEF Is
    <3>2. \E g : Is(g, 0)
      BY <3>1
    <3> QED
      BY <1>1, <3>2
  <2>2. ASSUME NEW m \in 1 .. n, m - 1 \in G PROVE m \in G
    <3>1. PICK g : Is(g, m - 1)
      BY <2>2
    <3> DEFINE h == [k \in 0 .. m |-> IF k = m THEN Op(g[m - 1], seq[m]) ELSE g[k]]
    <3>2. Is(h, m)
      BY <3>1
    <3> HIDE DEF h, Is
    <3>3. \E x : Is(x, m)
      BY <3>2
    <3> QED
      BY <3>3, <1>1
  <2> HIDE DEF G
  <2>3. \A m \in 0 .. n : m \in G
    BY <2>1, <2>2, <1>1, Steps
  <2> QED
    BY <2>3, <1>1 DEF G
<1>5. Is(after, n)
  BY <1>4
<1> HIDE DEF after
<1>6. after[0] = s /\ \A k \in 1 .. n : after[k] = RoundStep(after[k - 1], len)
  BY <1>1, <1>3, <1>5
<1>7. \E g : g[0] = s /\ (\A k \in 1 .. n : g[k] = RoundStep(g[k - 1], len)) /\ RoundLoop(s, len) = g[n]
  BY <1>2, <1>6
<1> QED
  BY <1>7 DEF n

\* The collector either runs out of pages or leaves every file and descriptor in its place.
GcDone(s, t) == Stopped(t) \/ (Settled(t, 0) /\ Kin(s, t) /\ t.starved = s.starved)

\* and all its rounds.
LEMMA RoundLoopTidy ==
  ASSUME NEW s, Settled(s, 0), s.res = "OK", NEW len, 0 \notin Fds
  PROVE  GcDone(s, RoundLoop(s, len))
<1>1. PICK g : /\ g[0] = s
               /\ \A k \in 1 .. SPIFFS_GC_MAX_RUNS : g[k] = RoundStep(g[k - 1], len)
               /\ RoundLoop(s, len) = g[SPIFFS_GC_MAX_RUNS]
  BY RoundSteps
<1> DEFINE n == SPIFFS_GC_MAX_RUNS
           G == {k \in 0 .. n : (Stopped(g[k]) /\ g[k].stop) \/ Collected(s, g[k])}
<1>2. n \in Nat
  BY DEF SPIFFS_GC_MAX_RUNS
<1> HIDE DEF n
<1>3. 0 \in G
  <2>1. Collected(s, s)
    BY DEF Collected, Kin
  <2> QED
    BY <1>1, <1>2, <2>1
<1>4. ASSUME NEW k \in 1 .. n, k - 1 \in G
      PROVE  k \in G
  <2> DEFINE t == g[k - 1]
             u == RoundStep(t, len)
  <2>1. g[k] = u
    BY <1>1 DEF n
  <2>2. (Stopped(t) /\ t.stop) \/ Collected(s, t)
    BY <1>4
  <2> HIDE DEF t
  <2>3. CASE Stopped(t) /\ t.stop
    <3>1. u = t
      BY <2>3 DEF RoundStep
    <3> QED
      BY <2>1, <2>3, <3>1
  <2>4. CASE Collected(s, t)
    <3>1. (Stopped(u) /\ u.stop) \/ Collected(t, u)
      BY <2>4, RoundTidy DEF Collected
    <3> HIDE DEF u
    <3>2. Collected(t, u) => Collected(s, u)
      BY <2>4, KinTrans DEF Collected
    <3> QED
      BY <2>1, <3>1, <3>2
  <2> QED
    BY <2>2, <2>3, <2>4
<1> HIDE DEF G
<1>5. \A k \in 0 .. n : k \in G
  BY <1>2, <1>3, <1>4, Steps
<1>6. (Stopped(g[n]) /\ g[n].stop) \/ Collected(s, g[n])
  BY <1>2, <1>5 DEF G
<1> QED
  BY <1>1, <1>6 DEF GcDone, Collected, n

\* A new error code, or none, changes nothing else.
LEMMA ResAlike ==
  ASSUME NEW s, DOMAIN s = StateFields, NEW res
  PROVE  LET t == [s EXCEPT !.res = res]
         IN /\ Alike(s, t) /\ t.fds = s.fds /\ t.work = s.work /\ t.starved = s.starved
            /\ t.free_cursor = s.free_cursor /\ t.pix = s.pix /\ t.cleaning = s.cleaning /\ t.res = res
  BY DEF Alike, StateFields

\* An error code disturbs no page.
LEMMA FailSettled ==
  ASSUME NEW s, NEW cur, Settled(s, cur), NEW err
  PROVE  /\ Settled(Fail(s, err), cur) /\ Kin(s, Fail(s, err)) /\ Fail(s, err).starved = s.starved
         /\ Fail(s, err).res = err /\ Fail(s, err).page = s.page /\ Fail(s, err).fds = s.fds
<1> DEFINE t == [s EXCEPT !.res = err]
<1>1. /\ Alike(s, t) /\ t.fds = s.fds /\ t.work = s.work /\ t.starved = s.starved
      /\ t.free_cursor = s.free_cursor /\ t.res = err
  BY ResAlike DEF Settled, Sound, Flash
<1>2. Fail(s, err) = t
  BY DEF Fail
<1> HIDE DEF t
<1>3. Sound(t)
  BY <1>1, AlikeSound DEF Settled
<1> QED
  BY <1>1, <1>2, <1>3 DEF Settled, Alike, Layout, CursorOK, Kin

\* spiffs_gc_check, before any call that writes.
LEMMA GcCheckTidy ==
  ASSUME NEW s, Settled(s, 0), s.res = "OK", NEW len, 0 \notin Fds
  PROVE  GcDone(s, gc_check(s, len))
<1> DEFINE needed == (len + DATA_PAGE_SIZE - 1) \div DATA_PAGE_SIZE
           start == [s EXCEPT !.stop = FALSE, !.empty = FALSE]
           t == RoundLoop(start, len)
           Fits(u) == IF u.res = "OK" /\ ~u.empty /\ len > free_pages(u) * DATA_PAGE_SIZE
                      THEN Fail(u, "FULL") ELSE u
<1>1. gc_check(s, len) = s \/ gc_check(s, len) = Fail(s, "FULL") \/ gc_check(s, len) = Fits(t)
  BY DEF gc_check, With, RoundLoop, RoundStep
<1>2. /\ Alike(s, start) /\ start.fds = s.fds /\ start.res = "OK" /\ start.starved = s.starved
      /\ start.free_cursor = s.free_cursor
  BY DEF Settled, Sound, Flash, Alike, StateFields
<1> HIDE DEF start
<1>3. Settled(start, 0) /\ Kin(s, start)
  <2>1. Sound(start)
    BY <1>2, AlikeSound DEF Settled
  <2> QED
    BY <1>2, <2>1 DEF Settled, Alike, Layout, CursorOK, Kin
<1>4. GcDone(start, t)
  BY <1>2, <1>3, RoundLoopTidy
<1> HIDE DEF t
<1>5. GcDone(s, t)
  BY <1>2, <1>3, <1>4, KinTrans DEF GcDone
<1>6. GcDone(s, s) /\ GcDone(s, Fail(s, "FULL"))
  <2>1. Kin(s, s)
    BY DEF Kin
  <2> QED
    BY <2>1, FailSettled DEF GcDone
<1>7. GcDone(s, Fits(t))
  <2>1. CASE Stopped(t)
    BY <1>5, <2>1 DEF Stopped
  <2>2. CASE Settled(t, 0) /\ Kin(s, t) /\ t.starved = s.starved
    <3>1. Settled(Fail(t, "FULL"), 0) /\ Kin(t, Fail(t, "FULL")) /\ Fail(t, "FULL").starved = t.starved
      BY <2>2, FailSettled
    <3>2. GcDone(s, Fail(t, "FULL"))
      BY <2>2, <3>1, KinTrans DEF GcDone
    <3> QED
      BY <1>5, <3>2
  <2> QED
    BY <1>5, <2>1, <2>2 DEF GcDone
<1> QED
  BY <1>1, <1>6, <1>7

\* ------------------------- Calls that change no page --------------------------

\* How a call ends: with the counters in order, and unless it ran out of pages with
\* every page and descriptor in its place.
Ends(t) == Sound(t) /\ (t.starved \/ Settled(t, 0))

\* States that differ in the error code only, or in the descriptors only.
Checked(s, t) ==
  /\ Alike(s, t) /\ t.fds = s.fds /\ t.work = s.work /\ t.starved = s.starved
  /\ t.free_cursor = s.free_cursor /\ t.pix = s.pix /\ t.cleaning = s.cleaning
  /\ t.res = s.res \/ t.res # "OK"

OnlyFds(s, t) ==
  /\ Alike(s, t) /\ t.work = s.work /\ t.starved = s.starved
  /\ t.free_cursor = s.free_cursor /\ t.pix = s.pix /\ t.cleaning = s.cleaning /\ t.res = s.res

\* The checks of a page change nothing but the error code:
LEMMA ValidateChecked ==
  ASSUME NEW s, DOMAIN s = StateFields, NEW pg, NEW index, NEW spix
  PROVE  Checked(s, Validate(s, pg, index, spix))
<1>1. \A err : err # "OK" => Checked(s, Fail(s, err))
  BY DEF Checked, Fail, Alike, StateFields
<1>2. Checked(s, s)
  BY DEF Checked, Alike, StateFields
<1> QED
  BY <1>1, <1>2 DEF Validate

\* and so do those of a data page.
LEMMA DataCheckChecked ==
  ASSUME NEW s, DOMAIN s = StateFields, NEW p, NEW spix
  PROVE  Checked(s, page_data_check(s, p, spix))
<1>1. Checked(s, Fail(s, "INDEX_REF_FREE"))
  BY DEF Checked, Fail, Alike, StateFields
<1> QED
  BY <1>1, ValidateChecked DEF page_data_check

\* Descriptors may change as long as they are right,
LEMMA OnlyFdsSettled ==
  ASSUME NEW s, NEW t, NEW cur, Settled(s, cur), OnlyFds(s, t), FdsOK(t.fds, s.page, cur)
  PROVE  Settled(t, cur)
<1>1. Sound(t)
  BY AlikeSound DEF Settled, OnlyFds
<1> QED
  BY <1>1 DEF Settled, OnlyFds, Alike, Layout, CursorOK

\* while an index page is in work too.
LEMMA OnlyFdsBusy ==
  ASSUME NEW s, NEW t, NEW w, NEW cur, Busy(s, w, cur), OnlyFds(s, t), FdsOK(t.fds, View(s, w), cur)
  PROVE  Busy(t, w, cur) /\ View(t, w) = View(s, w)
<1>1. Sound(t)
  BY AlikeSound DEF Busy, OnlyFds
<1>2. View(t, w) = View(s, w)
  BY DEF View, OnlyFds, Alike
<1> QED
  BY <1>1, <1>2 DEF Busy, OnlyFds, Alike, Layout, CursorOK

\* A descriptor's cursor is set to an index page of its object.
LEMMA CursorFds ==
  ASSUME NEW F, NEW P, NEW cur, FdsOK(F, P, cur), NEW f \in Fds, F[f].open, NEW p \in Pages, Live(P, p),
         P[p].lu = F[f].id, NEW k \in Nat, P[p].span = k,
         NEW G, G = [F EXCEPT ![f].cursor_objix_pix = p, ![f].cursor_objix_spix = k]
  PROVE  FdsOK(G, P, cur)
<1> DEFINE d == F[f]
           e == [d EXCEPT !.cursor_objix_pix = p, !.cursor_objix_spix = k]
<1>1. DOMAIN F = Fds /\ DOMAIN d = FdFields
  BY DEF FdsOK, FdsTyped
<1>2. DOMAIN G = Fds /\ G[f] = e /\ \A g \in Fds : g # f => G[g] = F[g]
  BY <1>1
<1>3. /\ DOMAIN e = FdFields /\ e.open = d.open /\ e.id = d.id /\ e.objix_hdr_pix = d.objix_hdr_pix
      /\ e.size = d.size /\ e.cursor_objix_pix = p /\ e.cursor_objix_spix = k
  BY <1>1 DEF FdFields
<1> HIDE DEF e
<1>4. FdOK(d, P, cur)
  BY DEF FdsOK
<1>5. FdOK(e, P, cur)
  BY <1>3, <1>4 DEF FdOK, CursorAt
<1> QED
  BY <1>1, <1>2, <1>3, <1>5 DEF FdsOK, FdsTyped

\* The size of a descriptor of the object in work is anything.
LEMMA SizeFds ==
  ASSUME NEW F, NEW P, NEW cur, FdsOK(F, P, cur), NEW f \in Fds, F[f].open => F[f].id = cur,
         NEW n \in Nat, NEW G, G = [F EXCEPT ![f].size = n]
  PROVE  FdsOK(G, P, cur)
<1> DEFINE d == F[f]
           e == [d EXCEPT !.size = n]
<1>1. DOMAIN F = Fds /\ DOMAIN d = FdFields
  BY DEF FdsOK, FdsTyped
<1>2. DOMAIN G = Fds /\ G[f] = e /\ \A g \in Fds : g # f => G[g] = F[g]
  BY <1>1
<1>3. /\ DOMAIN e = FdFields /\ e.open = d.open /\ e.id = d.id /\ e.objix_hdr_pix = d.objix_hdr_pix
      /\ e.size = n /\ e.cursor_objix_pix = d.cursor_objix_pix /\ e.cursor_objix_spix = d.cursor_objix_spix
  BY <1>1 DEF FdFields
<1> HIDE DEF e
<1>4. d.open => FdOK(d, P, cur)
  BY DEF FdsOK
<1>5. d.open => FdOK(e, P, cur)
  BY <1>3, <1>4 DEF FdOK, CursorAt
<1> QED
  BY <1>1, <1>2, <1>3, <1>5 DEF FdsOK, FdsTyped

\* A descriptor is closed.
LEMMA CloseFds ==
  ASSUME NEW F, NEW P, NEW cur, FdsOK(F, P, cur), NEW f \in Fds, NEW G, G = [F EXCEPT ![f] = Closed]
  PROVE  FdsOK(G, P, cur)
<1>1. DOMAIN Closed = FdFields /\ Closed.open = FALSE
  BY DEF Closed, FdFields
<1>2. DOMAIN G = Fds /\ G[f] = Closed /\ \A g \in Fds : g # f => G[g] = F[g]
  BY DEF FdsOK, FdsTyped
<1> QED
  BY <1>1, <1>2 DEF FdsOK, FdsTyped

\* Setting a cursor changes one descriptor.
LEMMA SetCursorOnly ==
  ASSUME NEW s, DOMAIN s = StateFields, NEW f, NEW p, NEW k
  PROVE  /\ OnlyFds(s, SetCursor(s, f, p, k))
         /\ SetCursor(s, f, p, k).fds = [s.fds EXCEPT ![f].cursor_objix_pix = p, ![f].cursor_objix_spix = k]
  BY DEF SetCursor, OnlyFds, Alike, StateFields

\* Closing a descriptor disturbs no page.
LEMMA CloseEnds ==
  ASSUME NEW s, Ends(s), NEW f \in Fds
  PROVE  Ends(Close(s, f)) /\ Close(s, f).starved = s.starved
<1>1. OnlyFds(s, Close(s, f)) /\ Close(s, f).fds = [s.fds EXCEPT ![f] = Closed]
  BY DEF Close, OnlyFds, Alike, StateFields, Ends, Sound, Flash
<1> DEFINE t == Close(s, f)
<1> HIDE DEF t
<1>2. Sound(t)
  BY <1>1, AlikeSound DEF Ends, OnlyFds, t
<1>3. Settled(s, 0) => Settled(t, 0)
  <2>1. Settled(s, 0) => FdsOK(t.fds, s.page, 0)
    BY <1>1, CloseFds DEF Settled, t
  <2> QED
    BY <1>1, <2>1, OnlyFdsSettled DEF t
<1> QED
  BY <1>1, <1>2, <1>3 DEF Ends, OnlyFds, t

\* A header that a name search finds.
LEMMA HeaderFound ==
  ASSUME NEW P, NEW n, Headers(P, n) # {}
  PROVE  Min(Headers(P, n)) \in Pages /\ IsHeader(P, Min(Headers(P, n))) /\ P[Min(Headers(P, n))].name = n
<1>1. Headers(P, n) \in SUBSET Pages
  BY DEF Headers
<1>2. Min(Headers(P, n)) \in Headers(P, n)
  BY <1>1, LeastPage
<1> QED
  BY <1>2 DEF Headers, IsHeader

Opens(s, t, p, f) ==
  /\ Settled(t, 0) /\ t.page = s.page /\ t.starved = s.starved /\ (t.res = s.res \/ t.res # "OK")
  /\ t.fds[f].open /\ t.fds[f].id = s.page[p].lu /\ t.fds[f].size = s.page[p].size
  /\ t.fds[f].objix_hdr_pix = p

\* A descriptor is opened on the header at p.
LEMMA OpenSettled ==
  ASSUME NEW s, Settled(s, 0), NEW p \in Pages, IsHeader(s.page, p), NEW f \in Fds
  PROVE  Opens(s, object_open_by_page(s, p, f), p, f)
<1> DEFINE d == [open |-> TRUE, id |-> s.page[p].lu, objix_hdr_pix |-> p, size |-> s.page[p].size,
                 cursor_objix_pix |-> p, cursor_objix_spix |-> 0]
           u == [s EXCEPT !.fds[f] = d]
           t == Validate(u, s.page[p], TRUE, 0)
<1>1. object_open_by_page(s, p, f) = t
  BY DEF object_open_by_page
<1>0. Sound(s) /\ Forest(s.page, 0) /\ FdsOK(s.fds, s.page, 0) /\ DOMAIN s.fds = Fds
  BY DEF Settled, FdsOK, FdsTyped
<1>2. OnlyFds(s, u) /\ u.fds = [s.fds EXCEPT ![f] = d]
  BY <1>0 DEF OnlyFds, Alike, Sound, Flash, StateFields
<1>3. /\ DOMAIN d = FdFields /\ d.open = TRUE /\ d.id = s.page[p].lu /\ d.objix_hdr_pix = p
      /\ d.size = s.page[p].size /\ d.cursor_objix_pix = p /\ d.cursor_objix_spix = 0
  BY DEF FdFields
<1> HIDE DEF d, u
<1>4. FdOK(d, s.page, 0)
  <2>1. Live(s.page, p) /\ s.page[p].lu \in IxIds /\ s.page[p].span = 0
    BY <1>0 DEF IsHeader, Forest, Shaped, Shape, IxIds
  <2>2. Filled(s.page, p)
    <3>1. s.page[p].lu # 0
      BY <2>1, LiveLu DEF IxIds, DELETED
    <3> QED
      BY <1>0, <3>1 DEF Forest, Sized
  <2> QED
    BY <1>3, <2>1, <2>2 DEF FdOK, CursorAt, Filled
<1>5. FdsOK(u.fds, s.page, 0)
  <2>1. u.fds[f] = d /\ DOMAIN u.fds = Fds /\ \A g \in Fds : g # f => u.fds[g] = s.fds[g]
    BY <1>0, <1>2
  <2> QED
    BY <1>0, <1>3, <1>4, <2>1 DEF FdsOK, FdsTyped
<1>6. Settled(u, 0)
  BY <1>2, <1>5, OnlyFdsSettled
<1>7. Checked(u, t)
  BY <1>6, ValidateChecked DEF Settled, Sound, Flash
<1> HIDE DEF t
<1>8. Settled(t, 0)
  <2>1. Sound(t)
    BY <1>6, <1>7, AlikeSound DEF Settled, Checked
  <2> QED
    BY <1>6, <1>7, <2>1 DEF Settled, Checked, Alike, Layout, CursorOK
<1>9. t.fds[f] = d
  BY <1>0, <1>2, <1>7 DEF Checked
<1> QED
  BY <1>1, <1>2, <1>3, <1>7, <1>8, <1>9 DEF Opens, Checked, OnlyFds, Alike

\* Reading an index page through a descriptor: pages stay, and of the descriptor only
\* the cursor changes.
SameFiles(s, t) ==
  /\ t.page = s.page /\ t.starved = s.starved
  /\ \A g \in Fds : /\ t.fds[g].open = s.fds[g].open /\ t.fds[g].id = s.fds[g].id
                    /\ t.fds[g].size = s.fds[g].size /\ t.fds[g].objix_hdr_pix = s.fds[g].objix_hdr_pix

\* A cursor is set to an index page of its object.
LEMMA CursorSettled ==
  ASSUME NEW s, NEW cur, Settled(s, cur), NEW f \in Fds, s.fds[f].open, NEW p \in Pages, Live(s.page, p),
         s.page[p].lu = s.fds[f].id, NEW k \in Nat, s.page[p].span = k
  PROVE  Settled(SetCursor(s, f, p, k), cur) /\ SameFiles(s, SetCursor(s, f, p, k))
<1> DEFINE t == SetCursor(s, f, p, k)
<1>1. OnlyFds(s, t) /\ t.fds = [s.fds EXCEPT ![f].cursor_objix_pix = p, ![f].cursor_objix_spix = k]
  BY SetCursorOnly DEF Settled, Sound, Flash
<1> HIDE DEF t
<1>2. FdsOK(t.fds, s.page, cur)
  <2>1. FdsOK(s.fds, s.page, cur)
    BY DEF Settled
  <2> DEFINE F == s.fds
             P == s.page
             G == t.fds
  <2>2. FdsOK(F, P, cur) /\ F[f].open /\ Live(P, p) /\ P[p].lu = F[f].id /\ P[p].span = k
        /\ G = [F EXCEPT ![f].cursor_objix_pix = p, ![f].cursor_objix_spix = k]
    BY <1>1, <2>1
  <2> HIDE DEF F, P, G
  <2>3. FdsOK(G, P, cur)
    BY <2>2, CursorFds
  <2> QED
    BY <2>3 DEF G, P
<1>3. Settled(t, cur)
  BY <1>1, <1>2, OnlyFdsSettled
<1>4. \A g \in Fds : /\ t.fds[g].open = s.fds[g].open /\ t.fds[g].id = s.fds[g].id
                     /\ t.fds[g].size = s.fds[g].size /\ t.fds[g].objix_hdr_pix = s.fds[g].objix_hdr_pix
  <2>1. DOMAIN s.fds = Fds /\ DOMAIN s.fds[f] = FdFields
    BY DEF Settled, FdsOK, FdsTyped
  <2> QED
    BY <1>1, <2>1 DEF FdFields
<1> QED
  BY <1>1, <1>3, <1>4 DEF SameFiles, OnlyFds, Alike, t

\* A check disturbs no page.
LEMMA CheckedSettled ==
  ASSUME NEW s, NEW t, NEW cur, Settled(s, cur), Checked(s, t)
  PROVE  Settled(t, cur) /\ SameFiles(s, t)
<1>1. Sound(t)
  BY AlikeSound DEF Settled, Checked
<1> QED
  BY <1>1 DEF Settled, Checked, Alike, Layout, CursorOK, SameFiles

\* The index page of "span" is found and read.
Enters(s, t, f, cur, span) ==
  /\ Settled(t, cur) /\ SameFiles(s, t)
  /\ t.res = "OK" => /\ t.pix \in Pages /\ Live(t.page, t.pix) /\ t.page[t.pix].lu = t.fds[f].id
                     /\ t.page[t.pix].span = span /\ t.work = t.page[t.pix]

\* Looking for an index page, and reading it, disturbs no page.
LEMMA EnterSettled ==
  ASSUME NEW s, NEW cur, Settled(s, cur), s.res = "OK", NEW f \in Fds, s.fds[f].open, NEW span \in Nat
  PROVE  Enters(s, EnterIndex(s, f, span), f, cur, span)
<1> DEFINE id == s.fds[f].id
           found == IF span = 0 THEN [s EXCEPT !.pix = s.fds[f].objix_hdr_pix]
                    ELSE obj_lu_find_id_and_span(s, id, span)
           read == [found EXCEPT !.work = found.page[found.pix]]
           loaded == Validate(read, read.work, TRUE, span)
           both == IF found.res = "OK" THEN loaded ELSE found
           t == IF both.res = "OK" THEN SetCursor(both, f, both.pix, span) ELSE both
<1>1. EnterIndex(s, f, span) = t
  BY DEF EnterIndex, LoadWork, Then, With
<1>0. Sound(s) /\ Forest(s.page, cur) /\ FdsOK(s.fds, s.page, cur) /\ DOMAIN s = StateFields
  BY DEF Settled, Sound, Flash
<1>2. /\ Alike(s, found) /\ found.fds = s.fds /\ found.starved = s.starved /\ found.free_cursor = s.free_cursor
      /\ found.res = "OK" => /\ found.pix \in Pages /\ Live(s.page, found.pix) /\ s.page[found.pix].lu = id
                             /\ s.page[found.pix].span = span
  <2>1. CASE span = 0
    <3>1. FdOK(s.fds[f], s.page, cur)
      BY <1>0 DEF FdsOK
    <3>2. found = [s EXCEPT !.pix = s.fds[f].objix_hdr_pix]
      BY <2>1
    <3> HIDE DEF found
    <3>3. Alike(s, found) /\ found.fds = s.fds /\ found.starved = s.starved /\ found.free_cursor = s.free_cursor
          /\ found.pix = s.fds[f].objix_hdr_pix
      BY <1>0, <3>2 DEF Alike, StateFields
    <3> QED
      BY <2>1, <3>1, <3>3 DEF FdOK, IsHeader
  <2>2. CASE span # 0
    <3>1. found = obj_lu_find_id_and_span(s, id, span)
      BY <2>2
    <3>2. id \in LiveIds
      BY <1>0 DEF FdsOK, FdOK, IxIds
    <3> HIDE DEF found
    <3>3. /\ Alike(s, found) /\ found.fds = s.fds
          /\ found.res = "OK" => found.pix \in Matches(s.page, id, span) /\ found.pix \in Pages /\ s.page[found.pix].lu = id
      BY <1>0, <3>1, FindSpan DEF Sound
    <3>4. found.starved = s.starved /\ found.free_cursor = s.free_cursor
      BY <1>0, <3>1 DEF obj_lu_find_id_and_span, Fail, StateFields
    <3>5. found.res = "OK" => Live(s.page, found.pix) /\ s.page[found.pix].span = span
      BY <3>2, <3>3, LiveId DEF Matches, Live
    <3> QED
      BY <3>3, <3>4, <3>5
  <2> QED
    BY <2>1, <2>2
<1> HIDE DEF found
<1>3. /\ Alike(found, read) /\ read.fds = found.fds /\ read.starved = found.starved /\ read.free_cursor = found.free_cursor
      /\ read.work = found.page[found.pix] /\ read.pix = found.pix /\ read.res = found.res /\ read.cleaning = found.cleaning
  BY <1>2 DEF Alike, StateFields
<1> HIDE DEF read
<1>4. Checked(read, loaded)
  BY <1>3, ValidateChecked DEF Alike
<1> HIDE DEF loaded
<1>5. /\ Alike(s, both) /\ both.fds = s.fds /\ both.starved = s.starved /\ both.free_cursor = s.free_cursor
      /\ both.res = "OK" => /\ both.pix \in Pages /\ Live(s.page, both.pix) /\ s.page[both.pix].lu = id
                            /\ s.page[both.pix].span = span /\ both.work = s.page[both.pix]
  BY <1>2, <1>3, <1>4 DEF Alike, Checked
<1> HIDE DEF both
<1>6. Settled(both, cur) /\ SameFiles(s, both)
  <2>1. Sound(both)
    BY <1>0, <1>5, AlikeSound
  <2> QED
    BY <1>5, <2>1 DEF Settled, Alike, Layout, CursorOK, SameFiles
<1>7. CASE both.res # "OK"
  BY <1>1, <1>6, <1>7 DEF Enters
<1>8. CASE both.res = "OK"
  <2> DEFINE u == SetCursor(both, f, both.pix, span)
  <2>1. Settled(u, cur) /\ SameFiles(both, u)
    BY <1>5, <1>6, <1>8, CursorSettled DEF Alike
  <2>2. u.pix = both.pix /\ u.work = both.work
    <3>1. OnlyFds(both, u)
      BY <1>5, SetCursorOnly DEF Alike
    <3> QED
      BY <3>1 DEF OnlyFds
  <2>3. t = u
    BY <1>8
  <2> HIDE DEF u, t
  <2> QED
    BY <1>1, <1>5, <1>6, <1>8, <2>1, <2>2, <2>3 DEF Enters, SameFiles, Alike
<1> QED
  BY <1>7, <1>8

\* A read changes no page.
Reading(s, r, f) == DOMAIN r = {"s", "prev", "got"} /\ Settled(r.s, 0) /\ SameFiles(s, r.s)

\* Two steps that leave the pages and the files of the descriptors alone.
LEMMA SameFilesTrans ==
  ASSUME NEW s, NEW t, NEW u, SameFiles(s, t), SameFiles(t, u)
  PROVE  SameFiles(s, u)
  BY DEF SameFiles

\* Reading the bytes of a page does,
LEMMA ReadChunkSettled ==
  ASSUME NEW s, NEW r, NEW f \in Fds, Reading(s, r, f), s.fds[f].open, NEW span \in Nat, NEW size
  PROVE  Reading(s, ReadChunk(r, f, span, size), f)
<1> DEFINE e == IF IxSpan(span) = r.prev THEN r.s ELSE EnterIndex(r.s, f, IxSpan(span))
           p == e.work.ix[IxEntry(span)]
           u == IF e.res = "OK" THEN page_data_check(e, p, span) ELSE e
           got == r.got \o [k \in 1 .. BytesIn(span, size) |-> u.page[u.work.ix[IxEntry(span)]].data[k - 1]]
           out == IF u.res # "OK" THEN [r EXCEPT !.s = u]
                  ELSE [r EXCEPT !.s = u, !.prev = IxSpan(span), !.got = got]
<1>1. CASE r.s.res # "OK"
  BY <1>1 DEF ReadChunk
<1>2. CASE r.s.res = "OK"
  <2>1. ReadChunk(r, f, span, size) = out
    BY <1>2 DEF ReadChunk, Then, With
  <2>2. Settled(e, 0) /\ SameFiles(s, e)
    <3>1. r.s.fds[f].open
      BY DEF Reading, SameFiles
    <3>2. IxSpan(span) \in Nat
      BY SpanType
    <3>3. Enters(r.s, EnterIndex(r.s, f, IxSpan(span)), f, 0, IxSpan(span))
      BY <1>2, <3>1, <3>2, EnterSettled DEF Reading
    <3> QED
      BY <3>3, SameFilesTrans DEF Enters, Reading
  <2> HIDE DEF e, p
  <2>3. Settled(u, 0) /\ SameFiles(s, u)
    <3>1. Checked(e, page_data_check(e, p, span))
      BY <2>2, DataCheckChecked DEF Settled, Sound, Flash
    <3>2. Settled(page_data_check(e, p, span), 0) /\ SameFiles(e, page_data_check(e, p, span))
      BY <2>2, <3>1, CheckedSettled
    <3> QED
      BY <2>2, <3>2, SameFilesTrans
  <2> HIDE DEF u, got
  <2>4. DOMAIN out = {"s", "prev", "got"} /\ out.s = u
    BY DEF Reading
  <2> QED
    BY <2>1, <2>3, <2>4 DEF Reading
<1> QED
  BY <1>1, <1>2

\* and so does reading a file.
LEMMA ReadSettled ==
  ASSUME NEW s, Settled(s, 0), NEW f \in Fds, s.fds[f].open, NEW size \in Nat
  PROVE  LET t == object_read(s, f, size).s IN Settled(t, 0) /\ SameFiles(s, t)
<1> DEFINE first == [s |-> s, prev |-> -1, got |-> <<>>]
           Op(r, span) == ReadChunk(r, f, span, size)
           n == PageCount(size)
           seq == [k \in 1 .. n |-> k - 1]
           Is(g, m) == g = [k \in 0 .. m |-> IF k = 0 THEN first ELSE Op(g[k - 1], seq[k])]
           after == CHOOSE g : Is(g, n)
<1>1. n \in Nat
  BY SizesAssumption DEF PageCount, Length
<1>0. Len(seq) = n /\ \A k \in 1 .. n : seq[k] \in Nat
  BY <1>1
<1>2. object_read(s, f, size) = after[n]
  BY <1>0 DEF object_read, Fold
<1>3. \A r, span : Reading(s, r, f) /\ span \in Nat => Reading(s, Op(r, span), f)
  BY ReadChunkSettled
<1>4. Reading(s, first, f)
  BY DEF Reading, SameFiles
<1> HIDE DEF Op, seq, n, first
<1>5. \E g : Is(g, n)
  <2> DEFINE G == {m \in 0 .. n : \E g : Is(g, m)}
  <2>1. 0 \in G
    <3>1. Is([k \in 0 .. 0 |-> first], 0)
      OBVIOUS
    <3> HIDE DEF Is
    <3>2. \E g : Is(g, 0)
      BY <3>1
    <3> QED
      BY <1>1, <3>2
  <2>2. ASSUME NEW m \in 1 .. n, m - 1 \in G PROVE m \in G
    <3>1. PICK g : Is(g, m - 1)
      BY <2>2
    <3> DEFINE h == [k \in 0 .. m |-> IF k = m THEN Op(g[m - 1], seq[m]) ELSE g[k]]
    <3>2. Is(h, m)
      BY <3>1
    <3> HIDE DEF h, Is
    <3>3. \E x : Is(x, m)
      BY <3>2
    <3> QED
      BY <3>3, <1>1
  <2> HIDE DEF G
  <2>3. \A m \in 0 .. n : m \in G
    BY <2>1, <2>2, <1>1, Steps
  <2> QED
    BY <2>3, <1>1 DEF G
<1>6. Is(after, n)
  BY <1>5
<1> HIDE DEF after
<1> DEFINE G == {k \in 0 .. n : Reading(s, after[k], f)}
<1>7. 0 \in G
  BY <1>1, <1>4, <1>6
<1>8. \A k \in 1 .. n : k - 1 \in G => k \in G
  BY <1>0, <1>1, <1>3, <1>6
<1> HIDE DEF G
<1>9. \A k \in 0 .. n : k \in G
  BY <1>1, <1>7, <1>8, Steps
<1>10. Reading(s, after[n], f)
  BY <1>1, <1>9 DEF G
<1> QED
  BY <1>2, <1>10 DEF Reading

\* So does moving the cursor.
LEMMA LseekSettled ==
  ASSUME NEW s, Settled(s, 0), NEW f \in Fds, s.fds[f].open, s.res = "OK", NEW span \in Nat
  PROVE  LET t == Then(obj_lu_find_id_and_span(s, s.fds[f].id, span), LAMBDA u : SetCursor(u, f, u.pix, span))
         IN Settled(t, 0) /\ SameFiles(s, t)
<1> DEFINE id == s.fds[f].id
           found == obj_lu_find_id_and_span(s, id, span)
           t == IF found.res = "OK" THEN SetCursor(found, f, found.pix, span) ELSE found
<1>1. Then(found, LAMBDA u : SetCursor(u, f, u.pix, span)) = t
  BY DEF Then, With
<1>0. Sound(s) /\ FdsOK(s.fds, s.page, 0) /\ DOMAIN s = StateFields
  BY DEF Settled, Sound, Flash
<1>2. id \in LiveIds
  BY <1>0 DEF FdsOK, FdOK, IxIds
<1>3. /\ Alike(s, found) /\ found.fds = s.fds
      /\ found.res = "OK" => found.pix \in Matches(s.page, id, span) /\ found.pix \in Pages /\ s.page[found.pix].lu = id
  BY <1>0, FindSpan DEF Sound
<1>4. found.starved = s.starved /\ found.free_cursor = s.free_cursor
  BY <1>0 DEF obj_lu_find_id_and_span, Fail, StateFields
<1> HIDE DEF found
<1>5. found.res = "OK" => Live(s.page, found.pix) /\ s.page[found.pix].span = span
  BY <1>2, <1>3, LiveId DEF Matches, Live
<1>6. Settled(found, 0) /\ SameFiles(s, found)
  <2>1. Sound(found)
    BY <1>0, <1>3, AlikeSound
  <2> QED
    BY <1>3, <1>4, <2>1 DEF Settled, Alike, Layout, CursorOK, SameFiles
<1>7. CASE found.res = "OK"
  <2> DEFINE v == SetCursor(found, f, found.pix, span)
  <2>1. Settled(v, 0) /\ SameFiles(found, v)
    BY <1>3, <1>5, <1>6, <1>7, CursorSettled DEF Alike
  <2>2. t = v
    BY <1>7
  <2> HIDE DEF v, t
  <2> QED
    BY <1>1, <1>6, <2>1, <2>2, SameFilesTrans DEF found, id
<1>8. CASE found.res # "OK"
  BY <1>1, <1>6, <1>8 DEF found, id
<1> QED
  BY <1>7, <1>8

\* spiffs_gc_quick with no free pages erases a block that holds deleted pages only.
LEMMA QuickSettled ==
  ASSUME NEW s, Settled(s, 0)
  PROVE  Settled(gc_quick(s, 0), 0) /\ gc_quick(s, 0).starved = s.starved
<1> DEFINE t == gc_quick(s, 0)
<1>1. QuickOK(s, t)
  BY GcQuick DEF Settled
<1> HIDE DEF t
<1>2. Forest(t.page, 0)
  BY <1>1, SameForest DEF Settled, QuickOK
<1>3. FdsOK(t.fds, t.page, 0)
  <2>1. IxStay(s.page, t.page, 0)
    BY <1>1, SameStay DEF QuickOK
  <2>2. FdsOK(s.fds, t.page, 0)
    BY <2>1, FdsStay DEF Settled
  <2> QED
    BY <1>1, <2>2 DEF QuickOK, Same
<1> QED
  BY <1>1, <1>2, <1>3 DEF Settled, QuickOK, t

\* The erase counter of a mounted flash is a number.
LEMMA CounterType ==
  ASSUME NEW e, \A b \in Blocks : e[b] \in Int
  PROVE  EraseCounter(e) \in Int
<1> DEFINE C == {b \in Blocks : e[b] # FREE}
           counts == {e[b] : b \in Blocks} \ {FREE}
           neg == [b \in C |-> 0 - e[b]]
           n == block_count
           low == IF counts = {} THEN FREE ELSE Min(counts)
           high == IF counts = {} THEN 0 ELSE Max(counts)
<1>1. counts = {e[b] : b \in C}
  OBVIOUS
<1>2. n \in Nat /\ C \in SUBSET (0 .. n - 1) /\ \A b \in C : e[b] \in Int /\ neg[b] \in Int
  BY SizesAssumption DEF Blocks
<1>3. low \in Int /\ high \in Int
  <2>1. CASE C = {}
    BY <1>1, <2>1 DEF FREE
  <2>2. CASE C # {}
    <3>1. Max({e[b] : b \in C}) \in {e[b] : b \in C}
      BY <1>2, <2>2, GreatestValue
    <3>2. Max({neg[c] : c \in C}) \in {neg[c] : c \in C} /\ \A c \in C : Max({neg[d] : d \in C}) >= neg[c]
      <4> HIDE DEF C, neg, n
      <4> QED
        BY <1>2, <2>2, GreatestValue
    <3>3. PICK m \in C : \A c \in C : neg[m] >= neg[c]
      BY <3>2
    <3>4. \A c \in C : e[m] <= e[c]
      <4> SUFFICES ASSUME NEW c \in C PROVE e[m] <= e[c]
        OBVIOUS
      <4>1. neg[m] >= neg[c] /\ neg[m] = 0 - e[m] /\ neg[c] = 0 - e[c] /\ e[m] \in Int /\ e[c] \in Int
        BY <1>2, <3>3
      <4> HIDE DEF neg, C
      <4> QED
        BY <4>1
    <3>5. \E x \in {e[b] : b \in C} : \A y \in {e[b] : b \in C} : x <= y
      BY <3>4
    <3>6. Min({e[b] : b \in C}) \in {e[b] : b \in C}
      BY <3>5 DEF Min
    <3> HIDE DEF C, counts
    <3> QED
      BY <1>1, <1>2, <2>2, <3>1, <3>6
  <2> QED
    BY <2>1, <2>2
<1>4. EraseCounter(e) = IF high - low > FREE \div 2 THEN low + 1 ELSE high + 1
  BY DEF EraseCounter
<1> HIDE DEF low, high
<1> QED
  BY <1>3, <1>4

\* A mount counts what is on the flash, closes the descriptors and searches from page 0.
LEMMA MountSettled ==
  ASSUME NEW s, Settled(s, 0)
  PROVE  Settled(Mounted(s), 0) /\ Mounted(s).starved = s.starved
<1> DEFINE t == Mounted(s)
           F == [f \in Fds |-> Closed]
<1>0. Flash(s) /\ Layout(s) /\ Forest(s.page, 0)
  BY DEF Settled, Sound
<1>1. /\ DOMAIN t = StateFields /\ t.page = s.page /\ t.erase = s.erase /\ t.fds = F
      /\ t.max_erase_count = EraseCounter(s.erase) /\ t.free_cursor = 0 /\ t.starved = s.starved
      /\ t.free_blocks = Cardinality(FreeBlocks(s.page))
      /\ t.allocated = Cardinality(LivePages(s.page))
      /\ t.deleted = Cardinality(DeletedPages(s.page))
  BY <1>0 DEF Mounted, obj_lu_scan, Flash, StateFields, FreeBlocks, LivePages, DeletedPages
<1> HIDE DEF t, F
<1>2. Sound(t)
  <2>1. t.max_erase_count \in Int
    BY <1>0, <1>1, CounterType DEF Flash
  <2> QED
    BY <1>0, <1>1, <2>1 DEF Sound, Flash, Counted
<1>3. Layout(t)
  <2>1. 0 \in Pages /\ EntryOf(0) = 0
    <3>1. 0 \in Blocks /\ 0 * MAX_ENTRIES = 0
      BY SizesAssumption DEF Blocks
    <3>2. 0 \in Pages
      BY <3>1, BlockPages
    <3> QED
      BY <3>2, SizesAssumption DEF EntryOf
  <2> QED
    BY <1>0, <1>1, <2>1 DEF Layout, CursorOK
<1>4. FdsOK(t.fds, t.page, 0)
  <2>1. DOMAIN Closed = FdFields /\ Closed.open = FALSE
    BY DEF Closed, FdFields
  <2>2. DOMAIN F = Fds /\ \A f \in Fds : F[f] = Closed
    BY DEF F
  <2> QED
    BY <1>1, <2>1, <2>2 DEF FdsOK, FdsTyped
<1> QED
  BY <1>0, <1>1, <1>2, <1>3, <1>4 DEF Settled, t

\* -------------------------------- SPIFFS_creat --------------------------------

\* There are more ids than pages: one of them is free.
LEMMA FreeId ==
  ASSUME NEW P, DOMAIN P = Pages
  PROVE  /\ FreeObjId(P) \in Int /\ 1 <= FreeObjId(P) /\ FreeObjId(P) <= 32766
         /\ \A p \in Pages : P[p].lu = FREE \/ P[p].lu % IX_FLAG # FreeObjId(P)
<1> DEFINE n == Cardinality(Pages)
           S == {i \in 1 .. n + 1 : \A p \in Pages : P[p].lu = FREE \/ P[p].lu % IX_FLAG # i}
<1>1. n = block_count * MAX_ENTRIES /\ n \in Nat /\ n < IX_FLAG - 2
  <2>1. block_count * MAX_ENTRIES \in Nat
    BY SizesAssumption
  <2>2. Cardinality(0 .. block_count * MAX_ENTRIES - 1) = block_count * MAX_ENTRIES
    BY <2>1, FS_Interval
  <2> QED
    BY <2>1, <2>2, SizesAssumption DEF Pages
<1>2. FreeObjId(P) = Min(S)
  BY DEF FreeObjId
<1>3. S # {}
  <2> SUFFICES ASSUME S = {} PROVE FALSE
    OBVIOUS
  <2>1. \A i \in 1 .. n + 1 : \E p \in Pages : P[p].lu % IX_FLAG = i
    OBVIOUS
  <2> DEFINE f == [i \in 1 .. n + 1 |-> CHOOSE p \in Pages : P[p].lu % IX_FLAG = i]
  <2>2. f \in [1 .. n + 1 -> Pages] /\ \A i \in 1 .. n + 1 : P[f[i]].lu % IX_FLAG = i
    BY <2>1
  <2>3. IsFiniteSet(1 .. n + 1) /\ Cardinality(1 .. n + 1) = n + 1
    BY <1>1, FS_Interval
  <2>4. Cardinality(Pages) < Cardinality(1 .. n + 1)
    BY <1>1, <2>3
  <2> DEFINE U == 1 .. n + 1
  <2>5. f \in [U -> Pages] /\ IsFiniteSet(U) /\ Cardinality(Pages) < Cardinality(U)
    BY <2>2, <2>3, <2>4
  <2> HIDE DEF f, n, U
  <2>6. \E i, j \in U : i # j /\ f[i] = f[j]
    BY <2>5, Finite, FS_PigeonHole
  <2> QED
    BY <2>2, <2>6 DEF U
<1>4. S \in SUBSET (1 .. n + 1) /\ n + 1 \in Nat
  BY <1>1
<1>5. \E m \in S : \A x \in S : m <= x
  <2> HIDE DEF S, n
  <2> QED
    BY <1>3, <1>4, LeastIndex
<1>6. Min(S) \in S
  <2> HIDE DEF S
  <2> QED
    BY <1>5 DEF Min
<1>7. Min(S) \in Int /\ 1 <= Min(S) /\ Min(S) <= 32766
  <2>1. Min(S) \in 1 .. n + 1
    BY <1>6
  <2>2. n \in Nat /\ n < 32766
    BY <1>1 DEF IX_FLAG
  <2> HIDE DEF n, S
  <2>3. Min(S) \in Int /\ 1 <= Min(S) /\ Min(S) <= n + 1 /\ n + 1 <= 32766
    BY <2>1, <2>2
  <2>4. 1 <= Min(S) /\ Min(S) <= 32766
    BY <2>2, <2>3
  <2> QED
    BY <2>3, <2>4
<1>8. \A p \in Pages : P[p].lu = FREE \/ P[p].lu % IX_FLAG # Min(S)
  <2> DEFINE m == Min(S)
  <2>1. m \in S
    BY <1>6
  <2> HIDE DEF m
  <2>2. \A p \in Pages : P[p].lu = FREE \/ P[p].lu % IX_FLAG # m
    BY <2>1
  <2> QED
    BY <2>2 DEF m
<1> QED
  BY <1>2, <1>7, <1>8

\* No page belongs to an object of the new id.
LEMMA FreshId ==
  ASSUME NEW s, Settled(s, 0)
  PROVE  LET id == FreeObjId(s.page) + IX_FLAG
         IN /\ id \in IxIds
            /\ \A p \in Pages : Live(s.page, p) => s.page[p].lu # id /\ s.page[p].lu + IX_FLAG # id
<1> DEFINE i == FreeObjId(s.page)
           id == i + IX_FLAG
<1>1. i \in Int /\ 1 <= i /\ i <= 32766 /\ \A p \in Pages : s.page[p].lu = FREE \/ s.page[p].lu % IX_FLAG # i
  BY FreeId DEF Settled, Sound, Flash
<1> HIDE DEF i
<1>0. i \in Int /\ 1 <= i /\ i <= 32766
  BY <1>1
<1>2. id \in IxIds
  BY <1>0 DEF IxIds, LiveIds, IsIx, IX_FLAG, FREE
<1>3. ASSUME NEW p \in Pages, Live(s.page, p)
      PROVE  s.page[p].lu # id /\ s.page[p].lu + IX_FLAG # id
  <2> DEFINE lu == s.page[p].lu
  <2>1. lu \in LiveIds
    BY <1>3 DEF Settled, Forest, Shaped, Shape
  <2>2. lu % IX_FLAG # i
    BY <1>1, <1>3 DEF Live
  <2> HIDE DEF lu
  <2>3. lu # id
    <3> SUFFICES ASSUME lu = id PROVE FALSE
      OBVIOUS
    <3>1. (i + 32768) % 32768 = i
      BY <1>0
    <3> QED
      BY <2>2, <3>1 DEF IX_FLAG
  <2>4. lu + IX_FLAG # id
    <3> SUFFICES ASSUME lu + IX_FLAG = id PROVE FALSE
      OBVIOUS
    <3>1. lu = i
      BY <1>0, <2>1 DEF IX_FLAG, LiveIds
    <3>2. i % 32768 = i
      BY <1>0
    <3> QED
      BY <2>2, <3>1, <3>2 DEF IX_FLAG
  <2> QED
    BY <2>3, <2>4 DEF lu
<1> QED
  BY <1>2, <1>3 DEF i

\* A call that made a header has it in page t.pix.
Creates(s, t) ==
  Stopped(t) \/ (Settled(t, 0) /\ t.starved = s.starved /\ (t.res = "OK" => t.pix \in Pages /\ IsHeader(t.page, t.pix)))

Unowned(P, id) == \A p \in Pages : Live(P, p) => P[p].lu # id /\ P[p].lu + IX_FLAG # id

\* A header of a new object takes a free page.
LEMMA HeaderComes ==
  ASSUME NEW s, Settled(s, 0), NEW id \in IxIds, Unowned(s.page, id), NEW pg, NEW t, Occupied(s, t, pg),
         DOMAIN pg = PageFields, pg.lu = id, pg.id = id, pg.span = 0, pg.flags = {"FINAL", "INDEX", "USED"},
         pg.ix = Erased.ix, pg.size = UNDEFINED_LEN
  PROVE  LET e == cb_object_event(t, "NEW", id, 0, t.pix, UNDEFINED_LEN)
         IN Settled(e, 0) /\ e.starved = s.starved /\ e.pix \in Pages /\ IsHeader(e.page, e.pix)
<1> DEFINE P == s.page
           Q == t.page
           x == t.pix
           e == cb_object_event(t, "NEW", id, 0, x, UNDEFINED_LEN)
<1>0. Sound(s) /\ Layout(s) /\ Forest(P, 0) /\ FdsOK(s.fds, P, 0) /\ id \in LiveIds /\ IsIx(id)
  BY DEF Settled, IxIds
<1>1. /\ Sound(t) /\ Layout(t) /\ t.fds = s.fds /\ t.starved = s.starved
      /\ x \in Pages /\ ~Live(P, x) /\ Q[x] = pg
      /\ \A p \in Pages : p # x /\ (Live(P, p) \/ Live(Q, p)) => Q[p] = P[p]
  BY <1>0 DEF Occupied, Same
<1>2. Live(Q, x)
  BY <1>0, <1>1, LiveLu DEF Live
<1>3. Besides(P, Q, {x})
  BY <1>1 DEF Besides, Live
<1>4. Shape(pg, id)
  BY <1>0 DEF Shape, Erased, Entries
<1>5. Shape(pg, 0)
  BY <1>0 DEF Shape, Erased, Entries
<1>6. \A k \in Entries : pg.ix[k] = FREE
  BY DEF Erased, Entries
<1> HIDE DEF P, Q, x
<1>7. Extent(P, id, 0, 0)
  BY DEF Extent, Unowned, P
<1>8. Forest(Q, id) /\ Extent(Q, id, 0, 0 + 1)
  <2>1. Forest(P, id)
    BY <1>0, BeginObject
  <2>2. Q[x].lu = id /\ Q[x].span = 0 /\ Shape(Q[x], id) /\ (\A k \in Entries : Q[x].ix[k] = FREE) /\ 0 \in Nat
    BY <1>1, <1>4, <1>6
  <2> QED
    BY <1>0, <1>1, <1>2, <1>3, <1>7, <2>1, <2>2, AddIndex
<1>9. \A h \in Pages : IsHeader(Q, h) /\ Q[h].lu = id => h = x
  BY <1>0, <1>1, <1>2, <1>8 DEF IsHeader, Forest, OneVersion
<1>10. Forest(Q, 0)
  <2>1. PageCount(UNDEFINED_LEN) = 0
    <3>1. (DATA_PAGE_SIZE - 1) \div DATA_PAGE_SIZE = 0
      BY SizesAssumption
    <3> QED
      BY <3>1, SizesAssumption DEF PageCount, Length
  <2>2. Filled(Q, x)
    BY <1>1, <1>8, <2>1 DEF Filled, IxCount, UNDEFINED_LEN
  <2>3. "IXDELE" \notin Q[x].flags
    BY <1>1
  <2> QED
    BY <1>0, <1>8, <1>9, <2>2, <2>3, EndObject
<1>11. /\ Alike(t, e) /\ e.pix = t.pix
  BY <1>1, ObjectEvent DEF Sound, x
<1>12. e.starved = t.starved /\ e.free_cursor = t.free_cursor
  BY <1>1 DEF cb_object_event, Sound, Flash, StateFields
<1>13. Told(s.fds, e.fds, "NEW", id, 0, x, UNDEFINED_LEN)
  <2>1. FdsTyped(t.fds) /\ \A f \in Fds : t.fds[f].open => t.fds[f].id \in IxIds
    BY <1>0, <1>1 DEF FdsOK, FdOK
  <2>2. FdsTyped(e.fds) /\ \A f \in Fds : Follows(t.fds[f], e.fds[f], "NEW", id, 0, x, UNDEFINED_LEN)
    BY <1>1, <2>1, EventFollows DEF Sound
  <2> QED
    BY <1>1, <2>2 DEF Told
<1> HIDE DEF e
<1>14. FdsOK(e.fds, Q, 0)
  <2>1. \A p \in Pages : ~(Live(P, p) /\ P[p].lu = Q[x].lu)
    BY <1>1 DEF Unowned, P
  <2>2. Told(s.fds, e.fds, "NEW", Q[x].lu, Q[x].span, x, UNDEFINED_LEN)
    BY <1>1, <1>13
  <2> QED
    BY <1>0, <1>1, <1>2, <1>3, <2>1, <2>2, FdsCame DEF Forest
<1>15. Sound(e)
  BY <1>1, <1>11, AlikeSound
<1>16. Settled(e, 0)
  BY <1>1, <1>10, <1>11, <1>12, <1>14, <1>15 DEF Settled, Alike, Layout, CursorOK, Q
<1>17. IsHeader(e.page, e.pix) /\ e.pix \in Pages
  BY <1>0, <1>1, <1>2, <1>11 DEF IsHeader, Alike, Q, x
<1> QED
  BY <1>1, <1>12, <1>16, <1>17 DEF e, x

\* What the work page holds does not matter between two calls.
LEMMA WorkSettled ==
  ASSUME NEW s, NEW cur, Settled(s, cur), NEW pg
  PROVE  LET t == [s EXCEPT !.work = pg]
         IN Settled(t, cur) /\ Kin(s, t) /\ SameFiles(s, t) /\ t.res = s.res /\ t.work = pg /\ t.fds = s.fds
<1> DEFINE t == [s EXCEPT !.work = pg]
<1>1. /\ Alike(s, t) /\ t.fds = s.fds /\ t.starved = s.starved /\ t.free_cursor = s.free_cursor
      /\ t.res = s.res /\ t.work = pg
  BY DEF Settled, Sound, Flash, Alike, StateFields
<1> HIDE DEF t
<1>2. Sound(t)
  BY <1>1, AlikeSound DEF Settled
<1>3. Settled(t, cur) /\ Kin(s, t) /\ SameFiles(s, t)
  BY <1>1, <1>2 DEF Settled, Alike, Layout, CursorOK, Kin, SameFiles
<1> QED
  BY <1>1, <1>3 DEF t

\* spiffs_object_create: a new header, or no page for one.
LEMMA CreateSettled ==
  ASSUME NEW s, Settled(s, 0), s.res = "OK", 0 \notin Fds, NEW name
  PROVE  Creates(s, object_create(s, name))
<1> DEFINE id == FreeObjId(s.page) + IX_FLAG
           entry == [Erased EXCEPT !.lu = id]
           header == [entry EXCEPT !.id = id, !.span = 0, !.name = name, !.flags = {"FINAL", "INDEX", "USED"}]
           clean == [s EXCEPT !.work = Erased]
           room == gc_check(clean, DATA_PAGE_SIZE)
           found == obj_lu_find_free(room)
           made == write([found EXCEPT !.allocated = @ + 1], found.pix, {entry}, header)
           last == cb_object_event(made, "NEW", id, 0, found.pix, UNDEFINED_LEN)
           t == IF room.res # "OK" THEN room ELSE IF found.res # "OK" THEN found ELSE last
<1>1. object_create(s, name) = t
  <2> HIDE DEF room, header, entry, id
  <2>1. object_create(s, name) =
          Then(Then(room, obj_lu_find_free),
               LAMBDA u : cb_object_event(write([u EXCEPT !.allocated = @ + 1], u.pix, {entry}, header),
                                          "NEW", id, 0, u.pix, UNDEFINED_LEN))
    BY DEF object_create, room, header, entry, id
  <2>2. Then(room, obj_lu_find_free) = IF room.res = "OK" THEN found ELSE room
    BY DEF Then, With
  <2> HIDE DEF found
  <2> QED
    BY <2>1, <2>2 DEF Then, With
<1>2. id \in IxIds /\ Unowned(s.page, id)
  BY FreshId DEF Unowned
<1> HIDE DEF id
<1>3. Settled(clean, 0) /\ Kin(s, clean) /\ clean.starved = s.starved /\ clean.res = "OK"
  BY WorkSettled DEF SameFiles
<1> HIDE DEF clean
<1>4. GcDone(clean, room)
  BY <1>3, GcCheckTidy
<1> HIDE DEF room
<1>5. /\ DOMAIN header = PageFields /\ header.lu = id /\ header.id = id /\ header.span = 0
      /\ header.flags = {"FINAL", "INDEX", "USED"} /\ header.ix = Erased.ix /\ header.size = UNDEFINED_LEN
  BY DEF Erased, PageFields
<1> HIDE DEF header, entry
<1>6. CASE Stopped(room)
  BY <1>1, <1>6 DEF Creates, Stopped
<1>7. CASE Settled(room, 0) /\ Kin(clean, room) /\ room.starved = clean.starved
  <2>1. Unowned(room.page, id)
    <3>1. Kin(s, room)
      BY <1>3, <1>7, KinTrans
    <3> QED
      BY <1>2, <3>1 DEF Unowned, Kin
  <2>2. CASE room.res # "OK"
    BY <1>1, <1>3, <1>7, <2>2 DEF Creates
  <2>3. CASE room.res = "OK"
    <3>1. Found(room, found) \/ NotFound(room, found)
      BY <1>7, <2>3, FindFree DEF Settled
    <3> HIDE DEF found
    <3>2. CASE found.res # "OK"
      <4>1. Stopped(found)
        BY <3>1, <3>2 DEF Found, NotFound, Stopped
      <4> QED
        BY <1>1, <2>3, <3>2, <4>1 DEF Creates
    <3>3. CASE found.res = "OK"
      <4>1. Found(room, found)
        BY <3>1, <3>3 DEF NotFound
      <4>2. id \in LiveIds
        BY <1>2 DEF IxIds
      <4>3. PageOK(header)
        BY <1>5, <4>2, LiveId DEF PageOK
      <4>4. Occupied(room, made, header)
        BY <1>5, <1>7, <4>1, <4>2, <4>3, Occupy DEF Settled, Sound
      <4>5. made.pix = found.pix
        BY <4>1 DEF write, Found, Flash, StateFields
      <4> HIDE DEF made
      <4>6. LET e == cb_object_event(made, "NEW", id, 0, made.pix, UNDEFINED_LEN)
            IN Settled(e, 0) /\ e.starved = room.starved /\ e.pix \in Pages /\ IsHeader(e.page, e.pix)
        BY <1>2, <1>5, <1>7, <2>1, <4>4, HeaderComes
      <4>7. t = last
        BY <2>3, <3>3
      <4>8. Settled(last, 0) /\ last.starved = room.starved /\ last.pix \in Pages /\ IsHeader(last.page, last.pix)
        BY <4>5, <4>6
      <4> HIDE DEF last, t
      <4> QED
        BY <1>1, <1>3, <1>7, <4>7, <4>8 DEF Creates
    <3> QED
      BY <3>2, <3>3
  <2> QED
    BY <2>2, <2>3
<1> QED
  BY <1>4, <1>6, <1>7 DEF GcDone

\* A call that failed gives its descriptor back.
LEMMA OpenedEnds ==
  ASSUME NEW s, Ends(s), NEW f \in Fds
  PROVE  Ends(Opened(s, f)) /\ Opened(s, f).starved = s.starved
  BY CloseEnds DEF Opened

\* Two ways in which a call may end.
LEMMA StoppedEnds ==
  ASSUME NEW s
  PROVE  /\ Stopped(s) => Ends(s) /\ s.starved
         /\ Settled(s, 0) => Ends(s)
  BY DEF Stopped, Ends, Settled

\* SPIFFS_open of a new file.
LEMMA MadeEnds ==
  ASSUME NEW s, Settled(s, 0), s.res = "OK", 0 \notin Fds, NEW name, NEW f \in Fds
  PROVE  Ends(Opened(Then(object_create(s, name), LAMBDA t : object_open_by_page(t, t.pix, f)), f))
<1> DEFINE made == object_create(s, name)
           t == IF made.res = "OK" THEN object_open_by_page(made, made.pix, f) ELSE made
<1>1. Then(made, LAMBDA u : object_open_by_page(u, u.pix, f)) = t
  BY DEF Then, With
<1>2. Creates(s, made)
  BY CreateSettled
<1> HIDE DEF made
<1>3. Ends(t)
  <2>1. CASE made.res # "OK"
    BY <1>2, <2>1, StoppedEnds DEF Creates
  <2>2. CASE made.res = "OK"
    <3>1. Settled(made, 0) /\ made.pix \in Pages /\ IsHeader(made.page, made.pix)
      BY <1>2, <2>2 DEF Creates, Stopped
    <3>2. Opens(made, object_open_by_page(made, made.pix, f), made.pix, f)
      BY <3>1, OpenSettled
    <3> QED
      BY <2>2, <3>2, StoppedEnds DEF Opens
  <2> QED
    BY <2>1, <2>2
<1> HIDE DEF t
<1>4. Ends(Opened(t, f))
  BY <1>3, OpenedEnds
<1> QED
  BY <1>1, <1>4 DEF made

\* ------------------------ SPIFFS_rename and truncation ------------------------

\* The header of the object does not say that it is being removed.
Unmarked(P, id) == \A h \in Pages : IsHeader(P, h) /\ P[h].lu = id => "IXDELE" \notin P[h].flags

\* The header of object "id" has a new version, of size "size": the other pages of P and
\* what they name are as they were, and the descriptors know.
HeaderPut(P, F, t, id, cur, size) ==
  /\ Settled(t, cur) /\ t.res = "OK"
  /\ t.pix \in Pages /\ IsHeader(t.page, t.pix) /\ t.page[t.pix].lu = id /\ t.page[t.pix].size = size
  /\ Told(F, t.fds, "UPD", id, 0, t.pix, size)
  /\ \A ix, n, m : Extent(P, ix, n, m) => Extent(t.page, ix, n, m)
  /\ Unmarked(P, id) => Unmarked(t.page, id)

\* update_index_hdr puts a header like the one in work, with a new name or size, on the flash.
LEMMA PutEdited ==
  ASSUME NEW s, NEW w, NEW cur, Busy(s, w, cur), s.res = "OK", s.work.span = 0, NEW f,
         f \in Fds => s.fds[f].open /\ s.fds[f].id = s.work.lu,
         NEW hdr, DOMAIN hdr = PageFields, hdr.lu = s.work.lu, hdr.span = 0, hdr.id = s.work.id,
         hdr.flags = s.work.flags, DOMAIN hdr.ix = DOMAIN s.work.ix,
         \A e \in Entries : hdr.ix[e] = s.work.ix[e],
         NEW name, NEW size \in Nat, size # 0 => s.work.lu = cur, size = 0 => s.work.lu # cur /\ hdr.size = s.work.size
  PROVE  LET t == update_index_hdr(s, f, s.work.lu, w, hdr, name, size)
         IN Stopped(t) \/ HeaderPut(View(s, w), s.fds, t, s.work.lu, cur, IF size # 0 THEN size ELSE s.work.size)
<1> DEFINE new == [hdr EXCEPT !.name = IF name # NoName THEN name ELSE @,
                              !.size = IF size # 0 THEN size ELSE @]
           u == [s EXCEPT !.work = new]
           n == IF size # 0 THEN size ELSE s.work.size
           t == update_index_hdr(s, f, new.lu, w, hdr, name, size)
<1>1. /\ DOMAIN new = PageFields /\ new.lu = s.work.lu /\ new.span = s.work.span /\ new.ix = hdr.ix
      /\ new.id = s.work.id /\ new.flags = s.work.flags /\ new.size = n
  BY DEF PageFields
<1>2. /\ Sound(s) /\ w \in Pages /\ DOMAIN s.work = PageFields /\ s.work.lu = s.page[w].lu /\ Live(s.page, w)
      /\ IsIx(s.work.lu) /\ Forest(View(s, w), cur)
  BY DEF Busy
<1>3. View(s, w)[w] = s.work /\ Live(View(s, w), w)
  BY <1>2, ViewPage DEF Live
<1>4. Shape(s.work, cur)
  BY <1>2, <1>3 DEF Forest, Shaped
<1>5. Shape(new, cur)
  BY <1>1, <1>4 DEF Shape
<1>6. n \in Nat
  <2>1. CASE size # 0
    BY <2>1
  <2>2. CASE size = 0
    <3>1. IsHeader(View(s, w), w)
      BY <1>2, <1>3 DEF IsHeader
    <3>2. Filled(View(s, w), w)
      BY <1>2, <1>3, <2>2, <3>1 DEF Forest, Sized
    <3> QED
      BY <1>3, <2>2, <3>2 DEF Filled
  <2> QED
    BY <2>1, <2>2
<1>7. s.work.lu # cur => n = s.work.size
  OBVIOUS
<1> HIDE DEF new
<1>8. Edited(s, u, w, cur) /\ u.work = new
  BY <1>1, <1>5, <1>7, WorkEdit
<1>9. Stopped(t) \/ Placed(u, t, w, cur, new.size)
  <2>1. new.span = 0 /\ new.size \in Nat /\ Busy(u, w, cur)
    BY <1>1, <1>6, <1>8 DEF Edited
  <2>2. f \in Fds => s.fds[f].open /\ s.fds[f].id = new.lu
    BY <1>1
  <2>3. new = HeaderAs(hdr, name, size)
    BY DEF new, HeaderAs
  <2> HIDE DEF u
  <2>4. u = [s EXCEPT !.work = new]
    BY DEF u
  <2>5. /\ Sound(s) /\ s.res = "OK" /\ w \in Pages /\ DOMAIN hdr = PageFields
    BY <1>2
  <2>6. LET v == update_index_hdr(s, f, new.lu, w, hdr, name, size)
        IN Stopped(v) \/ Placed(u, v, w, cur, new.size)
    BY <2>1, <2>2, <2>3, <2>4, <2>5, PlaceHeader
  <2> QED
    BY <2>6
<1> HIDE DEF u, t
<1>10. ASSUME Placed(u, t, w, cur, new.size)
       PROVE  HeaderPut(View(s, w), s.fds, t, s.work.lu, cur, n)
  <2>1. /\ Settled(t, cur) /\ t.res = "OK" /\ t.pix \in Pages
        /\ Told(s.fds, t.fds, "UPD", s.work.lu, 0, t.pix, n)
        /\ Renamed(View(u, w), t.page, w, t.pix, cur) /\ t.page[t.pix].size = n
    BY <1>1, <1>8, <1>10 DEF Placed, Edited
  <2>2. Renamed(View(s, w), View(u, w), w, w, cur)
    BY <1>8 DEF Edited
  <2>3. View(u, w)[w] = new
    BY <1>2, <1>8, ViewPage DEF Edited, Busy
  <2>4. Live(t.page, t.pix) /\ t.page[t.pix].lu = new.lu /\ t.page[t.pix].span = new.span
    BY <2>1, <2>3 DEF Renamed, Alt
  <2>5. \A ix, k, m : Extent(View(s, w), ix, k, m) => Extent(t.page, ix, k, m)
    BY <2>1, <2>2, RenameExtent
  <2>6. IsHeader(t.page, t.pix) /\ t.page[t.pix].lu = s.work.lu /\ t.page[t.pix].flags = View(s, w)[w].flags
    BY <1>1, <1>2, <1>3, <1>8, <1>10, <2>1, <2>4 DEF Placed, IsHeader
  <2>7. \A h \in Pages : IsHeader(t.page, h) /\ t.page[h].lu = s.work.lu => h = t.pix
    BY <2>1, <2>6 DEF Settled, Forest, OneVersion, IsHeader
  <2>8. IsHeader(View(s, w), w) /\ View(s, w)[w].lu = s.work.lu
    BY <1>2, <1>3 DEF IsHeader
  <2>9. Unmarked(View(s, w), s.work.lu) => Unmarked(t.page, s.work.lu)
    BY <1>2, <2>6, <2>7, <2>8 DEF Unmarked
  <2> QED
    BY <2>1, <2>5, <2>6, <2>9 DEF HeaderPut
<1> QED
  BY <1>1, <1>9, <1>10 DEF t

\* The header in work itself.
LEMMA PutBusy ==
  ASSUME NEW s, NEW w, NEW cur, Busy(s, w, cur), s.res = "OK", s.work.span = 0, NEW f,
         f \in Fds => s.fds[f].open /\ s.fds[f].id = s.work.lu,
         NEW name, NEW size \in Nat, size # 0 => s.work.lu = cur, size = 0 => s.work.lu # cur
  PROVE  LET t == update_index_hdr(s, f, s.work.lu, w, s.work, name, size)
         IN Stopped(t) \/ HeaderPut(View(s, w), s.fds, t, s.work.lu, cur, IF size # 0 THEN size ELSE s.work.size)
<1> DEFINE hdr == s.work
<1>1. /\ DOMAIN hdr = PageFields /\ hdr.lu = s.work.lu /\ hdr.span = 0 /\ hdr.id = s.work.id
      /\ hdr.flags = s.work.flags /\ DOMAIN hdr.ix = DOMAIN s.work.ix /\ hdr.size = s.work.size
      /\ \A e \in Entries : hdr.ix[e] = s.work.ix[e]
  BY DEF Busy
<1> HIDE DEF hdr
<1>2. LET t == update_index_hdr(s, f, s.work.lu, w, hdr, name, size)
      IN Stopped(t) \/ HeaderPut(View(s, w), s.fds, t, s.work.lu, cur, IF size # 0 THEN size ELSE s.work.size)
  BY <1>1, PutEdited
<1> QED
  BY <1>2 DEF hdr

\* The same for a header that is read from the flash.
LEMMA PutLoaded ==
  ASSUME NEW s, NEW cur, Settled(s, cur), s.res = "OK", NEW w \in Pages, IsHeader(s.page, w), NEW f,
         f \in Fds => s.fds[f].open /\ s.fds[f].id = s.page[w].lu,
         NEW name, NEW size \in Nat, size # 0 => s.page[w].lu = cur, size = 0 => s.page[w].lu # cur
  PROVE  LET t == update_index_hdr(s, f, s.page[w].lu, w, s.page[w], name, size)
         IN Stopped(t) \/ HeaderPut(s.page, s.fds, t, s.page[w].lu, cur, IF size # 0 THEN size ELSE s.page[w].size)
<1> DEFINE hdr == s.page[w]
           u == [s EXCEPT !.work = hdr]
<1>1. Still(s, u) /\ u.work = hdr /\ u.fds = s.fds /\ u.res = "OK"
  BY DEF Still, Alike, Settled, Sound, Flash, StateFields
<1>2. update_index_hdr(u, f, hdr.lu, w, hdr, name, size) = update_index_hdr(s, f, hdr.lu, w, hdr, name, size)
  <2>1. [u EXCEPT !.work = hdr] = [s EXCEPT !.work = hdr]
    BY DEF Settled, Sound, Flash, StateFields
  <2> HIDE DEF hdr, u
  <2> QED
    BY <2>1 DEF update_index_hdr
<1> HIDE DEF u
<1>3. Loaded(s, u, w, cur)
  BY <1>1, LoadBusy DEF IsHeader
<1>4. Busy(u, w, cur) /\ Renamed(s.page, View(u, w), w, w, cur) /\ u.work.span = 0 /\ u.work.lu = hdr.lu
  BY <1>1, <1>3 DEF Loaded, IsHeader
<1> DEFINE t == update_index_hdr(u, f, hdr.lu, w, hdr, name, size)
           n == IF size # 0 THEN size ELSE hdr.size
<1>5. Stopped(t) \/ HeaderPut(View(u, w), s.fds, t, hdr.lu, cur, n)
  <2>1. f \in Fds => u.fds[f].open /\ u.fds[f].id = u.work.lu
    BY <1>1
  <2>2. (size # 0 => u.work.lu = cur) /\ (size = 0 => u.work.lu # cur)
    BY <1>1
  <2>3. u.res = "OK"
    BY <1>1
  <2>4. LET v == update_index_hdr(u, f, u.work.lu, w, u.work, name, size)
        IN Stopped(v) \/ HeaderPut(View(u, w), u.fds, v, u.work.lu, cur, IF size # 0 THEN size ELSE u.work.size)
    BY <1>4, <2>1, <2>2, <2>3, PutBusy
  <2> QED
    BY <1>1, <2>4
<1> HIDE DEF t
<1>6. \A ix, k, m : Extent(s.page, ix, k, m) => Extent(View(u, w), ix, k, m)
  BY <1>4, RenameExtent
<1>7. Unmarked(s.page, hdr.lu) => Unmarked(View(u, w), hdr.lu)
  <2>1. \A q \in Pages : View(u, w)[q] = s.page[q]
    BY <1>3 DEF Loaded
  <2> QED
    BY <2>1 DEF Unmarked, IsHeader, Live
<1>8. Stopped(t) \/ HeaderPut(s.page, s.fds, t, hdr.lu, cur, n)
  BY <1>5, <1>6, <1>7 DEF HeaderPut
<1> QED
  BY <1>2, <1>8 DEF t

\* The work of SPIFFS_rename, through a descriptor of its own.
RenameRun(s, p, f, name) ==
  LET Rename(t) == LET h == t.fds[f].objix_hdr_pix
                   IN update_index_hdr(t, f, t.fds[f].id, h, t.page[h], name, 0)
  IN Close(Then(object_open_by_page(s, p, f), Rename), f)

\* SPIFFS_rename.
LEMMA RenameEnds ==
  ASSUME NEW s, Settled(s, 0), s.res = "OK", NEW p \in Pages, IsHeader(s.page, p), NEW f \in Fds, NEW name
  PROVE  Ends(RenameRun(s, p, f, name))
<1> DEFINE t == object_open_by_page(s, p, f)
           Rename(u) == LET h == u.fds[f].objix_hdr_pix
                        IN update_index_hdr(u, f, u.fds[f].id, h, u.page[h], name, 0)
           r == Then(t, Rename)
<1>1. Opens(s, t, p, f)
  BY OpenSettled
<1> HIDE DEF t
<1>2. Settled(t, 0) /\ t.page = s.page /\ t.fds[f].open /\ t.fds[f].id = t.page[p].lu /\ t.fds[f].objix_hdr_pix = p
  BY <1>1 DEF Opens
<1>3. Ends(r)
  <2>1. CASE t.res # "OK"
    <3>1. r = t
      BY <2>1 DEF Then, With
    <3> QED
      BY <1>2, <3>1, StoppedEnds
  <2>2. CASE t.res = "OK"
    <3> DEFINE v == update_index_hdr(t, f, t.page[p].lu, p, t.page[p], name, 0)
    <3>1. r = v
      BY <1>2, <2>2 DEF Then, With
    <3>2. t.page[p].lu # 0
      BY <1>2 DEF IsHeader, Live, DELETED
    <3>3. IsHeader(t.page, p)
      BY <1>2
    <3>4. Stopped(v) \/ HeaderPut(t.page, t.fds, v, t.page[p].lu, 0, t.page[p].size)
      BY <1>2, <2>2, <3>2, <3>3, PutLoaded
    <3> HIDE DEF v, r
    <3> QED
      BY <3>1, <3>4, StoppedEnds DEF HeaderPut
  <2> QED
    BY <2>1, <2>2
<1> HIDE DEF r
<1> QED
  BY <1>3, CloseEnds DEF r, t, RenameRun

\* A call begins to work on an object.
LEMMA BeginSettled ==
  ASSUME NEW s, Settled(s, 0), NEW cur \in IxIds
  PROVE  Settled(s, cur) /\ Unmarked(s.page, cur)
<1>1. Forest(s.page, cur)
  BY BeginObject DEF Settled
<1>2. FdsOK(s.fds, s.page, cur)
  <2>1. \A f \in Fds : s.fds[f].open => s.fds[f].id # 0 /\ FdOK(s.fds[f], s.page, 0)
    BY LiveId DEF Settled, FdsOK, FdOK, IxIds
  <2>2. \A f \in Fds : s.fds[f].open => FdOK(s.fds[f], s.page, cur)
    BY <2>1 DEF FdOK
  <2> QED
    BY <2>2 DEF Settled, FdsOK
<1>3. Unmarked(s.page, cur)
  <2>1. \A h \in Pages : Live(s.page, h) => Shape(s.page[h], 0) /\ s.page[h].lu # 0
    BY LiveId DEF Settled, Forest, Shaped, Shape
  <2> QED
    BY <2>1 DEF Unmarked, IsHeader, Shape
<1> QED
  BY <1>1, <1>2, <1>3 DEF Settled

\* A call leaves the object as its size says.
LEMMA EndSettled ==
  ASSUME NEW s, NEW cur \in IxIds, Settled(s, cur), Unmarked(s.page, cur),
         \A h \in Pages : IsHeader(s.page, h) /\ s.page[h].lu = cur => Filled(s.page, h),
         \A f \in Fds : s.fds[f].open /\ s.fds[f].id = cur =>
             Length(s.fds[f].size) = Length(s.page[s.fds[f].objix_hdr_pix].size)
  PROVE  Settled(s, 0)
<1>1. Forest(s.page, 0)
  BY EndObject DEF Settled, Unmarked, IxIds
<1>2. \A f \in Fds : s.fds[f].open => FdOK(s.fds[f], s.page, 0)
  BY DEF Settled, FdsOK, FdOK
<1> QED
  BY <1>1, <1>2 DEF Settled, FdsOK

\* A page in use is programmed in place.
Rewritten(s, t, w, pg) ==
  /\ Sound(t) /\ Layout(t) /\ t.page = [s.page EXCEPT ![w] = pg]
  /\ t.fds = s.fds /\ t.work = s.work /\ t.res = s.res /\ t.pix = s.pix
  /\ t.starved = s.starved /\ t.cleaning = s.cleaning

\* Programming a page in use disturbs neither the counters nor the layout.
LEMMA Rewrite ==
  ASSUME NEW s, Sound(s), Layout(s), NEW w \in Pages, Live(s.page, w), NEW pg, DOMAIN pg = PageFields,
         pg.lu = s.page[w].lu, NEW stages
  PROVE  Rewritten(s, write(s, w, stages, pg), w, pg)
<1> DEFINE t == write(s, w, stages, pg)
<1>1. /\ DOMAIN t = StateFields /\ t.page = [s.page EXCEPT ![w] = pg]
      /\ t.deleted = s.deleted /\ t.allocated = s.allocated /\ t.free_blocks = s.free_blocks
      /\ t.erase = s.erase /\ t.max_erase_count = s.max_erase_count
      /\ t.fds = s.fds /\ t.work = s.work /\ t.res = s.res /\ t.pix = s.pix
      /\ t.starved = s.starved /\ t.cleaning = s.cleaning /\ t.free_cursor = s.free_cursor
  BY DEF write, Sound, Flash, StateFields
<1> HIDE DEF t
<1>2. DOMAIN t.page = Pages /\ \A p \in Pages : t.page[p].lu = s.page[p].lu
  BY <1>1 DEF Sound, Flash
<1>3. /\ LivePages(t.page) = LivePages(s.page) /\ DeletedPages(t.page) = DeletedPages(s.page)
      /\ FreeBlocks(t.page) = FreeBlocks(s.page)
  BY <1>2, BlockPages DEF LivePages, DeletedPages, FreeBlocks, Live
<1>4. PageOK(pg)
  <2>1. pg.lu \in LiveIds
    BY DEF Sound, Flash, PageOK, Live
  <2> QED
    BY <2>1, LiveId DEF PageOK
<1>5. Flash(t)
  BY <1>1, <1>2, <1>4 DEF Flash, Sound
<1>6. Counted(t)
  BY <1>1, <1>3 DEF Counted, Sound
<1>7. Layout(t)
  <2>1. FreeLast(t.page)
    BY <1>2 DEF Layout, FreeLast
  <2>2. CursorOK(t)
    <3>1. s.free_cursor \in Pages /\ t.free_cursor = s.free_cursor
      BY <1>1 DEF Layout, CursorOK
    <3>2. EntryOf(s.free_cursor) # MAX_ENTRIES - 1 => s.free_cursor + 1 \in Pages
      BY <3>1, NextEntry
    <3> QED
      BY <1>2, <3>1, <3>2 DEF Layout, CursorOK
  <2> QED
    BY <2>1, <2>2 DEF Layout
<1> QED
  BY <1>1, <1>5, <1>6, <1>7 DEF Rewritten, Sound, t

\* An index page passes the checks before its use.
LEMMA IndexPasses ==
  ASSUME NEW s, NEW pg, NEW cur, Shape(pg, cur), IsIx(pg.lu)
  PROVE  Validate(s, pg, TRUE, pg.span) = s
  BY DEF Validate, Shape

\* A data page in use passes its checks.
LEMMA DataPasses ==
  ASSUME NEW s, NEW q \in Pages, NEW cur, Shape(s.page[q], cur), ~IsIx(s.page[q].lu)
  PROVE  page_data_check(s, q, s.page[q].span) = s
<1> DEFINE pg == s.page[q]
<1>1. q # FREE
  BY PageRange
<1>2. /\ "USED" \in pg.flags /\ "DELET" \notin pg.flags /\ "FINAL" \in pg.flags
      /\ ("INDEX" \in pg.flags) = FALSE
  BY DEF Shape
<1> HIDE DEF pg
<1>3. Validate(s, pg, FALSE, pg.span) = s
  BY <1>2 DEF Validate
<1> QED
  BY <1>1, <1>3 DEF page_data_check, pg

\* The last index page of an object is deleted, and the descriptors are told.
Gone(P, s, t, id, n, m) ==
  /\ Settled(t, id) /\ t.res = s.res /\ t.starved = s.starved /\ Extent(t.page, id, n, m)
  /\ \A f \in Fds : /\ m # 0 => t.fds[f].open = s.fds[f].open
                    /\ s.fds[f].open /\ s.fds[f].id = id => t.fds[f].id = id /\ t.fds[f].size = s.fds[f].size
  /\ m # 0 /\ Unmarked(P, id) => Unmarked(t.page, id)

\* The last index page of an object goes: the object is whole without it.
LEMMA DropPage ==
  ASSUME NEW s, Sound(s), Layout(s), NEW w \in Pages, Live(s.page, w), NEW id \in IxIds, NEW P, Forest(P, id),
         FdsOK(s.fds, P, id), \A q \in Pages : q # w => P[q] = s.page[q],
         P[w].lu = s.page[w].lu, P[w].lu = id, NEW n \in Nat, NEW m \in Nat, P[w].span = m,
         Extent(P, id, n, m + 1), \A k \in 0 .. n - 1 : IxSpan(k) < m
  PROVE  Gone(P, s, cb_object_event(page_delete(s, w), "DEL", id, m, w, 0), id, n, m)
<1> DEFINE d == page_delete(s, w)
           t == cb_object_event(d, "DEL", id, m, w, 0)
           Q == d.page
<1>1. /\ Sound(d) /\ d.page = [s.page EXCEPT ![w] = DeletedPage] /\ d.fds = s.fds
      /\ d.res = s.res /\ d.starved = s.starved /\ d.free_cursor = s.free_cursor
  BY PageDelete DEF Same
<1>2. Layout(d)
  BY <1>1, DeleteLayout DEF Sound, Flash
<1> HIDE DEF d
<1>3. DOMAIN s.page = Pages /\ IsIx(id)
  BY DEF Sound, Flash, IxIds
<1>4. ~Live(Q, w) /\ Live(P, w) /\ Besides(P, Q, {w})
  BY <1>1, <1>3, Blanks DEF Besides, Live
<1>5. Forest(Q, id) /\ Extent(Q, id, n, m)
  <2> HIDE DEF Q
  <2> QED
    BY <1>3, <1>4, DropIndex
<1>6. /\ Alike(d, t) /\ t.res = d.res
  BY <1>1, ObjectEvent DEF Sound
<1>7. t.starved = d.starved /\ t.free_cursor = d.free_cursor
  BY <1>1 DEF cb_object_event, Sound, Flash, StateFields
<1>8. Told(s.fds, t.fds, "DEL", id, m, w, 0)
  <2>1. FdsTyped(d.fds) /\ \A f \in Fds : d.fds[f].open => d.fds[f].id \in IxIds
    BY <1>1 DEF FdsOK, FdOK
  <2>2. FdsTyped(t.fds) /\ \A f \in Fds : Follows(d.fds[f], t.fds[f], "DEL", id, m, w, 0)
    BY <1>1, <2>1, EventFollows DEF Sound
  <2> QED
    BY <1>1, <2>2 DEF Told
<1> HIDE DEF t
<1>9. FdsOK(t.fds, Q, id)
  <2> DEFINE F == s.fds
             G == t.fds
  <2>1. OneVersion(P) /\ FdsOK(F, P, id) /\ Told(F, G, "DEL", P[w].lu, P[w].span, w, 0) /\ IsIx(P[w].lu)
    BY <1>3, <1>8 DEF Forest
  <2> HIDE DEF F, G, Q
  <2>2. FdsOK(G, Q, id)
    BY <1>4, <2>1, FdsGone
  <2> QED
    BY <2>2 DEF G
<1>10. Sound(t)
  BY <1>1, <1>6, AlikeSound
<1>11. Settled(t, id) /\ t.page = Q
  BY <1>1, <1>2, <1>5, <1>6, <1>7, <1>9, <1>10 DEF Settled, Alike, Layout, CursorOK
<1>12. \A f \in Fds : /\ m # 0 => t.fds[f].open = s.fds[f].open
                      /\ s.fds[f].open /\ s.fds[f].id = id => t.fds[f].id = id /\ t.fds[f].size = s.fds[f].size
  BY <1>8 DEF Told, Follows
<1>13. m # 0 /\ Unmarked(P, id) => Unmarked(t.page, id)
  BY <1>4, <1>11 DEF Unmarked, Besides, IsHeader
<1> QED
  BY <1>1, <1>5, <1>6, <1>7, <1>11, <1>12, <1>13 DEF Gone, t, d

\* The index page of a span that the object has is found.
LEMMA EnterFinds ==
  ASSUME NEW s, NEW cur, Settled(s, cur), s.res = "OK", NEW f \in Fds, s.fds[f].open, NEW span \in Nat,
         NEW n, NEW m \in Nat, Extent(s.page, s.fds[f].id, n, m), span < m
  PROVE  EnterIndex(s, f, span).res = "OK"
<1> DEFINE id == s.fds[f].id
           found == IF span = 0 THEN [s EXCEPT !.pix = s.fds[f].objix_hdr_pix]
                    ELSE obj_lu_find_id_and_span(s, id, span)
           read == [found EXCEPT !.work = found.page[found.pix]]
           loaded == Validate(read, read.work, TRUE, span)
           both == IF found.res = "OK" THEN loaded ELSE found
           t == IF both.res = "OK" THEN SetCursor(both, f, both.pix, span) ELSE both
<1>1. EnterIndex(s, f, span) = t
  BY DEF EnterIndex, LoadWork, Then, With
<1>0. Sound(s) /\ Forest(s.page, cur) /\ FdsOK(s.fds, s.page, cur) /\ DOMAIN s = StateFields
  BY DEF Settled, Sound, Flash
<1>2. IsIx(id) /\ FdOK(s.fds[f], s.page, cur)
  BY <1>0 DEF FdsOK, FdOK, IxIds
<1>3. found.res = "OK" /\ found.page = s.page /\ DOMAIN found = StateFields
      /\ found.pix \in Pages /\ Live(s.page, found.pix) /\ s.page[found.pix].lu = id /\ s.page[found.pix].span = span
  <2>1. CASE span = 0
    <3>1. found = [s EXCEPT !.pix = s.fds[f].objix_hdr_pix]
      BY <2>1
    <3> HIDE DEF found
    <3>2. found.res = "OK" /\ found.page = s.page /\ found.pix = s.fds[f].objix_hdr_pix /\ DOMAIN found = StateFields
      BY <1>0, <3>1 DEF StateFields
    <3> QED
      BY <1>2, <2>1, <3>2 DEF FdOK, IsHeader
  <2>2. CASE span # 0
    <3>1. PICK w \in Pages : Live(s.page, w) /\ s.page[w].lu = id /\ s.page[w].span = span
      <4>1. span \in 0 .. m - 1
        OBVIOUS
      <4> QED
        BY <4>1 DEF Extent
    <3>2. "IXDELE" \notin s.page[w].flags
      BY <1>0, <2>2, <3>1 DEF Forest, Shaped, Shape
    <3>3. Matches(s.page, id, span) = {w}
      BY <1>0, <1>2, <3>1, <3>2, Spot DEF Forest
    <3>4. obj_lu_find_id_and_span(s, id, span) = [s EXCEPT !.pix = w]
      BY <1>0, <3>3, SpotPage DEF Sound
    <3>5. found = [s EXCEPT !.pix = w]
      BY <2>2, <3>4
    <3> HIDE DEF found
    <3>6. found.res = "OK" /\ found.page = s.page /\ found.pix = w /\ DOMAIN found = StateFields
      BY <1>0, <3>5 DEF StateFields
    <3> QED
      BY <3>1, <3>6
  <2> QED
    BY <2>1, <2>2
<1> HIDE DEF found
<1>4. read.work = s.page[found.pix] /\ read.res = "OK" /\ DOMAIN read = StateFields
  BY <1>3 DEF StateFields
<1> HIDE DEF read
<1>5. loaded = read
  <2>1. Shape(read.work, cur) /\ IsIx(read.work.lu) /\ read.work.span = span
    BY <1>0, <1>2, <1>3, <1>4 DEF Forest, Shaped
  <2> QED
    BY <2>1, IndexPasses
<1>6. both.res = "OK" /\ DOMAIN both = StateFields
  BY <1>3, <1>4, <1>5
<1> HIDE DEF both
<1>7. SetCursor(both, f, both.pix, span).res = "OK"
  BY <1>6, SetCursorOnly DEF OnlyFds
<1> QED
  BY <1>1, <1>6, <1>7

\* An index page that was found is the one in work.
Entered(s, t, w, f, cur, span) ==
  /\ Busy(t, w, cur) /\ t.res = "OK" /\ SameFiles(s, t) /\ t.pix = w
  /\ \A q \in Pages : View(t, w)[q] = s.page[q]
  /\ t.work.lu = s.fds[f].id /\ t.work.span = span
  /\ \A ix, n, m : Extent(s.page, ix, n, m) => Extent(View(t, w), ix, n, m)

\* An index page that the object has is found, and is in work.
LEMMA EnterBusy ==
  ASSUME NEW s, NEW cur, Settled(s, cur), s.res = "OK", NEW f \in Fds, s.fds[f].open, NEW span \in Nat,
         NEW n, NEW m \in Nat, Extent(s.page, s.fds[f].id, n, m), span < m
  PROVE  LET t == EnterIndex(s, f, span) IN Entered(s, t, t.pix, f, cur, span)
<1> DEFINE t == EnterIndex(s, f, span)
           w == t.pix
<1>1. Enters(s, t, f, cur, span) /\ t.res = "OK"
  BY EnterSettled, EnterFinds
<1> HIDE DEF t
<1>2. /\ Settled(t, cur) /\ SameFiles(s, t) /\ w \in Pages /\ Live(t.page, w) /\ t.page[w].lu = t.fds[f].id
      /\ t.page[w].span = span /\ t.work = t.page[w] /\ t.page = s.page /\ t.fds[f].id = s.fds[f].id
  BY <1>1 DEF Enters, SameFiles
<1> HIDE DEF w
<1>3. IsIx(t.page[w].lu)
  <2>1. FdsOK(t.fds, t.page, cur) /\ t.fds[f].open
    BY <1>2 DEF Settled, SameFiles
  <2> QED
    BY <1>2, <2>1 DEF FdsOK, FdOK, IxIds
<1>4. Still(t, t)
  BY <1>2 DEF Still, Alike, Settled, Sound, Flash
<1>5. Loaded(t, t, w, cur)
  BY <1>2, <1>3, <1>4, LoadBusy
<1>6. \A ix, k, j : Extent(s.page, ix, k, j) => Extent(View(t, w), ix, k, j)
  BY <1>2, <1>5, RenameExtent DEF Loaded
<1> QED
  BY <1>1, <1>2, <1>5, <1>6 DEF Entered, Loaded, t, w

-----------------------------------------------------------------------------

LoopFields == {"s", "span", "prev", "pix", "written", "ret"}

\* The object in work has n data pages and m index pages, and descriptor f is on it.
Within(s, w, f, id, n, m) ==
  /\ Busy(s, w, id) /\ s.res = "OK" /\ s.work.lu = id /\ Extent(View(s, w), id, n, m)
  /\ s.fds[f].open /\ s.fds[f].id = id

\* The data page of a span is the one the index page in work names.
LEMMA NamedPage ==
  ASSUME NEW s, NEW w, NEW cur, Busy(s, w, cur), NEW n \in Nat, NEW k \in Nat, NEW m, k < n,
         Extent(View(s, w), s.work.lu, n, m), s.work.span = IxSpan(k)
  PROVE  LET q == s.work.ix[IxEntry(k)]
         IN /\ q \in Pages /\ q # w /\ Live(s.page, q) /\ s.page[q].lu + IX_FLAG = s.work.lu /\ s.page[q].span = k
            /\ ~IsIx(s.page[q].lu) /\ Shape(s.page[q], cur) /\ Live(View(s, w), q) /\ View(s, w)[q] = s.page[q]
<1> DEFINE P == View(s, w)
           id == s.work.lu
<1>1. /\ Sound(s) /\ w \in Pages /\ Live(s.page, w) /\ s.work.lu = s.page[w].lu /\ IsIx(id) /\ Forest(P, cur)
  BY DEF Busy
<1>2. P[w] = s.work /\ (\A p \in Pages : p # w => P[p] = s.page[p]) /\ \A p \in Pages : Live(P, p) <=> Live(s.page, p)
  BY <1>1, ViewPage
<1> HIDE DEF P
<1>3. PICK q \in Pages : Live(P, q) /\ P[q].lu + IX_FLAG = id /\ P[q].span = k
  <2>1. k \in 0 .. n - 1
    OBVIOUS
  <2> QED
    BY <2>1 DEF Extent, P
<1>4. Shape(P[q], cur) /\ P[q].lu \in LiveIds /\ id \in LiveIds
  <2>1. Live(P, w)
    BY <1>1, <1>2
  <2> QED
    BY <1>1, <1>2, <1>3, <2>1 DEF Forest, Shaped, Shape
<1>5. ~IsIx(P[q].lu) /\ q # w
  BY <1>1, <1>2, <1>3, <1>4, IdKinds
<1>6. PICK p \in Pages : Owner(P, p, q)
  BY <1>1, <1>3, <1>5 DEF Forest, Owned
<1>7. p = w
  <2>1. Live(P, w) /\ P[w].lu = id /\ P[w].span = IxSpan(k)
    BY <1>1, <1>2
  <2> QED
    BY <1>1, <1>3, <1>6, <2>1 DEF Forest, OneVersion, Owner
<1>8. s.work.ix[IxEntry(k)] = q
  BY <1>2, <1>3, <1>6, <1>7 DEF Owner
<1> QED
  BY <1>2, <1>3, <1>4, <1>5, <1>8 DEF P

Dropping(s, t, w, f, id, n, m) ==
  /\ Within(t, w, f, id, n, m) /\ t.fds[f].size = n * DATA_PAGE_SIZE /\ t.work.span = s.work.span
  /\ Unmarked(View(s, w), id) => Unmarked(View(t, w), id)

\* The last data page is deleted.
LEMMA DropDataBusy ==
  ASSUME NEW r, DOMAIN r = LoopFields, NEW w, NEW f \in Fds, NEW id, NEW n \in Nat, NEW m,
         Within(r.s, w, f, id, n + 1, m), r.s.work.span = IxSpan(n)
  PROVE  LET q == DropData(r, f, n)
         IN q = [r EXCEPT !.s = q.s] /\ Dropping(r.s, q.s, w, f, id, n, m)
<1> DEFINE s == r.s
           e == IxEntry(n)
           old == s.work.ix[e]
           s1 == [s EXCEPT !.work.ix[e] = FREE]
           d == page_delete(s1, old)
           t == [d EXCEPT !.fds[f].size = n * DATA_PAGE_SIZE]
           check == page_data_check(s1, old, n)
           P == View(s, w)
<1>1. /\ Busy(s, w, id) /\ s.res = "OK" /\ s.work.lu = id /\ Extent(P, id, n + 1, m)
      /\ s.fds[f].open /\ s.fds[f].id = id
  BY DEF Within
<1>2. /\ Sound(s) /\ Layout(s) /\ DOMAIN s.work = PageFields
      /\ w \in Pages /\ Live(s.page, w) /\ Shape(s.page[w], id)
      /\ s.work.lu = s.page[w].lu /\ s.work.span = s.page[w].span /\ IsIx(id)
      /\ Forest(P, id) /\ FdsOK(s.fds, P, id)
  BY <1>1 DEF Busy
<1>3. /\ old \in Pages /\ old # w /\ Live(s.page, old) /\ s.page[old].lu + IX_FLAG = id /\ s.page[old].span = n
      /\ ~IsIx(s.page[old].lu) /\ Shape(s.page[old], id) /\ Live(P, old) /\ P[old] = s.page[old]
  <2>1. n < n + 1 /\ n + 1 \in Nat
    OBVIOUS
  <2> QED
    BY <1>1, <2>1, NamedPage
<1>4. P[w] = s.work /\ (\A p \in Pages : p # w => P[p] = s.page[p]) /\ \A p \in Pages : Live(P, p) <=> Live(s.page, p)
  BY <1>2, ViewPage
<1>5. Shape(s.work, id) /\ DOMAIN s.work.ix = Entries
  <2>1. Live(P, w) /\ P[w] = s.work
    BY <1>2, <1>4
  <2> HIDE DEF P
  <2>2. Shape(s.work, id)
    BY <1>2, <2>1 DEF Forest, Shaped
  <2> QED
    BY <1>1, <1>2, <2>2 DEF Shape
<1>6. /\ Alike(s, s1) /\ s1.fds = s.fds /\ s1.res = "OK" /\ s1.starved = s.starved /\ s1.free_cursor = s.free_cursor
      /\ s1.work = [s.work EXCEPT !.ix[e] = FREE]
  BY <1>1, <1>2 DEF Alike, Sound, Flash, StateFields
<1> HIDE DEF s1
<1>7. check = s1
  <2>1. s1.page[old] = s.page[old]
    BY <1>6 DEF Alike
  <2> QED
    BY <1>3, <2>1, DataPasses
<1>8. /\ Sound(d) /\ d.page = [s.page EXCEPT ![old] = DeletedPage] /\ d.work = s1.work /\ d.fds = s.fds
      /\ d.res = "OK" /\ d.starved = s.starved /\ d.free_cursor = s.free_cursor
  <2>1. Sound(s1) /\ s1.page = s.page
    BY <1>2, <1>6, AlikeSound DEF Alike
  <2>2. Live(s1.page, old)
    BY <1>3, <2>1
  <2> HIDE DEF old
  <2>3. /\ Sound(d) /\ d.page = [s1.page EXCEPT ![old] = DeletedPage] /\ Same(s1, d)
        /\ d.res = s1.res /\ d.starved = s1.starved /\ d.free_cursor = s1.free_cursor
    BY <1>3, <2>1, <2>2, PageDelete
  <2> QED
    BY <1>6, <2>1, <2>3 DEF Same
<1> HIDE DEF d
<1>9. /\ Alike(d, t) /\ t.work = d.work /\ t.res = "OK" /\ t.free_cursor = d.free_cursor
      /\ t.fds = [s.fds EXCEPT ![f].size = n * DATA_PAGE_SIZE] /\ DOMAIN t = StateFields
  BY <1>8 DEF Alike, Sound, Flash, StateFields
<1>10. DropData(r, f, n) = [r EXCEPT !.s = t]
  <2> HIDE DEF d
  <2>1. check.res = "OK"
    BY <1>6, <1>7
  <2> DEFINE Remove(c) == IF c.res \notin {"OK", "DELETED", "INDEX_REF_FREE"} THEN c
                        ELSE [IF c.res = "OK" THEN page_delete(s1, old) ELSE s1
                                EXCEPT !.fds[f].size = n * DATA_PAGE_SIZE]
  <2>2. DropData(r, f, n) = [r EXCEPT !.s = With(Remove, check)]
    BY DEF DropData, s1
  <2>3. With(Remove, check) = t
    BY <2>1 DEF With, d
  <2> HIDE DEF Remove, t, check
  <2> QED
    BY <2>2, <2>3
<1> HIDE DEF t, check
<1> DEFINE Q == View(t, w)
<1>11. Layout(d)
  BY <1>2, <1>3, <1>8, DeleteLayout DEF Sound, Flash
<1>12. Sound(t) /\ Layout(t) /\ t.page = d.page
  BY <1>8, <1>9, <1>11, AlikeSound DEF Alike, Layout, CursorOK
<1>13. DOMAIN t.page = Pages /\ t.page[w] = s.page[w] /\ ~Live(t.page, old)
       /\ \A p \in Pages : p # old => t.page[p] = s.page[p]
  BY <1>2, <1>3, <1>8, <1>12, Blanks DEF Sound, Flash, Live
<1>14. Live(t.page, w) /\ t.work.lu = id /\ t.work.span = s.work.span /\ DOMAIN t.work = PageFields
       /\ t.work.size = s.work.size /\ t.work.flags = s.work.flags /\ t.work.id = s.work.id
       /\ t.work.ix = [s.work.ix EXCEPT ![e] = FREE]
  <2>1. t.work = [s.work EXCEPT !.ix[e] = FREE]
    BY <1>6, <1>8, <1>9
  <2>2. Live(t.page, w)
    BY <1>2, <1>13 DEF Live
  <2> HIDE DEF e, s, old
  <2> QED
    BY <1>1, <1>2, <2>1, <2>2 DEF PageFields
<1>15. Q[w] = t.work /\ (\A p \in Pages : p # w => Q[p] = t.page[p]) /\ \A p \in Pages : Live(Q, p) <=> Live(t.page, p)
  <2>1. Sound(t) /\ w \in Pages /\ Live(t.page, w) /\ t.work.lu = t.page[w].lu
    BY <1>1, <1>2, <1>12, <1>13, <1>14
  <2> HIDE DEF s, e, old, P
  <2> QED BY <2>1, ViewPage
<1> HIDE DEF Q, P
<1>16. Shape(t.work, id)
  <2>1. DOMAIN t.work.ix = Entries
    BY <1>5, <1>14
  <2> QED
    BY <1>1, <1>5, <1>14, <2>1 DEF Shape
<1>17. Dropped(P, Q, w, old, n, id)
  <2>1. Live(P, w) /\ Live(Q, w) /\ Live(P, old) /\ ~Live(Q, old)
    BY <1>2, <1>3, <1>4, <1>13, <1>14, <1>15
  <2>2. P[w].lu = id /\ P[w].span = IxSpan(n) /\ P[old].lu + IX_FLAG = id /\ P[old].span = n
    BY <1>1, <1>3, <1>4
  <2>3. Besides(P, Q, {w, old})
    <3> SUFFICES ASSUME NEW p \in Pages, p # w, p # old PROVE (Live(Q, p) <=> Live(P, p)) /\ Q[p] = P[p]
      BY DEF Besides
    <3>1. t.page[p] = s.page[p] /\ Q[p] = t.page[p] /\ P[p] = s.page[p]
      BY <1>4, <1>13, <1>15
    <3> QED
      BY <3>1 DEF Live
  <2>4. Q[w].lu = P[w].lu /\ Q[w].span = P[w].span /\ Shape(Q[w], id)
    BY <1>1, <1>4, <1>14, <1>15, <1>16
  <2>5. \A k \in Entries : Q[w].ix[k] = IF k = IxEntry(n) THEN FREE ELSE P[w].ix[k]
    BY <1>4, <1>5, <1>14, <1>15
  <2> QED
    BY <1>2, <1>3, <2>1, <2>2, <2>3, <2>4, <2>5 DEF Dropped
<1>18. Forest(Q, id) /\ Extent(Q, id, n, m)
  BY <1>1, <1>2, <1>17, DropLast
<1>19. FdsOK(t.fds, Q, id)
  <2>1. IxStay(P, Q, id)
    <3> SUFFICES ASSUME NEW p \in Pages, (Live(P, p) /\ IsIx(P[p].lu)) \/ (Live(Q, p) /\ IsIx(Q[p].lu))
                 PROVE  /\ Live(P, p) /\ Live(Q, p) /\ Q[p].lu = P[p].lu /\ Q[p].span = P[p].span
                        /\ P[p].lu # id => Q[p].size = P[p].size
      BY DEF IxStay
    <3>1. p # old
      BY <1>3, <1>17 DEF Dropped
    <3>2. CASE p = w
      BY <1>17, <3>2, <1>1, <1>4 DEF Dropped
    <3>3. CASE p # w
      BY <1>17, <3>1, <3>3 DEF Dropped, Besides
    <3> QED
      BY <3>2, <3>3
  <2>2. FdsOK(s.fds, Q, id)
    BY <1>2, <2>1, FdsStay
  <2>3. n * DATA_PAGE_SIZE \in Nat
    BY SizesAssumption
  <2> DEFINE F == s.fds
             G == t.fds
             k == n * DATA_PAGE_SIZE
  <2>4. F[f].id = id /\ G = [F EXCEPT ![f].size = k] /\ k \in Nat /\ FdsOK(F, Q, id)
    BY <1>1, <1>9, <2>2, <2>3
  <2> HIDE DEF F, G, k
  <2>5. FdsOK(G, Q, id)
    BY <2>4, SizeFds
  <2> QED
    BY <2>5 DEF G
<1>20. Busy(t, w, id)
  <2>1. t.page[w] = s.page[w] /\ Shape(t.page[w], id)
    BY <1>2, <1>13
  <2> QED
    BY <1>1, <1>2, <1>12, <1>14, <1>18, <1>19, <2>1 DEF Busy, Q
<1>21. t.fds[f].open /\ t.fds[f].id = id /\ t.fds[f].size = n * DATA_PAGE_SIZE
  <2>1. DOMAIN s.fds = Fds /\ DOMAIN s.fds[f] = FdFields
    BY <1>2 DEF FdsOK, FdsTyped
  <2> QED
    BY <1>1, <1>9, <2>1 DEF FdFields
<1>22. Unmarked(P, id) => Unmarked(Q, id)
  <2>1. Q[w].flags = P[w].flags
    BY <1>4, <1>14, <1>15
  <2> QED
    BY <1>17, <2>1 DEF Unmarked, IsHeader, Dropped, Besides
<1>23. Dropping(s, t, w, f, id, n, m)
  BY <1>9, <1>14, <1>18, <1>20, <1>21, <1>22 DEF Dropping, Within, Q, P
<1>24. [r EXCEPT !.s = t].s = t
  BY DEF LoopFields
<1> QED
  BY <1>10, <1>23, <1>24

-----------------------------------------------------------------------------

\* Truncation goes from the last data page to the first. Before it: every page is in its
\* place. In it: the index page of the last span done is in work. A step that found no
\* page has ended it.
Ready(s, f, id, n, m, remove) ==
  /\ Settled(s, id) /\ s.res = "OK" /\ s.fds[f].open /\ s.fds[f].id = id
  /\ Extent(s.page, id, n, m) /\ (remove \/ Unmarked(s.page, id))

Fresh(r, f, id, n, remove) ==
  /\ ~r.ret /\ r.prev = -1 /\ r.span = 0 /\ Ready(r.s, f, id, n, IxCount(n), remove)
  /\ r.pix = r.s.fds[f].objix_hdr_pix /\ (n = 0 => Length(r.s.fds[f].size) = 0)

Deep(r, f, id, n, remove) ==
  /\ ~r.ret /\ r.prev = IxSpan(n) /\ r.span = IxSpan(n)
  /\ Within(r.s, r.pix, f, id, n, IxSpan(n) + 1) /\ r.s.work.span = IxSpan(n)
  /\ r.s.fds[f].size = n * DATA_PAGE_SIZE /\ (remove \/ Unmarked(View(r.s, r.pix), id))

Broken(r) == r.ret /\ Stopped(r.s)

Cutting(r, f, id, n, remove) ==
  DOMAIN r = LoopFields /\ (Broken(r) \/ Fresh(r, f, id, n, remove) \/ Deep(r, f, id, n, remove))

\* The index page behind the loop names nothing any more: it is deleted.
LEMMA LeaveIndexReady ==
  ASSUME NEW r, NEW f \in Fds, NEW id \in IxIds, NEW n \in Nat, NEW remove, Deep(r, f, id, n + 1, remove),
         DOMAIN r = LoopFields, IxSpan(n) # r.prev
  PROVE  LET q == LeaveIndex(r, f, r.s.fds[f].size)
         IN q = [r EXCEPT !.s = q.s] /\ (Stopped(q.s) \/ Ready(q.s, f, id, n + 1, IxSpan(n) + 1, remove))
<1> DEFINE s == r.s
           w == r.pix
           m == r.prev
           size == s.fds[f].size
           P == View(s, w)
           d == cb_object_event(page_delete(s, w), "DEL", id, m, w, 0)
           h == d.fds[f].objix_hdr_pix
           t == update_index_hdr(d, f, id, h, d.page[h], NoName, size)
<1>1. /\ Busy(s, w, id) /\ s.res = "OK" /\ s.work.lu = id /\ Extent(P, id, n + 1, m + 1)
      /\ s.fds[f].open /\ s.fds[f].id = id /\ m = IxSpan(n + 1) /\ s.work.span = m
      /\ size = (n + 1) * DATA_PAGE_SIZE /\ (remove \/ Unmarked(P, id))
  BY DEF Deep, Within
<1>2. /\ Sound(s) /\ Layout(s) /\ w \in Pages /\ Live(s.page, w) /\ Shape(s.page[w], id)
      /\ id = s.page[w].lu /\ m = s.page[w].span /\ IsIx(id)
      /\ Forest(P, id) /\ FdsOK(s.fds, P, id)
  BY <1>1 DEF Busy
<1>3. P[w] = s.work /\ (\A p \in Pages : p # w => P[p] = s.page[p])
  BY <1>2, ViewPage
<1>4. m = IxSpan(n) + 1 /\ m \in Nat /\ IxSpan(n) \in Nat /\ m # 0 /\ \A k \in 0 .. n + 1 - 1 : IxSpan(k) < m
  <2>1. IxSpan(n) \in Nat /\ IxSpan(n + 1) \in Nat /\ IxSpan(n + 1) <= IxSpan(n) + 1 /\ IxSpan(n) <= IxSpan(n + 1)
    BY SpanType
  <2>2. m = IxSpan(n) + 1
    BY <1>1, <2>1
  <2>3. ASSUME NEW k \in 0 .. n + 1 - 1 PROVE IxSpan(k) < m
    <3>1. k \in Nat /\ k <= n
      OBVIOUS
    <3>2. IxSpan(k) <= IxSpan(n) /\ IxSpan(k) \in Nat
      BY <3>1, SpanOrder, SpanType
    <3> QED
      BY <2>1, <2>2, <3>2
  <2> QED
    BY <2>1, <2>2, <2>3
<1>5. page_index_check(s, w, m) = s
  <2>1. w # FREE
    BY <1>2, PageRange
  <2>2. Validate(s, s.page[w], TRUE, s.page[w].span) = s
    BY <1>2, IndexPasses
  <2> QED
    BY <1>2, <2>1, <2>2 DEF page_index_check
<1>6. LeaveIndex(r, f, size) = [r EXCEPT !.s = IF d.res = "OK" THEN t ELSE d]
  <2> DEFINE Resize(u) == update_index_hdr(u, f, s.fds[f].id, u.fds[f].objix_hdr_pix,
                                           u.page[u.fds[f].objix_hdr_pix], NoName, size)
  <2>2. Then(page_index_check(s, w, m), LAMBDA u : cb_object_event(page_delete(u, w), "DEL", s.fds[f].id, u.work.span, w, 0)) = d
    BY <1>1, <1>5 DEF Then, With
  <2>3. LeaveIndex(r, f, size) =
          [r EXCEPT !.s = Then(Then(page_index_check(s, w, m),
                                    LAMBDA u : cb_object_event(page_delete(u, w), "DEL", s.fds[f].id, u.work.span, w, 0)),
                               Resize)]
    BY <1>1 DEF LeaveIndex
  <2> HIDE DEF d
  <2>4. Then(d, Resize) = IF d.res = "OK" THEN t ELSE d
    BY <1>1 DEF Then, With
  <2> HIDE DEF t, Resize
  <2> QED
    BY <2>2, <2>3, <2>4
<1>7. Gone(P, s, d, id, n + 1, m)
  <2> DEFINE N == n + 1
  <2>1. N \in Nat /\ Extent(P, id, N, m + 1) /\ \A k \in 0 .. N - 1 : IxSpan(k) < m
    BY <1>1, <1>4
  <2> HIDE DEF P, N
  <2>2. P[w].lu = s.page[w].lu /\ P[w].lu = id /\ P[w].span = m
    BY <1>1, <1>2, <1>3
  <2>3. Gone(P, s, d, id, N, m)
    BY <1>2, <1>3, <1>4, <2>1, <2>2, DropPage
  <2> QED
    BY <2>3 DEF N
<1> HIDE DEF d, P
<1>8. /\ Settled(d, id) /\ d.res = "OK" /\ Extent(d.page, id, n + 1, m) /\ d.fds[f].open
      /\ d.fds[f].id = id /\ d.fds[f].size = size /\ (remove \/ Unmarked(d.page, id))
  BY <1>1, <1>4, <1>7 DEF Gone
<1>9. h \in Pages /\ IsHeader(d.page, h) /\ d.page[h].lu = id
  BY <1>8 DEF Settled, FdsOK, FdOK
<1> HIDE DEF h
<1>10. size \in Nat /\ size # 0
  BY <1>1, SizesAssumption
<1>11. Stopped(t) \/ HeaderPut(d.page, d.fds, t, id, id, size)
  <2> HIDE DEF size
  <2> DEFINE lu == d.page[h].lu
             v == update_index_hdr(d, f, lu, h, d.page[h], NoName, size)
  <2>1. f \in Fds => d.fds[f].open /\ d.fds[f].id = d.page[h].lu
    BY <1>8, <1>9
  <2>2. (size # 0 => d.page[h].lu = id) /\ (size = 0 => d.page[h].lu # id)
    BY <1>9, <1>10
  <2>3. Stopped(v) \/ HeaderPut(d.page, d.fds, v, lu, id, IF size # 0 THEN size ELSE d.page[h].size)
    BY <1>8, <1>9, <1>10, <2>1, <2>2, PutLoaded
  <2>4. lu = id /\ (IF size # 0 THEN size ELSE d.page[h].size) = size
    BY <1>9, <1>10
  <2> QED
    BY <2>3, <2>4 DEF h
<1> HIDE DEF t
<1>12. Stopped(t) \/ Ready(t, f, id, n + 1, IxSpan(n) + 1, remove)
  <2> SUFFICES ASSUME HeaderPut(d.page, d.fds, t, id, id, size) PROVE Ready(t, f, id, n + 1, IxSpan(n) + 1, remove)
    BY <1>11
  <2>1. t.fds[f].open /\ t.fds[f].id = id
    BY <1>8 DEF HeaderPut, Told, Follows
  <2> QED
    BY <1>4, <1>8, <2>1 DEF HeaderPut, Ready
<1>13. [r EXCEPT !.s = t].s = t
  BY DEF LoopFields
<1> QED
  BY <1>6, <1>8, <1>12, <1>13 DEF size, s

Switched(r, f, id, n, remove) ==
  /\ DOMAIN r = LoopFields /\ ~r.ret /\ r.prev = IxSpan(n) /\ r.span = IxSpan(n)
  /\ Within(r.s, r.pix, f, id, n + 1, IxSpan(n) + 1) /\ r.s.work.span = IxSpan(n)
  /\ (remove \/ Unmarked(View(r.s, r.pix), id))

\* The index page of the next span is in work.
LEMMA SwitchTruncateOn ==
  ASSUME NEW r, NEW f \in Fds, NEW id \in IxIds, NEW n \in Nat, NEW remove, Cutting(r, f, id, n + 1, remove),
         Running(r), IxSpan(n) # r.prev
  PROVE  LET q == SwitchTruncate(r, f, IxSpan(n), r.s.fds[f].size)
         IN (DOMAIN q = LoopFields /\ Broken(q)) \/ Switched(q, f, id, n, remove)
<1> DEFINE span == IxSpan(n)
           size == r.s.fds[f].size
           q0 == IF r.prev = -1 THEN r ELSE LeaveIndex(r, f, size)
           e == EnterIndex(q0.s, f, span)
           q1 == IF q0.s.res # "OK" THEN q0 ELSE [AtPage(q0, e) EXCEPT !.prev = span, !.span = span]
           q == [q1 EXCEPT !.ret = q1.s.res # "OK"]
<1>1. SwitchTruncate(r, f, span, size) = q
  <2> HIDE DEF span, size
  <2>1. With(LAMBDA t : AtPage(q0, t), EnterIndex(q0.s, f, span)) = AtPage(q0, e)
    BY DEF With
  <2> HIDE DEF e, q0
  <2> DEFINE Go(x) == IF x.s.res # "OK" THEN x
                      ELSE [With(LAMBDA t : AtPage(x, t), EnterIndex(x.s, f, span)) EXCEPT !.prev = span, !.span = span]
  <2>2. SwitchTruncate(r, f, span, size) = With(Returning, With(Go, IF r.prev = -1 THEN r ELSE LeaveIndex(r, f, size)))
    BY DEF SwitchTruncate
  <2>3. With(Go, q0) = q1
    BY <2>1 DEF With
  <2> HIDE DEF Go, q1
  <2> QED
    BY <2>2, <2>3 DEF q0, With, Returning
<1>2. span \in Nat /\ DOMAIN r = LoopFields /\ IxCount(n + 1) = span + 1
  <2>1. n + 1 # 0 /\ (n + 1) - 1 = n
    OBVIOUS
  <2> QED
    BY <2>1, SpanType DEF Cutting, IxCount
<1>3. DOMAIN q0 = LoopFields /\ ~q0.ret /\ (Stopped(q0.s) \/ Ready(q0.s, f, id, n + 1, span + 1, remove))
  <2>1. ~Broken(r) /\ ~r.ret
    BY DEF Running, Broken
  <2>2. CASE Fresh(r, f, id, n + 1, remove)
    <3>1. q0 = r
      BY <2>2 DEF Fresh
    <3> QED
      BY <1>2, <2>1, <2>2, <3>1 DEF Fresh
  <2>3. CASE Deep(r, f, id, n + 1, remove)
    <3>1. r.prev # -1
      BY <2>3, SpanType DEF Deep
    <3> DEFINE v == LeaveIndex(r, f, r.s.fds[f].size)
    <3>2. v = [r EXCEPT !.s = v.s] /\ (Stopped(v.s) \/ Ready(v.s, f, id, n + 1, IxSpan(n) + 1, remove))
      BY <1>2, <2>3, LeaveIndexReady
    <3>3. q0 = v
      BY <3>1
    <3> HIDE DEF v, q0
    <3>4. DOMAIN v = LoopFields /\ v.ret = r.ret
      BY <1>2, <3>2 DEF LoopFields
    <3> QED
      BY <2>1, <3>2, <3>3, <3>4
  <2> QED
    BY <2>1, <2>2, <2>3 DEF Cutting
<1> HIDE DEF q0
<1>4. CASE q0.s.res # "OK"
  <2>1. Stopped(q0.s)
    BY <1>3, <1>4 DEF Ready
  <2>2. q = [q0 EXCEPT !.ret = TRUE]
    BY <1>4
  <2>3. DOMAIN q = LoopFields /\ q.ret /\ q.s = q0.s
    <3> HIDE DEF q
    <3> QED
      BY <1>3, <2>2 DEF LoopFields
  <2> HIDE DEF q
  <2> QED
    BY <1>1, <2>1, <2>3 DEF Broken
<1>5. CASE q0.s.res = "OK"
  <2>1. Ready(q0.s, f, id, n + 1, span + 1, remove)
    BY <1>3, <1>5 DEF Stopped
  <2> DEFINE s == q0.s
             w == e.pix
  <2>2. Settled(s, id) /\ s.res = "OK" /\ s.fds[f].open /\ s.fds[f].id = id /\ Extent(s.page, id, n + 1, span + 1)
        /\ (remove \/ Unmarked(s.page, id))
    BY <2>1 DEF Ready
  <2>3. Entered(s, e, w, f, id, span)
    <3> DEFINE m == span + 1
               N == n + 1
    <3>1. m \in Nat /\ span < m /\ Extent(s.page, s.fds[f].id, N, m)
      BY <1>2, <2>2
    <3> HIDE DEF m, N, span
    <3> QED
      BY <1>2, <2>2, <3>1, EnterBusy
  <2> HIDE DEF e
  <2>4. /\ Busy(e, w, id) /\ e.res = "OK" /\ e.work.lu = id /\ Extent(View(e, w), id, n + 1, span + 1)
        /\ e.fds[f].open /\ e.fds[f].id = id /\ e.work.span = span
    BY <2>2, <2>3 DEF Entered, SameFiles
  <2>5. remove \/ Unmarked(View(e, w), id)
    <3>1. \A p \in Pages : View(e, w)[p] = s.page[p]
      BY <2>3 DEF Entered
    <3> QED
      BY <2>2, <3>1 DEF Unmarked, IsHeader, Live
  <2>6. DOMAIN q = LoopFields /\ q.ret = FALSE /\ q.prev = span /\ q.span = span /\ q.s = e /\ q.pix = w
    <3>1. q1 = [q0 EXCEPT !.s = e, !.pix = e.pix, !.prev = span, !.span = span]
      BY <1>5 DEF AtPage
    <3> HIDE DEF q1, span
    <3>2. q1.s = e /\ DOMAIN q1 = LoopFields /\ q1.prev = span /\ q1.span = span /\ q1.pix = w
      BY <1>3, <3>1 DEF LoopFields
    <3> QED
      BY <2>4, <3>2 DEF LoopFields
  <2> HIDE DEF q
  <2>7. Switched(q, f, id, n, remove)
    BY <2>4, <2>5, <2>6 DEF Switched, Within
  <2> QED
    BY <1>1, <2>7
<1> QED
  BY <1>4, <1>5

\* One span of the truncation.
TruncateStep(r, span, f) ==
  IF ~Running(r) THEN r
  ELSE With(LAMBDA q : IF Running(q) THEN DropData(q, f, span) ELSE q,
            IF IxSpan(span) = r.prev THEN r ELSE SwitchTruncate(r, f, IxSpan(span), r.s.fds[f].size))

\* One step of a truncation, from the state before span n to the state after it.
LEMMA TruncateStepOn ==
  ASSUME NEW r, NEW f \in Fds, NEW id \in IxIds, NEW n \in Nat, NEW remove, Cutting(r, f, id, n + 1, remove)
  PROVE  LET q == TruncateStep(r, n, f) IN DOMAIN q = LoopFields /\ (Broken(q) \/ Deep(q, f, id, n, remove))
<1> DEFINE q0 == IF IxSpan(n) = r.prev THEN r ELSE SwitchTruncate(r, f, IxSpan(n), r.s.fds[f].size)
<1>1. CASE ~Running(r)
  <2>1. TruncateStep(r, n, f) = r
    BY <1>1 DEF TruncateStep
  <2>2. Broken(r)
    BY <1>1 DEF Cutting, Running, Fresh, Deep, Ready, Within
  <2> QED
    BY <2>1, <2>2 DEF Cutting
<1>2. CASE Running(r)
  <2>1. TruncateStep(r, n, f) = IF Running(q0) THEN DropData(q0, f, n) ELSE q0
    <3> HIDE DEF q0
    <3>1. With(LAMBDA q : IF Running(q) THEN DropData(q, f, n) ELSE q, q0) = IF Running(q0) THEN DropData(q0, f, n) ELSE q0
      BY DEF With
    <3> QED
      BY <1>2, <3>1 DEF TruncateStep, q0
  <2>2. (DOMAIN q0 = LoopFields /\ Broken(q0)) \/ Switched(q0, f, id, n, remove)
    <3>1. CASE IxSpan(n) # r.prev
      <4>1. q0 = SwitchTruncate(r, f, IxSpan(n), r.s.fds[f].size)
        BY <3>1
      <4> QED
        BY <1>2, <3>1, <4>1, SwitchTruncateOn
    <3>2. CASE IxSpan(n) = r.prev
      <4>1. Deep(r, f, id, n + 1, remove) /\ DOMAIN r = LoopFields
        BY <1>2, <3>2, SpanType DEF Cutting, Running, Broken, Fresh
      <4>2. IxSpan(n + 1) = IxSpan(n)
        BY <3>2, <4>1 DEF Deep
      <4>3. Switched(r, f, id, n, remove)
        BY <4>1, <4>2 DEF Deep, Switched
      <4>4. q0 = r
        BY <3>2
      <4> QED
        BY <4>3, <4>4
    <3> QED
      BY <3>1, <3>2
  <2> HIDE DEF q0
  <2>3. CASE Broken(q0)
    <3>1. ~Running(q0) /\ DOMAIN q0 = LoopFields
      BY <2>2, <2>3 DEF Broken, Running, Switched
    <3> QED
      BY <2>1, <2>3, <3>1
  <2>4. CASE Switched(q0, f, id, n, remove)
    <3> DEFINE v == DropData(q0, f, n)
               m == IxSpan(n) + 1
    <3>1. Running(q0) /\ DOMAIN q0 = LoopFields /\ Within(q0.s, q0.pix, f, id, n + 1, m) /\ q0.s.work.span = IxSpan(n)
      BY <2>4 DEF Switched, Running, Within
    <3>2. v = [q0 EXCEPT !.s = v.s] /\ Dropping(q0.s, v.s, q0.pix, f, id, n, m)
      <4> HIDE DEF m
      <4> QED
        BY <3>1, DropDataBusy
    <3>3. TruncateStep(r, n, f) = v
      BY <2>1, <3>1
    <3> HIDE DEF v
    <3>4. DOMAIN v = LoopFields /\ v.ret = q0.ret /\ v.prev = q0.prev /\ v.span = q0.span /\ v.pix = q0.pix
      BY <3>1, <3>2 DEF LoopFields
    <3>5. Deep(v, f, id, n, remove)
      BY <2>4, <3>1, <3>2, <3>4 DEF Deep, Switched, Dropping
    <3> QED
      BY <3>3, <3>4, <3>5
  <2> QED
    BY <2>2, <2>3, <2>4
<1> QED
  BY <1>1, <1>2

\* The size of a descriptor of the object in work is set.
OtherSize(s, t, f, n, cur) ==
  /\ Settled(t, cur) /\ t.page = s.page /\ t.res = s.res /\ t.starved = s.starved
  /\ \A g \in Fds : /\ t.fds[g].open = s.fds[g].open /\ t.fds[g].id = s.fds[g].id
                    /\ t.fds[g].objix_hdr_pix = s.fds[g].objix_hdr_pix
                    /\ t.fds[g].size = IF g = f THEN n ELSE s.fds[g].size

\* The size of a descriptor of the object in work is nobody else's.
LEMMA SizeSettled ==
  ASSUME NEW s, NEW cur, Settled(s, cur), NEW f \in Fds, s.fds[f].open => s.fds[f].id = cur, NEW n \in Nat,
         NEW t, t = [s EXCEPT !.fds[f].size = n]
  PROVE  OtherSize(s, t, f, n, cur)
<1>1. OnlyFds(s, t) /\ t.fds = [s.fds EXCEPT ![f].size = n]
  BY DEF OnlyFds, Alike, Settled, Sound, Flash, StateFields
<1>2. FdsOK(s.fds, s.page, cur)
  BY DEF Settled
<1>3. FdsOK(t.fds, s.page, cur)
  <2> DEFINE F == s.fds
             G == t.fds
             P == s.page
  <2>1. FdsOK(F, P, cur) /\ (F[f].open => F[f].id = cur) /\ G = [F EXCEPT ![f].size = n]
    BY <1>1, <1>2
  <2> HIDE DEF F, G, P
  <2>2. FdsOK(G, P, cur)
    BY <2>1, SizeFds
  <2> QED
    BY <2>2 DEF G, P
<1>4. Settled(t, cur)
  BY <1>1, <1>3, OnlyFdsSettled
<1>5. DOMAIN s.fds = Fds /\ \A g \in Fds : DOMAIN s.fds[g] = FdFields
  BY <1>2 DEF FdsOK, FdsTyped
<1>6. \A g \in Fds : /\ t.fds[g].open = s.fds[g].open /\ t.fds[g].id = s.fds[g].id
                     /\ t.fds[g].objix_hdr_pix = s.fds[g].objix_hdr_pix
                     /\ t.fds[g].size = IF g = f THEN n ELSE s.fds[g].size
  BY <1>1, <1>5 DEF FdFields
<1> QED
  BY <1>1, <1>4, <1>6 DEF OnlyFds, Alike, OtherSize

\* A descriptor is given a size.
GivenSize(s, f, n) == [s EXCEPT !.fds[f].size = n]

\* The header of a removed object goes last: nothing of it is left, and no descriptor.
LEMMA RemoveEnds ==
  ASSUME NEW s, Sound(s), Layout(s), s.res = "OK", NEW w \in Pages, Live(s.page, w), NEW id \in IxIds,
         NEW P, Forest(P, id), FdsOK(s.fds, P, id), \A q \in Pages : q # w => P[q] = s.page[q],
         P[w].lu = s.page[w].lu, P[w].lu = id, P[w].span = 0, Extent(P, id, 0, 1),
         NEW f \in Fds, s.fds[f].open, s.fds[f].id = id
  PROVE  LET d == cb_object_event(page_delete(s, w), "DEL", id, 0, w, 0)
         IN d.res = "OK" /\ Ends(GivenSize(d, f, 0))
<1> DEFINE d == cb_object_event(page_delete(s, w), "DEL", id, 0, w, 0)
           t == [d EXCEPT !.fds[f].size = 0]
<1>1. Gone(P, s, d, id, 0, 0)
  <2>1. 0 \in Nat /\ Extent(P, id, 0, 0 + 1) /\ \A k \in 0 .. 0 - 1 : IxSpan(k) < 0
    OBVIOUS
  <2> QED
    BY <2>1, DropPage
<1> HIDE DEF d
<1>2. Settled(d, id) /\ d.res = "OK" /\ Extent(d.page, id, 0, 0) /\ d.fds[f].id = id
  BY <1>1 DEF Gone
<1>3. Settled(t, id) /\ t.page = d.page
  <2>1. (d.fds[f].open => d.fds[f].id = id) /\ 0 \in Nat
    BY <1>2
  <2>2. OtherSize(d, t, f, 0, id)
    BY <1>2, <2>1, SizeSettled
  <2> QED
    BY <2>2 DEF OtherSize
<1> HIDE DEF t
<1>4. \A h \in Pages : ~(Live(t.page, h) /\ t.page[h].lu = id)
  <2>1. \A h \in Pages : Live(t.page, h) => t.page[h].span \in Nat
    BY <1>3 DEF Settled, Forest, Shaped, Shape
  <2>2. \A h \in Pages : Live(t.page, h) /\ t.page[h].lu = id => t.page[h].span < 0
    BY <1>2, <1>3 DEF Extent
  <2> QED
    BY <2>1, <2>2
<1>5. Settled(t, 0)
  <2>1. Unmarked(t.page, id) /\ \A h \in Pages : IsHeader(t.page, h) /\ t.page[h].lu = id => Filled(t.page, h)
    BY <1>4 DEF Unmarked, IsHeader
  <2>2. \A g \in Fds : t.fds[g].open => t.fds[g].id # id
    BY <1>3, <1>4 DEF Settled, FdsOK, FdOK, IsHeader
  <2> QED
    BY <1>3, <2>1, <2>2, EndSettled
<1> QED
  BY <1>2, <1>5, StoppedEnds DEF d, t, GivenSize

\* The header of a truncated object says that it has no size.
LEMMA CutEnds ==
  ASSUME NEW s, NEW w, NEW f \in Fds, NEW id \in IxIds, Within(s, w, f, id, 0, 1), s.work.span = 0,
         Unmarked(View(s, w), id),
         NEW hdr, hdr = [s.work EXCEPT !.ix = [i \in DOMAIN @ |-> FREE]]
  PROVE  LET d == update_index_hdr(s, f, id, w, hdr, NoName, UNDEFINED_LEN)
         IN IF d.res = "OK" THEN Ends([d EXCEPT !.fds[f].size = 0]) ELSE Ends(d)
<1> DEFINE d == update_index_hdr(s, f, id, w, hdr, NoName, UNDEFINED_LEN)
           t == [d EXCEPT !.fds[f].size = 0]
           P == View(s, w)
<1>1. Busy(s, w, id) /\ s.res = "OK" /\ s.work.lu = id /\ Extent(P, id, 0, 1) /\ s.fds[f].open /\ s.fds[f].id = id
  BY DEF Within
<1>2. Sound(s) /\ w \in Pages /\ Live(s.page, w) /\ s.work.lu = s.page[w].lu /\ IsIx(id) /\ Forest(P, id)
      /\ DOMAIN s.work = PageFields
  BY <1>1 DEF Busy
<1>3. P[w] = s.work /\ Live(P, w)
  BY <1>2, ViewPage
<1>4. DOMAIN s.work.ix = Entries /\ \A e \in Entries : s.work.ix[e] = FREE
  <2>1. DOMAIN s.work.ix = Entries
    BY <1>1, <1>2, <1>3 DEF Forest, Shaped, Shape
  <2>2. \A p \in Pages : Live(P, p) => P[p].span \in Nat
    BY <1>2 DEF Forest, Shaped, Shape
  <2>3. \A e \in Entries : s.work.ix[e] = FREE
    <3> SUFFICES ASSUME NEW e \in Entries, s.work.ix[e] # FREE PROVE FALSE
      OBVIOUS
    <3>1. P[w].ix[e] \in Pages /\ EntryFor(P, w, e, P[w].ix[e])
      BY <1>1, <1>2, <1>3 DEF Forest, Refs
    <3> DEFINE q == P[w].ix[e]
    <3>2. q \in Pages /\ Live(P, q) /\ P[q].lu + IX_FLAG = id
      BY <1>1, <1>3, <3>1 DEF EntryFor
    <3>3. P[q].span < 0
      BY <1>1, <3>2 DEF Extent
    <3> HIDE DEF q, P
    <3> QED
      BY <2>2, <3>2, <3>3
  <2> QED
    BY <2>1, <2>3
<1>5. /\ DOMAIN hdr = PageFields /\ hdr.lu = s.work.lu /\ hdr.span = 0 /\ hdr.id = s.work.id
      /\ hdr.flags = s.work.flags /\ DOMAIN hdr.ix = DOMAIN s.work.ix
      /\ \A e \in Entries : hdr.ix[e] = s.work.ix[e]
  BY <1>2, <1>4 DEF PageFields
<1>6. UNDEFINED_LEN \in Nat /\ UNDEFINED_LEN # 0 /\ PageCount(UNDEFINED_LEN) = 0 /\ Length(UNDEFINED_LEN) = 0 /\ Length(0) = 0
  <2>1. (DATA_PAGE_SIZE - 1) \div DATA_PAGE_SIZE = 0
    BY SizesAssumption
  <2> QED
    BY <2>1, SizesAssumption DEF PageCount, Length, UNDEFINED_LEN
<1>7. Stopped(d) \/ HeaderPut(P, s.fds, d, id, id, UNDEFINED_LEN)
  <2> DEFINE size == UNDEFINED_LEN
             v == update_index_hdr(s, f, s.work.lu, w, hdr, NoName, size)
  <2>1. size \in Nat /\ size # 0
    BY <1>6
  <2> HIDE DEF size
  <2>2. f \in Fds => s.fds[f].open /\ s.fds[f].id = s.work.lu
    BY <1>1
  <2>3. (size # 0 => s.work.lu = id) /\ (size = 0 => s.work.lu # id /\ hdr.size = s.work.size)
    BY <1>1, <2>1
  <2>4. Stopped(v) \/ HeaderPut(View(s, w), s.fds, v, s.work.lu, id, IF size # 0 THEN size ELSE s.work.size)
    BY <1>1, <1>5, <2>1, <2>2, <2>3, PutEdited
  <2> HIDE DEF P
  <2>5. v = d
    BY <1>1 DEF size
  <2> QED
    BY <1>1, <2>1, <2>4, <2>5 DEF size, P
<1> HIDE DEF d
<1>8. CASE Stopped(d)
  <2>1. Ends(d) /\ d.res # "OK"
    BY <1>8, StoppedEnds DEF Stopped
  <2> QED
    BY <2>1 DEF d
<1>9. CASE HeaderPut(P, s.fds, d, id, id, UNDEFINED_LEN)
  <2>1. /\ Settled(d, id) /\ d.res = "OK" /\ d.pix \in Pages /\ IsHeader(d.page, d.pix) /\ d.page[d.pix].lu = id
        /\ d.page[d.pix].size = UNDEFINED_LEN /\ Extent(d.page, id, 0, 1) /\ Unmarked(d.page, id)
        /\ Told(s.fds, d.fds, "UPD", id, 0, d.pix, UNDEFINED_LEN)
    BY <1>1, <1>9 DEF HeaderPut
  <2>2. d.fds[f].id = id
    BY <1>1, <2>1 DEF Told, Follows
  <2>3. /\ Settled(t, id) /\ t.page = d.page
        /\ \A g \in Fds : /\ t.fds[g].open = d.fds[g].open /\ t.fds[g].id = d.fds[g].id
                          /\ t.fds[g].objix_hdr_pix = d.fds[g].objix_hdr_pix
                          /\ t.fds[g].size = IF g = f THEN 0 ELSE d.fds[g].size
    <3>1. (d.fds[f].open => d.fds[f].id = id) /\ 0 \in Nat
      BY <2>2
    <3>2. OtherSize(d, t, f, 0, id)
      BY <2>1, <3>1, SizeSettled
    <3> HIDE DEF t
    <3> QED
      BY <3>2 DEF OtherSize
  <2> HIDE DEF t
  <2>4. \A h \in Pages : IsHeader(t.page, h) /\ t.page[h].lu = id => h = d.pix
    BY <2>1, <2>3 DEF Settled, Forest, OneVersion, IsHeader
  <2>5. \A h \in Pages : IsHeader(t.page, h) /\ t.page[h].lu = id => Filled(t.page, h)
    BY <1>6, <2>1, <2>3, <2>4 DEF Filled, IxCount
  <2>6. ASSUME NEW g \in Fds, t.fds[g].open, t.fds[g].id = id
        PROVE  Length(t.fds[g].size) = Length(t.page[t.fds[g].objix_hdr_pix].size)
    <3>1. t.fds[g].objix_hdr_pix = d.pix
      BY <2>3, <2>4, <2>6 DEF Settled, FdsOK, FdOK
    <3>2. d.fds[g].size = UNDEFINED_LEN
      BY <1>6, <2>1, <2>3, <2>6 DEF Told, Follows
    <3> QED
      BY <1>6, <2>1, <2>3, <3>1, <3>2
  <2>7. Settled(t, 0)
    BY <2>1, <2>3, <2>5, <2>6, EndSettled
  <2>8. Ends(t)
    BY <2>7, StoppedEnds
  <2> QED
    BY <2>1, <2>8 DEF t, d
<1> QED
  BY <1>7, <1>8, <1>9

\* A call that sets its error code to what it is.
LEMMA StillBusy ==
  ASSUME NEW s, NEW w, NEW cur, Busy(s, w, cur), NEW t, Still(s, t), t.work = s.work
  PROVE  Busy(t, w, cur) /\ View(t, w) = View(s, w)
<1>1. Sound(t) /\ t.page = s.page /\ t.fds = s.fds /\ t.free_cursor = s.free_cursor
  BY AlikeSound DEF Still, Alike, Busy
<1>2. View(t, w) = View(s, w) /\ Layout(t)
  BY <1>1 DEF View, Busy, Layout, CursorOK
<1> QED
  BY <1>1, <1>2 DEF Busy

\* An error code of 0 is set to 0.
LEMMA ResStill ==
  ASSUME NEW s, Sound(s), s.res = "OK"
  PROVE  LET t == [s EXCEPT !.res = "OK"] IN Still(s, t) /\ t.work = s.work /\ t.pix = s.pix
<1>1. DOMAIN s = StateFields
  BY DEF Sound, Flash
<1> QED
  BY <1>1, ResAlike DEF Still

\* The end of a truncation: the header goes, or says that the object has no size.
LEMMA FinishTruncateEnds ==
  ASSUME NEW r, NEW f \in Fds, NEW id \in IxIds, NEW remove \in BOOLEAN, Cutting(r, f, id, 0, remove),
         remove \/ ~Fresh(r, f, id, 0, remove)
  PROVE  Ends(FinishTruncate(r, f, Length(r.s.fds[f].size), remove))
<1> DEFINE s == [r.s EXCEPT !.res = "OK"]
           w == r.pix
           size == Length(r.s.fds[f].size)
           t == FinishTruncate(r, f, size, remove)
<1>0. IxSpan(0) = 0 /\ IxCount(0) = 1 /\ 0 * DATA_PAGE_SIZE = 0 /\ Length(0) = 0 /\ IxSpan(0) + 1 = 1
  BY SizesAssumption DEF IxSpan, IxCount, Length, UNDEFINED_LEN
<1>1. CASE Broken(r)
  <2>1. t = r.s
    BY <1>1 DEF FinishTruncate, Broken
  <2> HIDE DEF t, size
  <2> QED
    BY <1>1, <2>1, StoppedEnds DEF Broken, t, size
<1>2. CASE ~Broken(r)
  <2>1. ~r.ret /\ r.span = 0 /\ r.s.res = "OK" /\ size = 0 /\ r.s.fds[f].open /\ r.s.fds[f].id = id
    BY <1>0, <1>2 DEF Cutting, Fresh, Deep, Ready, Within
  <2>2. Sound(r.s) /\ Layout(r.s)
    BY <1>2 DEF Cutting, Fresh, Deep, Ready, Within, Settled, Busy
  <2>3. Still(r.s, s) /\ s.work = r.s.work /\ s.fds = r.s.fds /\ s.page = r.s.page /\ s.res = "OK"
    BY <2>1, <2>2, ResStill DEF Still, Alike
  <2> HIDE DEF s
  <2>6. Sound(s) /\ Layout(s)
    BY <2>2, <2>3, AlikeSound DEF Still, Layout, CursorOK
  <2>4. CASE remove
    <3> DEFINE P == IF Fresh(r, f, id, 0, remove) THEN s.page ELSE View(s, w)
               d == cb_object_event(page_delete(s, w), "DEL", id, 0, w, 0)
    <3>1. /\ Forest(P, id) /\ FdsOK(s.fds, P, id) /\ Extent(P, id, 0, 1) /\ w \in Pages /\ Live(s.page, w)
          /\ Shape(s.page[w], id) /\ s.page[w].lu = id /\ s.page[w].span = 0
          /\ P[w].lu = s.page[w].lu /\ P[w].span = 0 /\ \A q \in Pages : q # w => P[q] = s.page[q]
      <4>1. CASE Fresh(r, f, id, 0, remove)
        <5>1. Ready(s, f, id, 0, 1, remove) /\ w = s.fds[f].objix_hdr_pix /\ P = s.page
          <6>1. Ready(r.s, f, id, 0, 1, remove) /\ w = s.fds[f].objix_hdr_pix
            BY <1>0, <2>3, <4>1 DEF Fresh
          <6>2. Settled(s, id)
            BY <2>3, <6>1, StillSettled DEF Ready
          <6> QED
            BY <2>3, <4>1, <6>1, <6>2 DEF Ready
        <5> HIDE DEF P, w
        <5>2. /\ Forest(P, id) /\ FdsOK(s.fds, P, id) /\ Extent(P, id, 0, 1) /\ FdOK(s.fds[f], P, id) /\ s.fds[f].id = id
          BY <5>1 DEF Ready, Settled, FdsOK
        <5>3. w \in Pages /\ Live(P, w) /\ P[w].lu = id /\ P[w].span = 0
          BY <5>1, <5>2 DEF FdOK, IsHeader
        <5> QED
          BY <5>1, <5>2, <5>3 DEF Forest, Shaped
      <4>2. CASE ~Fresh(r, f, id, 0, remove)
        <5>1. Within(s, w, f, id, 0, 1) /\ s.work.span = 0 /\ P = View(s, w)
          <6>1. Within(r.s, w, f, id, 0, 1) /\ r.s.work.span = 0
            BY <1>0, <1>2, <4>2 DEF Cutting, Deep
          <6>2. Busy(s, w, id) /\ View(s, w) = View(r.s, w)
            BY <2>3, <6>1, StillBusy DEF Within
          <6> QED
            BY <2>3, <4>2, <6>1, <6>2 DEF Within
        <5> HIDE DEF P
        <5>2. /\ Busy(s, w, id) /\ Extent(P, id, 0, 1) /\ s.work.lu = id
          BY <5>1 DEF Within
        <5>3. /\ w \in Pages /\ Live(s.page, w) /\ Shape(s.page[w], id) /\ s.work.lu = s.page[w].lu
              /\ s.work.span = s.page[w].span /\ Forest(P, id) /\ FdsOK(s.fds, P, id)
          BY <5>1, <5>2 DEF Busy
        <5>4. P[w] = s.work /\ \A q \in Pages : q # w => P[q] = s.page[q]
          BY <2>6, <5>1, <5>3, ViewPage
        <5> QED
          BY <5>1, <5>2, <5>3, <5>4
      <4> QED
        BY <4>1, <4>2
    <3> HIDE DEF P
    <3>2. d.res = "OK" /\ Ends(GivenSize(d, f, 0))
      BY <2>1, <2>3, <2>6, <3>1, RemoveEnds
    <3>3. page_index_check(s, w, 0) = s
      <4>1. w # FREE
        BY <3>1, PageRange
      <4>2. Validate(s, s.page[w], TRUE, s.page[w].span) = s
        BY <3>1, IndexPasses DEF IxIds
      <4> QED
        BY <3>1, <4>1, <4>2 DEF page_index_check
    <3>4. t = [d EXCEPT !.fds[f].size = 0]
      <4> DEFINE Delete(u) == cb_object_event(page_delete(u, w), "DEL", s.fds[f].id, 0, w, 0)
                 Done(u) == IF u.res = "OK" THEN [u EXCEPT !.fds[f].size = size] ELSE u
      <4>1. t = With(Done, Then(page_index_check(s, w, 0), Delete))
        BY <2>1, <2>4 DEF FinishTruncate, s
      <4>2. Then(s, Delete) = d
        BY <2>1, <2>3 DEF Then, With
      <4> HIDE DEF d, Delete
      <4>3. With(Done, d) = [d EXCEPT !.fds[f].size = 0]
        BY <2>1, <3>2 DEF With
      <4> HIDE DEF t, Done
      <4> QED
        BY <3>3, <4>1, <4>2, <4>3
    <3> HIDE DEF t, d, size
    <3> QED
      BY <3>2, <3>4 DEF t, size, GivenSize
  <2>5. CASE ~remove
    <3> DEFINE hdr == [s.work EXCEPT !.ix = [i \in DOMAIN @ |-> FREE]]
               d == update_index_hdr(s, f, id, w, hdr, NoName, UNDEFINED_LEN)
    <3>1. Within(s, w, f, id, 0, 1) /\ s.work.span = 0 /\ Unmarked(View(s, w), id)
      <4>1. Within(r.s, w, f, id, 0, 1) /\ r.s.work.span = 0 /\ Unmarked(View(r.s, w), id)
        BY <1>0, <1>2, <2>5 DEF Cutting, Deep
      <4>2. Busy(s, w, id) /\ View(s, w) = View(r.s, w)
        BY <2>3, <4>1, StillBusy DEF Within
      <4> QED
        BY <2>3, <4>1, <4>2 DEF Within
    <3> HIDE DEF hdr
    <3>2. IF d.res = "OK" THEN Ends([d EXCEPT !.fds[f].size = 0]) ELSE Ends(d)
      BY <3>1, CutEnds DEF hdr
    <3>3. t = IF d.res = "OK" THEN [d EXCEPT !.fds[f].size = 0] ELSE d
      <4> DEFINE Done(u) == IF u.res = "OK" THEN [u EXCEPT !.fds[f].size = size] ELSE u
      <4>1. t = With(Done, update_index_hdr(s, f, s.fds[f].id, w, [s.work EXCEPT !.ix = [i \in DOMAIN @ |-> FREE]], NoName, UNDEFINED_LEN))
        BY <2>1, <2>5 DEF FinishTruncate, s
      <4>2. t = With(Done, d)
        <5> HIDE DEF t, Done
        <5> QED
          BY <2>1, <2>3, <4>1 DEF hdr
      <4> HIDE DEF t, d
      <4> QED
        BY <2>1, <4>2 DEF With
    <3> HIDE DEF t, d, size
    <3> QED
      BY <3>2, <3>3 DEF t, size
  <2> QED
    BY <2>4, <2>5
<1> QED
  BY <1>1, <1>2

\* The loop of a truncation, from data page n - 1 to data page 0.
TruncateLoop(r, f, n) ==
  LET Step(q, span) ==
          IF ~Running(q) THEN q
          ELSE With(LAMBDA x : IF Running(x) THEN DropData(x, f, span) ELSE x,
                    IF IxSpan(span) = q.prev THEN q
                    ELSE SwitchTruncate(q, f, IxSpan(span), q.s.fds[f].size))
  IN Fold(Step, r, [k \in 1 .. n |-> n - k])

\* The loop of a truncation ends with no data page left, or because no page was free.
LEMMA TruncateLoopEnds ==
  ASSUME NEW r, NEW f \in Fds, NEW id \in IxIds, NEW n \in Nat, NEW remove, Cutting(r, f, id, n, remove)
  PROVE  LET q == TruncateLoop(r, f, n)
         IN Cutting(q, f, id, 0, remove) /\ (n # 0 => ~Fresh(q, f, id, 0, remove))
<1> DEFINE Op(q, span) == TruncateStep(q, span, f)
           seq == [k \in 1 .. n |-> n - k]
           Is(g, m) == g = [k \in 0 .. m |-> IF k = 0 THEN r ELSE Op(g[k - 1], seq[k])]
           after == CHOOSE g : Is(g, n)
<1>0. Len(seq) = n /\ \A k \in 1 .. n : seq[k] = n - k
  OBVIOUS
<1>1. TruncateLoop(r, f, n) = after[n]
  BY <1>0 DEF TruncateLoop, Fold, TruncateStep
<1> HIDE DEF Op, seq
<1>2. \E g : Is(g, n)
  <2> DEFINE G == {m \in 0 .. n : \E g : Is(g, m)}
  <2>1. 0 \in G
    <3>1. Is([k \in 0 .. 0 |-> r], 0)
      OBVIOUS
    <3> HIDE DEF Is
    <3>2. \E g : Is(g, 0)
      BY <3>1
    <3> QED
      BY <3>2
  <2>2. ASSUME NEW m \in 1 .. n, m - 1 \in G PROVE m \in G
    <3>1. PICK g : Is(g, m - 1)
      BY <2>2
    <3> DEFINE h == [k \in 0 .. m |-> IF k = m THEN Op(g[m - 1], seq[m]) ELSE g[k]]
    <3>2. Is(h, m)
      BY <3>1
    <3> HIDE DEF h, Is
    <3>3. \E x : Is(x, m)
      BY <3>2
    <3> QED
      BY <3>3
  <2> HIDE DEF G
  <2>3. \A m \in 0 .. n : m \in G
    BY <2>1, <2>2, Steps
  <2> QED
    BY <2>3 DEF G
<1>3. Is(after, n)
  BY <1>2
<1> HIDE DEF after
<1> DEFINE Good(q, k) == DOMAIN q = LoopFields /\ (Broken(q) \/ Deep(q, f, id, n - k, remove))
           G == {k \in 0 .. n : Cutting(after[k], f, id, n - k, remove) /\ (k # 0 => Good(after[k], k))}
<1>4. 0 \in G
  BY <1>3
<1>5. ASSUME NEW k \in 1 .. n, k - 1 \in G PROVE k \in G
  <2> DEFINE j == n - k
  <2>1. j \in Nat /\ n - (k - 1) = j + 1
    OBVIOUS
  <2>2. Cutting(after[k - 1], f, id, j + 1, remove)
    BY <1>5, <2>1
  <2>3. after[k] = Op(after[k - 1], j)
    BY <1>0, <1>3
  <2> HIDE DEF j
  <2>4. LET q == TruncateStep(after[k - 1], j, f) IN DOMAIN q = LoopFields /\ (Broken(q) \/ Deep(q, f, id, j, remove))
    BY <2>1, <2>2, TruncateStepOn
  <2>5. DOMAIN after[k] = LoopFields /\ (Broken(after[k]) \/ Deep(after[k], f, id, j, remove))
    BY <2>3, <2>4 DEF Op
  <2> QED
    BY <2>5 DEF Cutting, j
<1> HIDE DEF G
<1>6. \A k \in 0 .. n : k \in G
  BY <1>4, <1>5, Steps
<1>7. Cutting(after[n], f, id, 0, remove) /\ (n # 0 => Good(after[n], n))
  BY <1>6 DEF G
<1>8. Good(after[n], n) => ~Fresh(after[n], f, id, 0, remove)
  <2>1. n - n = 0 /\ IxSpan(0) \in Nat
    BY SpanType
  <2> QED
    BY <2>1 DEF Broken, Fresh, Deep
<1> QED
  BY <1>1, <1>7, <1>8

\* The header of a file that goes says so, in place.
LEMMA MarkReady ==
  ASSUME NEW s, NEW id \in IxIds, Settled(s, id), s.res = "OK", NEW p \in Pages, IsHeader(s.page, p), s.page[p].lu = id,
         NEW n, NEW m, Extent(s.page, id, n, m)
  PROVE  LET t == write(s, p, {}, [s.page[p] EXCEPT !.flags = @ \union {"USED", "INDEX", "FINAL", "IXDELE"}])
         IN Settled(t, id) /\ t.res = "OK" /\ t.fds = s.fds /\ Extent(t.page, id, n, m)
<1> DEFINE pg == [s.page[p] EXCEPT !.flags = @ \union {"USED", "INDEX", "FINAL", "IXDELE"}]
           t == write(s, p, {}, pg)
           P == s.page
           Q == t.page
<1>1. Sound(s) /\ Layout(s) /\ Live(P, p) /\ DOMAIN P[p] = PageFields /\ P[p].span = 0 /\ Forest(P, id) /\ FdsOK(s.fds, P, id)
      /\ DOMAIN P = Pages
  BY DEF Settled, IsHeader, Sound, Flash, PageOK
<1>2. Shape(P[p], id)
  BY <1>1 DEF Forest, Shaped
<1>3. /\ DOMAIN pg = PageFields /\ pg.lu = id /\ pg.span = 0 /\ pg.ix = P[p].ix /\ pg.size = P[p].size
      /\ pg.id = P[p].id /\ pg.flags = P[p].flags \union {"USED", "INDEX", "FINAL", "IXDELE"}
  BY <1>1 DEF PageFields
<1> HIDE DEF pg
<1>4. Rewritten(s, t, p, pg)
  BY <1>1, <1>3, Rewrite
<1> HIDE DEF t
<1>5. /\ Sound(t) /\ Layout(t) /\ Q = [P EXCEPT ![p] = pg] /\ t.fds = s.fds /\ t.res = s.res
  BY <1>4 DEF Rewritten
<1>6. Q[p] = pg /\ (\A q \in Pages : q # p => Q[q] = P[q]) /\ Live(Q, p)
  BY <1>1, <1>3, <1>5 DEF Live
<1> HIDE DEF P, Q
<1>7. Shape(pg, id)
  <2>1. P[p].lu = id /\ IsIx(id)
    BY DEF P, IxIds
  <2> QED
    BY <1>1, <1>2, <1>3, <2>1 DEF Shape
<1>8. Renamed(P, Q, p, p, id)
  <2>1. \A q \in Pages : q # p => (Live(Q, q) <=> Live(P, q))
    BY <1>6 DEF Live
  <2>2. Alt(P[p], Q[p], p, p, id)
    BY <1>1, <1>3, <1>6, <1>7 DEF Alt, P
  <2>3. \A q \in Pages : q # p /\ Live(P, q) => Alt(P[q], Q[q], p, p, id)
    BY <1>1, <1>6 DEF Alt, Forest, Shaped
  <2> QED
    BY <1>1, <1>6, <2>1, <2>2, <2>3 DEF Renamed
<1>9. Forest(Q, id) /\ Extent(Q, id, n, m)
  BY <1>1, <1>8, RenameForest, RenameExtent DEF P
<1>10. FdsOK(s.fds, Q, id)
  <2>1. IxStay(P, Q, id)
    <3>1. Live(P, p)
      BY <1>1
    <3>2. Q[p].lu = P[p].lu /\ Q[p].span = P[p].span /\ Q[p].size = P[p].size
      BY <1>1, <1>3, <1>6 DEF P
    <3>3. \A q \in Pages : q # p => Q[q] = P[q] /\ (Live(Q, q) <=> Live(P, q))
      BY <1>6 DEF Live
    <3> QED
      BY <1>6, <3>1, <3>2, <3>3 DEF IxStay
  <2> QED
    BY <1>1, <2>1, FdsStay
<1> QED
  BY <1>5, <1>9, <1>10 DEF Settled, t, Q, pg

\* A size and the data pages it takes.
LEMMA PagesOfSize ==
  ASSUME NEW a \in Nat
  PROVE  /\ Length(a) \in Nat /\ PageCount(a) \in Nat /\ IxCount(PageCount(a)) \in Nat \ {0}
         /\ PageCount(a) = 0 <=> Length(a) = 0
         /\ \A b \in Nat : Length(b) = Length(a) => PageCount(b) = PageCount(a)
<1>1. DATA_PAGE_SIZE \in Nat \ {0} BY SizesAssumption
<1>2. Length(a) \in Nat BY DEF Length, UNDEFINED_LEN
<1>3. PageCount(a) \in Nat BY <1>1, <1>2 DEF PageCount
<1>4. PageCount(a) = 0 <=> Length(a) = 0 BY <1>1, <1>2 DEF PageCount
<1>5. IxCount(PageCount(a)) \in Nat \ {0}
  <2>1. CASE PageCount(a) = 0 BY <2>1 DEF IxCount
  <2>2. CASE PageCount(a) # 0
    <3>1. PageCount(a) - 1 \in Nat BY <1>3, <2>2
    <3>2. IxSpan(PageCount(a) - 1) \in Nat BY <3>1, SpanType
    <3> QED BY <3>2, <2>2 DEF IxCount
  <2> QED BY <2>1, <2>2
<1>6. \A b \in Nat : Length(b) = Length(a) => PageCount(b) = PageCount(a) BY DEF PageCount
<1> QED BY <1>2, <1>3, <1>4, <1>5, <1>6

\* An open descriptor knows how many pages its object has.
LEMMA FdExtent ==
  ASSUME NEW s, Settled(s, 0), NEW f \in Fds, s.fds[f].open
  PROVE  LET n == PageCount(s.fds[f].size)
         IN /\ s.fds[f].id \in IxIds /\ s.fds[f].size \in Nat /\ n \in Nat
            /\ s.fds[f].objix_hdr_pix \in Pages /\ IsHeader(s.page, s.fds[f].objix_hdr_pix)
            /\ s.page[s.fds[f].objix_hdr_pix].lu = s.fds[f].id
            /\ s.page[s.fds[f].objix_hdr_pix].size \in Nat \ {0}
            /\ Length(s.page[s.fds[f].objix_hdr_pix].size) = Length(s.fds[f].size)
            /\ Extent(s.page, s.fds[f].id, n, IxCount(n))
<1> DEFINE d == s.fds[f]  h == d.objix_hdr_pix
<1>1. FdOK(d, s.page, 0) BY DEF Settled, FdsOK
<1>2. d.id \in IxIds /\ h \in Pages /\ IsHeader(s.page, h) /\ s.page[h].lu = d.id /\ d.size \in Nat
  BY <1>1 DEF FdOK
<1>3. d.id # 0 BY <1>2, LiveId DEF IxIds
<1>4. Length(d.size) = Length(s.page[h].size) BY <1>1, <1>3 DEF FdOK
<1>5. Filled(s.page, h) BY <1>2, <1>3 DEF Settled, Forest, Sized
<1>6. s.page[h].size \in Nat \ {0} /\ Extent(s.page, d.id, PageCount(s.page[h].size), IxCount(PageCount(s.page[h].size)))
  BY <1>5, <1>2 DEF Filled
<1>7. PageCount(s.page[h].size) = PageCount(d.size) BY <1>4, <1>2, <1>6, PagesOfSize
<1>8. PageCount(d.size) \in Nat BY <1>2, PagesOfSize
<1> QED BY <1>2, <1>4, <1>6, <1>7, <1>8

\* The work of a truncation after spiffs_gc_check has made room.
Marked(t, f, remove) ==
  IF remove
  THEN LET p == t.fds[f].objix_hdr_pix
       IN write(t, p, {}, [t.page[p] EXCEPT !.flags = @ \union {"USED", "INDEX", "FINAL", "IXDELE"}])
  ELSE t

TruncateRun(t, f, remove) ==
  LET q == TruncateLoop(Loop(Marked(t, f, remove), f), f, PageCount(t.fds[f].size))
  IN FinishTruncate(q, f, Length(q.s.fds[f].size), remove)

\* The loop of spiffs_object_truncate is the one above.
LEMMA TruncateSame ==
  ASSUME NEW s, NEW f, NEW remove \in BOOLEAN
  PROVE  object_truncate(s, f, remove) =
           LET g == gc_check(s, IF remove THEN 0 ELSE DATA_PAGE_SIZE)
           IN IF g.res = "OK" THEN TruncateRun(g, f, remove) ELSE g
BY DEF object_truncate, TruncateRun, TruncateLoop, Then, With, Marked

\* A truncation of an object with a descriptor: its pages go, and then its header goes or
\* says that it has no size.
LEMMA TruncateRunEnds ==
  ASSUME NEW t, Settled(t, 0), t.res = "OK", NEW f \in Fds, t.fds[f].open, NEW remove \in BOOLEAN,
         remove \/ Length(t.fds[f].size) > 0
  PROVE  Ends(TruncateRun(t, f, remove))
<1> DEFINE id == t.fds[f].id  p == t.fds[f].objix_hdr_pix  n == PageCount(t.fds[f].size)
           m == Marked(t, f, remove)  l == Loop(m, f)  q == TruncateLoop(l, f, n)
<1>1. /\ id \in IxIds /\ n \in Nat /\ p \in Pages /\ IsHeader(t.page, p) /\ t.page[p].lu = id
      /\ Extent(t.page, id, n, IxCount(n)) /\ t.fds[f].size \in Nat
  BY FdExtent
<1>2. n = 0 <=> Length(t.fds[f].size) = 0 BY <1>1, PagesOfSize
<1>3. Settled(t, id) /\ Unmarked(t.page, id) BY <1>1, BeginSettled
<1>4. /\ Settled(m, id) /\ m.res = "OK" /\ m.fds = t.fds /\ Extent(m.page, id, n, IxCount(n))
      /\ remove \/ Unmarked(m.page, id)
  <2>1. CASE remove
    <3>1. m = write(t, p, {}, [t.page[p] EXCEPT !.flags = @ \union {"USED", "INDEX", "FINAL", "IXDELE"}])
      BY <2>1 DEF Marked
    <3>2. \E k : k = IxCount(n) OBVIOUS
    <3>3. PICK k : k = IxCount(n) BY <3>2
    <3>4. Extent(t.page, id, n, k) BY <1>1, <3>3
    <3> HIDE DEF m, n, id, p
    <3>5. Settled(m, id) /\ m.res = "OK" /\ m.fds = t.fds /\ Extent(m.page, id, n, k)
      BY <3>1, <3>4, <1>1, <1>3, MarkReady
    <3> QED BY <3>3, <3>5, <2>1
  <2>2. CASE ~remove
    <3>1. m = t BY <2>2 DEF Marked
    <3> HIDE DEF m
    <3> QED BY <3>1, <1>1, <1>3
  <2> QED BY <2>1, <2>2
<1> HIDE DEF m
<1>5. /\ l.s = m /\ l.span = 0 /\ l.prev = -1 /\ l.pix = m.fds[f].objix_hdr_pix /\ l.ret = FALSE
      /\ DOMAIN l = LoopFields
  BY DEF Loop, LoopFields
<1> HIDE DEF l
<1>6. Ready(l.s, f, id, n, IxCount(n), remove) BY <1>1, <1>4, <1>5 DEF Ready
<1>7. Fresh(l, f, id, n, remove) BY <1>2, <1>4, <1>5, <1>6 DEF Fresh
<1>8. Cutting(l, f, id, n, remove) BY <1>5, <1>7 DEF Cutting
<1>9. Cutting(q, f, id, 0, remove) /\ (n # 0 => ~Fresh(q, f, id, 0, remove))
  <2> HIDE DEF id, n
  <2> QED BY <1>1, <1>8, TruncateLoopEnds
<1>10. TruncateRun(t, f, remove) = FinishTruncate(q, f, Length(q.s.fds[f].size), remove) BY DEF TruncateRun, l, m
<1>11. remove \/ ~Fresh(q, f, id, 0, remove)
  <2>1. remove \/ n # 0
    <3>1. Length(t.fds[f].size) > 0 => Length(t.fds[f].size) # 0 BY <1>1, PagesOfSize
    <3> QED BY <3>1, <1>2
  <2> QED BY <2>1, <1>9
<1> HIDE DEF id, n, q
<1> QED BY <1>1, <1>9, <1>10, <1>11, FinishTruncateEnds

\* What the collector keeps of an open descriptor.
LEMMA GcFd ==
  ASSUME NEW s, NEW t, GcDone(s, t), NEW f \in Fds, s.fds[f].open
  PROVE  Stopped(t) \/ (/\ Settled(t, 0) /\ t.starved = s.starved /\ t.fds[f].open /\ t.fds[f].id = s.fds[f].id
                        /\ Length(t.fds[f].size) = Length(s.fds[f].size))
BY DEF GcDone, Kin

\* spiffs_object_truncate to size 0, and removal.
LEMMA TruncateEnds ==
  ASSUME NEW s, Settled(s, 0), s.res = "OK", 0 \notin Fds, NEW f \in Fds, s.fds[f].open,
         NEW remove \in BOOLEAN, remove \/ Length(s.fds[f].size) > 0
  PROVE  Ends(object_truncate(s, f, remove))
<1> DEFINE len == IF remove THEN 0 ELSE DATA_PAGE_SIZE  g == gc_check(s, len)
<1>1. GcDone(s, g) BY GcCheckTidy
<1>2. object_truncate(s, f, remove) = IF g.res = "OK" THEN TruncateRun(g, f, remove) ELSE g
  BY TruncateSame
<1> HIDE DEF g, len
<1>3. Stopped(g) \/ (Settled(g, 0) /\ g.fds[f].open /\ Length(g.fds[f].size) = Length(s.fds[f].size))
  BY <1>1, GcFd
<1>4. CASE g.res # "OK" BY <1>2, <1>3, <1>4, StoppedEnds
<1>5. CASE g.res = "OK"
  <2>1. ~Stopped(g) BY <1>5 DEF Stopped
  <2>2. Settled(g, 0) /\ g.fds[f].open /\ Length(g.fds[f].size) = Length(s.fds[f].size) BY <2>1, <1>3
  <2>3. remove \/ Length(g.fds[f].size) > 0 BY <2>2
  <2>4. Ends(TruncateRun(g, f, remove)) BY <1>5, <2>2, <2>3, TruncateRunEnds
  <2> QED BY <2>4, <1>2, <1>5
<1> QED BY <1>4, <1>5

\* A call that opens a file by its header and truncates it: SPIFFS_open with SPIFFS_TRUNC,
\* and SPIFFS_remove.
LEMMA ThroughEnds ==
  ASSUME NEW s, Settled(s, 0), s.res = "OK", 0 \notin Fds, NEW p \in Pages, IsHeader(s.page, p), NEW f \in Fds,
         NEW remove \in BOOLEAN, remove \/ s.page[p].size # UNDEFINED_LEN
  PROVE  LET t == object_open_by_page(s, p, f)
         IN Ends(Opened(IF t.res = "OK" THEN object_truncate(t, f, remove) ELSE t, f))
<1> DEFINE t == object_open_by_page(s, p, f)  u == IF t.res = "OK" THEN object_truncate(t, f, remove) ELSE t
<1>1. Opens(s, t, p, f) BY OpenSettled
<1>2. s.page[p].size \in Nat \ {0}
  <2>1. s.page[p].lu # 0 BY LiveId DEF Settled, Forest, Shaped, Shape, IsHeader
  <2>2. Filled(s.page, p) BY <2>1 DEF Settled, Forest, Sized
  <2> QED BY <2>2 DEF Filled
<1> HIDE DEF t
<1>3. Settled(t, 0) /\ t.fds[f].open /\ t.fds[f].size = s.page[p].size BY <1>1 DEF Opens
<1>4. remove \/ Length(t.fds[f].size) > 0 BY <1>2, <1>3 DEF Length
<1>5. Ends(u)
  <2>1. CASE t.res = "OK" BY <2>1, <1>3, <1>4, TruncateEnds
  <2>2. CASE t.res # "OK" BY <2>2, <1>3, StoppedEnds
  <2> QED BY <2>1, <2>2
<1> HIDE DEF u
<1>6. Ends(Opened(u, f)) BY <1>5, OpenedEnds
<1> QED BY <1>6 DEF u, t

\* SPIFFS_open of a file that is there.
LEMMA FoundEnds ==
  ASSUME NEW s, Settled(s, 0), NEW p \in Pages, IsHeader(s.page, p), NEW f \in Fds
  PROVE  Ends(Opened(object_open_by_page(s, p, f), f))
<1> DEFINE t == object_open_by_page(s, p, f)
<1>1. Opens(s, t, p, f) BY OpenSettled
<1>2. Ends(t) BY <1>1, StoppedEnds DEF Opens
<1> HIDE DEF t
<1>3. Ends(Opened(t, f)) BY <1>2, OpenedEnds
<1> QED BY <1>3 DEF t

================================================================================
