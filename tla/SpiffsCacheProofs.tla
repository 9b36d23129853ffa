--------------------------- MODULE SpiffsCacheProofs ---------------------------
(***************************************************************************)
(* Proofs about the cache of SPIFFS, and that the file calls with the      *)
(* cache keep the promises of module Files: what is stored, with what is   *)
(* cached laid over it, is a file that every descriptor reads and writes   *)
(* at once.                                                                *)
(***************************************************************************)
EXTENDS SpiffsCache, Indices, SequenceTheorems

USE CacheAssumption DEF NoPage

(* ---------------------------- the pages of the cache --------------------*)

Slots == 1 .. cpage_count
CopyPage == [type : {"RD"}, pix : Pages, current : BOOLEAN]
WritePage == [type : {"WR"}, obj_id : Ids, offset : Nat, data : Seq(Nat)]
CacheType ==
  [cpages : [Slots -> {Free} \union CopyPage \union WritePage],
   older  : SUBSET (Slots \X Slots),
   newest : Slots \union {NoPage}]

(* The accesses to the read pages are ordered, and no flash page has two   *)
(* copies.                                                                 *)
OrderInv(c) ==
  /\ \A i, j \in Slots : <<i, j>> \in c.older => i \in ReadPages(c) /\ j \in ReadPages(c)
  /\ \A i \in Slots : <<i, i>> \notin c.older
  /\ \A i, j, k \in Slots : <<i, j>> \in c.older /\ <<j, k>> \in c.older => <<i, k>> \in c.older
CopiesInv(c) ==
  \A i, j \in ReadPages(c) : c.cpages[i].pix = c.cpages[j].pix => i = j
CacheInv(c) == c \in CacheType /\ OrderInv(c) /\ CopiesInv(c)

CurrentInv(c) == \A i \in ReadPages(c) : c.cpages[i].current

(* What is written and not in its file yet is the same in both.            *)
SameWrites(c, d) ==
  \A i \in Slots : c.cpages[i].type = "WR" \/ d.cpages[i].type = "WR" => c.cpages[i] = d.cpages[i]

(* The pages of a cache, and which of them are of what kind.               *)
LEMMA PageKinds ==
  ASSUME NEW c \in CacheType
  PROVE  /\ DOMAIN c.cpages = Slots
         /\ ReadPages(c) = {i \in Slots : c.cpages[i].type = "RD"}
         /\ WritePages(c) = {i \in Slots : c.cpages[i].type = "WR"}
         /\ Busy(c) = ReadPages(c) \union WritePages(c)
         /\ \A i \in Slots :
              /\ c.cpages[i].type \in {"free", "RD", "WR"}
              /\ c.cpages[i].type = "free" => c.cpages[i] = Free
              /\ c.cpages[i].type = "RD" => c.cpages[i] \in CopyPage
              /\ c.cpages[i].type = "WR" => c.cpages[i] \in WritePage
<1>1. c.cpages \in [Slots -> {Free} \union CopyPage \union WritePage]
  BY DEF CacheType
<1>2. ASSUME NEW i \in Slots
      PROVE  /\ c.cpages[i].type \in {"free", "RD", "WR"}
             /\ c.cpages[i].type = "free" => c.cpages[i] = Free
             /\ c.cpages[i].type = "RD" => c.cpages[i] \in CopyPage
             /\ c.cpages[i].type = "WR" => c.cpages[i] \in WritePage
  <2>1. c.cpages[i] \in {Free} \union CopyPage \union WritePage
    BY <1>1
  <2>2. CASE c.cpages[i] = Free
    BY <2>2 DEF Free
  <2>3. CASE c.cpages[i] \in CopyPage
    BY <2>3 DEF CopyPage
  <2>4. CASE c.cpages[i] \in WritePage
    BY <2>4 DEF WritePage
  <2> QED
    BY <2>1, <2>2, <2>3, <2>4
<1>3. DOMAIN c.cpages = Slots
  BY <1>1
<1> HIDE DEF Slots
<1> QED
  BY <1>2, <1>3 DEF ReadPages, WritePages, Busy

(* Pages that are freed leave the others as they are, and their order.     *)
LEMMA FreedInv ==
  ASSUME NEW c, CacheInv(c), NEW pages
  PROVE  /\ CacheInv(Freed(c, pages))
         /\ \A i \in Slots : Freed(c, pages).cpages[i] = IF i \in pages THEN Free ELSE c.cpages[i]
         /\ ReadPages(Freed(c, pages)) = ReadPages(c) \ pages
         /\ WritePages(Freed(c, pages)) = WritePages(c) \ pages
         /\ Freed(c, pages).older \subseteq c.older
<1> DEFINE d == Freed(c, pages)
<1>1. c \in CacheType /\ OrderInv(c) /\ CopiesInv(c)
  BY DEF CacheInv
<1>2. DOMAIN c.cpages = Slots
  BY <1>1, PageKinds
<1>3. /\ d.cpages = [i \in Slots |-> IF i \in pages THEN Free ELSE c.cpages[i]]
      /\ d.older = {p \in c.older : p[1] \notin pages /\ p[2] \notin pages}
      /\ d.newest = IF c.newest \in pages THEN NoPage ELSE c.newest
      /\ d = [cpages |-> d.cpages, older |-> d.older, newest |-> d.newest]
  BY <1>2 DEF Freed
<1> HIDE DEF d
<1>4. \A i \in Slots : d.cpages[i] = IF i \in pages THEN Free ELSE c.cpages[i]
  BY <1>3
<1>5. d.cpages \in [Slots -> {Free} \union CopyPage \union WritePage]
  BY <1>1, <1>3 DEF CacheType
<1>6. d.older \subseteq c.older /\ d.older \in SUBSET (Slots \X Slots)
  BY <1>1, <1>3 DEF CacheType
<1>7. d.newest \in Slots \union {NoPage}
  BY <1>1, <1>3 DEF CacheType
<1>8. d \in CacheType
  BY <1>3, <1>5, <1>6, <1>7 DEF CacheType
<1>9. ReadPages(d) = ReadPages(c) \ pages /\ WritePages(d) = WritePages(c) \ pages
  <2>1. Free.type = "free"
    BY DEF Free
  <2> QED
    BY <1>1, <1>4, <1>8, <2>1, PageKinds
<1>10. OrderInv(d)
  <2>1. \A i, j \in Slots : <<i, j>> \in d.older <=> <<i, j>> \in c.older /\ i \notin pages /\ j \notin pages
    BY <1>3
  <2> QED
    BY <1>1, <1>9, <2>1 DEF OrderInv
<1>11. CopiesInv(d)
  <2>1. ReadPages(d) \subseteq Slots
    BY <1>8, PageKinds
  <2> QED
    BY <1>1, <1>4, <1>9, <2>1 DEF CopiesInv
<1> QED
  BY <1>4, <1>6, <1>8, <1>9, <1>10, <1>11 DEF CacheInv, d

(* An access to a read page makes it the newest and changes no page.       *)
LEMMA TouchInv ==
  ASSUME NEW c, CacheInv(c), NEW i \in ReadPages(c)
  PROVE  /\ CacheInv(Touch(c, i))
         /\ Touch(c, i).cpages = c.cpages
<1> DEFINE d == Touch(c, i)
<1>1. c \in CacheType /\ OrderInv(c) /\ CopiesInv(c)
  BY DEF CacheInv
<1>2. /\ d.cpages = c.cpages
      /\ d.older = {p \in c.older : p[1] # i} \union ((ReadPages(c) \ {i}) \X {i})
      /\ d.newest = i
      /\ d = [cpages |-> d.cpages, older |-> d.older, newest |-> d.newest]
  <2>1. c = [cpages |-> c.cpages, older |-> c.older, newest |-> c.newest]
    BY <1>1 DEF CacheType
  <2> DEFINE order == {p \in c.older : p[1] # i} \union ((ReadPages(c) \ {i}) \X {i})
  <2>2. d = [c EXCEPT !.older = order, !.newest = i]
    BY DEF Touch
  <2> HIDE DEF order, d
  <2>3. d = [cpages |-> c.cpages, older |-> order, newest |-> i]
    BY <2>1, <2>2
  <2> QED
    BY <2>3 DEF order
<1> HIDE DEF d
<1>3. ReadPages(c) \subseteq Slots /\ ReadPages(d) = ReadPages(c)
  BY <1>1, <1>2, PageKinds DEF ReadPages
<1>4. d \in CacheType
  <2>1. d.older \in SUBSET (Slots \X Slots)
    BY <1>1, <1>2, <1>3 DEF CacheType
  <2>2. d.newest \in Slots
    BY <1>2, <1>3
  <2> QED
    BY <1>1, <1>2, <2>1, <2>2 DEF CacheType
<1>5. OrderInv(d)
  <2>1. \A j, k \in Slots : <<j, k>> \in d.older <=>
            \/ <<j, k>> \in c.older /\ j # i
            \/ j \in ReadPages(c) /\ j # i /\ k = i
    BY <1>2
  <2>2. \A j, k \in Slots : <<j, k>> \in d.older => j \in ReadPages(d) /\ k \in ReadPages(d)
    BY <1>1, <1>3, <2>1 DEF OrderInv
  <2>3. \A j \in Slots : <<j, j>> \notin d.older
    BY <1>1, <2>1 DEF OrderInv
  <2>4. \A j, k, l \in Slots : <<j, k>> \in d.older /\ <<k, l>> \in d.older => <<j, l>> \in d.older
    BY <1>1, <2>1 DEF OrderInv
  <2> QED
    BY <2>2, <2>3, <2>4 DEF OrderInv
<1>6. CopiesInv(d)
  BY <1>1, <1>2, <1>3 DEF CopiesInv
<1> QED
  BY <1>2, <1>4, <1>5, <1>6 DEF CacheInv, d

(* A page of its own is never full: a cache that is full gives up its      *)
(* oldest read page, as long as there is one that is not the last accessed.*)
LEMMA RemoveOldestInv ==
  ASSUME NEW c, CacheInv(c)
  PROVE  /\ CacheInv(cache_page_remove_oldest(c))
         /\ SameWrites(c, cache_page_remove_oldest(c))
         /\ \A i \in Slots : i \in ReadPages(cache_page_remove_oldest(c)) =>
                 cache_page_remove_oldest(c).cpages[i] = c.cpages[i]
         /\ c.newest = NoPage /\ ReadPages(c) # {} => ~Full(cache_page_remove_oldest(c))
<1> DEFINE d == cache_page_remove_oldest(c)
<1>1. c \in CacheType /\ OrderInv(c) /\ CopiesInv(c)
  BY DEF CacheInv
<1>2. DOMAIN c.cpages = Slots /\ ReadPages(c) \subseteq Slots
  BY <1>1, PageKinds
<1>3. CASE ~Full(c)
  <2>1. d = c
    BY <1>3 DEF cache_page_remove_oldest
  <2> QED
    BY <1>3, <2>1 DEF SameWrites
<1>4. CASE Full(c)
  <2>1. d = Freed(c, Oldest(c))
    BY <1>4 DEF cache_page_remove_oldest
  <2>2. Oldest(c) \subseteq ReadPages(c)
    BY DEF Oldest
  <2> HIDE DEF d
  <2>3. /\ CacheInv(d)
        /\ \A i \in Slots : d.cpages[i] = IF i \in Oldest(c) THEN Free ELSE c.cpages[i]
        /\ ReadPages(d) = ReadPages(c) \ Oldest(c)
        /\ WritePages(d) = WritePages(c)
    <3>1. WritePages(c) \ Oldest(c) = WritePages(c)
      BY <1>1, <2>2, PageKinds
    <3>2. CacheInv(Freed(c, Oldest(c)))
      BY FreedInv
    <3>3. \A i \in Slots : Freed(c, Oldest(c)).cpages[i] = IF i \in Oldest(c) THEN Free ELSE c.cpages[i]
      BY FreedInv
    <3>4. /\ ReadPages(Freed(c, Oldest(c))) = ReadPages(c) \ Oldest(c)
          /\ WritePages(Freed(c, Oldest(c))) = WritePages(c) \ Oldest(c)
      BY FreedInv
    <3> QED
      BY <2>1, <3>1, <3>2, <3>3, <3>4
  <2>4. SameWrites(c, d)
    <3>1. \A i \in Slots : c.cpages[i].type = "WR" => i \notin Oldest(c)
      BY <1>1, <2>2, PageKinds
    <3> QED
      BY <2>3, <3>1 DEF SameWrites, Free
  <2>5. ASSUME c.newest = NoPage, ReadPages(c) # {} PROVE ~Full(d)
    <3>1. ReadPages(c) \in SUBSET (1 .. cpage_count)
      BY <1>2 DEF Slots
    <3>2. PICK i \in ReadPages(c) : \A j \in ReadPages(c) : <<j, i>> \notin c.older
      <4>1. \A j \in ReadPages(c) : <<j, j>> \notin c.older
        BY <1>1, <1>2 DEF OrderInv
      <4>2. \A j, k, l \in ReadPages(c) :
              <<j, k>> \in c.older /\ <<k, l>> \in c.older => <<j, l>> \in c.older
        BY <1>1, <1>2 DEF OrderInv
      <4>3. cpage_count \in Nat
        OBVIOUS
      <4> DEFINE S == ReadPages(c)
                 below == c.older
      <4>4. S \in SUBSET (1 .. cpage_count) /\ S # {}
        BY <2>5, <3>1
      <4>5. /\ \A j \in S : <<j, j>> \notin below
            /\ \A j, k, l \in S : <<j, k>> \in below /\ <<k, l>> \in below => <<j, l>> \in below
        BY <4>1, <4>2
      <4> HIDE DEF S, below
      <4>6. \E m \in S : \A x \in S : <<x, m>> \notin below
        BY <4>3, <4>4, <4>5, FirstInOrder
      <4> QED
        BY <4>6 DEF S, below
    <3>3. i \in Oldest(c)
      BY <1>2, <2>5, <3>2 DEF Oldest, Slots
    <3>4. i \notin Busy(d) /\ i \in DOMAIN d.cpages
      BY <1>2, <2>3, <3>2, <3>3, PageKinds DEF CacheInv, Busy, Free
    <3> QED
      BY <3>4 DEF Full
  <2> QED
    BY <2>3, <2>4, <2>5, <1>2 DEF d
<1> QED
  BY <1>3, <1>4

(* The least index is the least one.                                       *)
LEMMA MinIsLeast ==
  ASSUME NEW n \in Nat, NEW S \in SUBSET (1 .. n), S # {}
  PROVE  Min(S) \in S /\ \A x \in S : Min(S) <= x
<1>1. \E m \in S : \A x \in S : m <= x
  BY LeastIndex
<1> QED
  BY <1>1 DEF Min

(* A cache that is not full has a free page to give.                       *)
LEMMA AllocateFree ==
  ASSUME NEW c \in CacheType, ~Full(c)
  PROVE  cache_page_allocate(c) \in Slots /\ c.cpages[cache_page_allocate(c)] = Free
<1> DEFINE S == DOMAIN c.cpages \ Busy(c)
<1>1. S \in SUBSET (1 .. cpage_count) /\ S # {}
  BY PageKinds DEF Full, Slots, Busy
<1>2. Min(S) \in S
  <2> HIDE DEF S
  <2>1. cpage_count \in Nat
    OBVIOUS
  <2> QED
    BY <1>1, <2>1, MinIsLeast
<1>3. \A i \in S : i \in Slots /\ c.cpages[i] = Free
  BY PageKinds DEF Busy
<1> QED
  BY <1>2, <1>3 DEF cache_page_allocate

(* A free page takes a copy of a flash page that has none.                 *)
LEMMA CopyInFree ==
  ASSUME NEW c, CacheInv(c), NEW i \in Slots, c.cpages[i] = Free, NEW page \in CopyPage,
         \A j \in ReadPages(c) : c.cpages[j].pix # page.pix
  PROVE  /\ CacheInv([c EXCEPT !.cpages[i] = page])
         /\ ReadPages([c EXCEPT !.cpages[i] = page]) = ReadPages(c) \union {i}
         /\ [c EXCEPT !.cpages[i] = page].cpages = [c.cpages EXCEPT ![i] = page]
<1> DEFINE d == [c EXCEPT !.cpages[i] = page]
<1>1. c \in CacheType /\ OrderInv(c) /\ CopiesInv(c)
  BY DEF CacheInv
<1>2. /\ d.cpages = [c.cpages EXCEPT ![i] = page]
      /\ d.older = c.older /\ d.newest = c.newest
      /\ d \in CacheType
  BY <1>1 DEF CacheType
<1>3. \A j \in Slots : d.cpages[j] = IF j = i THEN page ELSE c.cpages[j]
  BY <1>1, <1>2 DEF CacheType
<1> HIDE DEF d
<1>4. ReadPages(d) = ReadPages(c) \union {i}
  <2>1. page.type = "RD"
    BY DEF CopyPage
  <2> HIDE DEF Slots
  <2> QED
    BY <1>1, <1>2, <1>3, <2>1, PageKinds
<1>5. OrderInv(d)
  BY <1>1, <1>2, <1>4 DEF OrderInv
<1>6. CopiesInv(d)
  <2>1. ReadPages(c) \subseteq Slots /\ i \notin ReadPages(c)
    BY <1>1, PageKinds DEF Free
  <2> HIDE DEF Slots
  <2> QED
    BY <1>1, <1>3, <1>4, <2>1 DEF CopiesInv
<1> QED
  BY <1>2, <1>4, <1>5, <1>6 DEF CacheInv, d

(* A free page, or one with a cached write, takes a cached write.          *)
PutPage(c, i, page) == [c EXCEPT !.cpages[i] = page]

(* A write put into a free page, or into its own, disturbs no other page.  *)
LEMMA WriteInFree ==
  ASSUME NEW c, CacheInv(c), NEW i \in Slots, c.cpages[i] = Free \/ c.cpages[i].type = "WR",
         NEW page \in WritePage
  PROVE  LET d == PutPage(c, i, page)
         IN /\ CacheInv(d) /\ WritePages(d) = WritePages(c) \union {i}
            /\ ReadPages(d) = ReadPages(c)
            /\ \A j \in Slots : d.cpages[j] = IF j = i THEN page ELSE c.cpages[j]
<1> DEFINE d == PutPage(c, i, page)
<1>1. c \in CacheType /\ OrderInv(c) /\ CopiesInv(c)
  BY DEF CacheInv
<1>2. /\ d.cpages = [c.cpages EXCEPT ![i] = page]
      /\ d.older = c.older /\ d.newest = c.newest
      /\ d \in CacheType
  BY <1>1 DEF CacheType, PutPage
<1>3. \A j \in Slots : d.cpages[j] = IF j = i THEN page ELSE c.cpages[j]
  BY <1>1, <1>2 DEF CacheType
<1> HIDE DEF d
<1>4. ReadPages(c) \subseteq Slots /\ i \notin ReadPages(c)
  BY <1>1, PageKinds DEF Free
<1>5. ReadPages(d) = ReadPages(c) /\ WritePages(d) = WritePages(c) \union {i}
  <2>1. page.type = "WR"
    BY DEF WritePage
  <2>2. ReadPages(d) = ReadPages(c)
    <3>1. ReadPages(d) = {j \in Slots : d.cpages[j].type = "RD"}
      BY <1>2, PageKinds
    <3>2. ReadPages(c) = {j \in Slots : c.cpages[j].type = "RD"}
      BY <1>1, PageKinds
    <3>3. \A j \in Slots : d.cpages[j].type = "RD" <=> c.cpages[j].type = "RD"
      BY <1>3, <1>4, <2>1, <3>2
    <3> QED
      BY <3>1, <3>2, <3>3
  <2>3. WritePages(d) = WritePages(c) \union {i}
    BY <1>1, <1>2, <1>3, <2>1, PageKinds
  <2> QED
    BY <2>2, <2>3
<1>6. OrderInv(d)
  BY <1>1, <1>2, <1>5 DEF OrderInv
<1>7. CopiesInv(d)
  <2> HIDE DEF Slots
  <2> QED
    BY <1>1, <1>3, <1>4, <1>5 DEF CopiesInv
<1> QED
  BY <1>2, <1>3, <1>5, <1>6, <1>7 DEF CacheInv, d

(* ------------------------ reads and writes of the flash -----------------*)

(* Freeing read pages changes no cached write.                             *)
LEMMA SameWritesFreed ==
  ASSUME NEW c, CacheInv(c), NEW pages, \A i \in pages : i \in ReadPages(c)
  PROVE  SameWrites(c, Freed(c, pages))
<1>1. c \in CacheType
  BY DEF CacheInv
<1>2. \A i \in Slots : Freed(c, pages).cpages[i] = IF i \in pages THEN Free ELSE c.cpages[i]
  BY FreedInv
<1>3. \A i \in pages : c.cpages[i].type = "RD"
  BY <1>1, PageKinds
<1> QED
  BY <1>2, <1>3 DEF SameWrites, Free

(* Cached writes that stay the same twice stay the same.                   *)
LEMMA SameWritesTransitive ==
  ASSUME NEW c, NEW d, NEW e, SameWrites(c, d), SameWrites(d, e)
  PROVE  SameWrites(c, e)
BY DEF SameWrites

(* A read that finds no copy leaves no access of this count.               *)
LEMMA NewestInv ==
  ASSUME NEW c, CacheInv(c)
  PROVE  /\ CacheInv([c EXCEPT !.newest = NoPage])
         /\ [c EXCEPT !.newest = NoPage].cpages = c.cpages
         /\ [c EXCEPT !.newest = NoPage].newest = NoPage
         /\ ReadPages([c EXCEPT !.newest = NoPage]) = ReadPages(c)
<1> DEFINE d == [c EXCEPT !.newest = NoPage]
<1>1. c \in CacheType /\ OrderInv(c) /\ CopiesInv(c)
  BY DEF CacheInv
<1>2. d \in CacheType /\ d.cpages = c.cpages /\ d.older = c.older /\ d.newest = NoPage
  BY <1>1 DEF CacheType
<1> HIDE DEF d
<1>3. ReadPages(d) = ReadPages(c)
  BY <1>2 DEF ReadPages
<1>4. OrderInv(d) /\ CopiesInv(d)
  BY <1>1, <1>2, <1>3 DEF OrderInv, CopiesInv
<1> QED
  BY <1>2, <1>3, <1>4 DEF CacheInv, d

(* When the flash changes the copies stay the copies of the same pages.    *)
LEMMA OutdateInv ==
  ASSUME NEW c, CacheInv(c), CurrentInv(c), NEW pixs
  PROVE  /\ CacheInv(Outdate(c, pixs))
         /\ SameWrites(c, Outdate(c, pixs))
         /\ \A i \in ReadPages(Outdate(c, pixs)) :
               Outdate(c, pixs).cpages[i].pix \notin pixs => Outdate(c, pixs).cpages[i].current
<1> DEFINE d == Outdate(c, pixs)
<1>1. c \in CacheType /\ OrderInv(c) /\ CopiesInv(c)
  BY DEF CacheInv
<1>2. DOMAIN c.cpages = Slots
  BY <1>1, PageKinds
<1> DEFINE stale == [i \in Slots |-> IF c.cpages[i].type = "RD" /\ c.cpages[i].pix \in pixs
                                    THEN [c.cpages[i] EXCEPT !.current = FALSE] ELSE c.cpages[i]]
<1>3. d = [c EXCEPT !.cpages = stale]
  BY <1>2 DEF Outdate
<1>4. \A i \in Slots :
        /\ stale[i] = c.cpages[i]
           \/ (c.cpages[i].type = "RD" /\ c.cpages[i].pix \in pixs
               /\ stale[i] = [c.cpages[i] EXCEPT !.current = FALSE])
        /\ c.cpages[i].type = "RD" /\ c.cpages[i].pix \notin pixs => stale[i] = c.cpages[i]
  OBVIOUS
<1>5. ASSUME NEW i \in Slots
      PROVE  /\ stale[i] \in {Free} \union CopyPage \union WritePage
             /\ stale[i].type = c.cpages[i].type
             /\ c.cpages[i].type = "RD" => stale[i].pix = c.cpages[i].pix
             /\ c.cpages[i].type = "WR" => stale[i] = c.cpages[i]
  <2> HIDE DEF stale
  <2>1. CASE stale[i] = c.cpages[i]
    BY <1>1, <2>1 DEF CacheType
  <2>2. CASE c.cpages[i].type = "RD" /\ stale[i] = [c.cpages[i] EXCEPT !.current = FALSE]
    <3>1. c.cpages[i] \in CopyPage
      BY <1>1, <2>2, PageKinds
    <3>2. stale[i] \in CopyPage /\ stale[i].pix = c.cpages[i].pix
      BY <2>2, <3>1 DEF CopyPage
    <3> QED
      BY <2>2, <3>2 DEF CopyPage
  <2> QED
    BY <1>4, <2>1, <2>2
<1>6. stale \in [Slots -> {Free} \union CopyPage \union WritePage]
  BY <1>5
<1> HIDE DEF stale, d
<1>7. d \in CacheType /\ d.cpages = stale /\ d.older = c.older
  BY <1>1, <1>3, <1>6 DEF CacheType
<1>8. ReadPages(d) = ReadPages(c) /\ ReadPages(c) \subseteq Slots
  <2>1. ReadPages(d) = {j \in Slots : d.cpages[j].type = "RD"}
    BY <1>7, PageKinds
  <2>2. ReadPages(c) = {j \in Slots : c.cpages[j].type = "RD"}
    BY <1>1, PageKinds
  <2> QED
    BY <1>5, <1>7, <2>1, <2>2
<1>9. \A i \in ReadPages(c) : c.cpages[i].type = "RD" /\ d.cpages[i].pix = c.cpages[i].pix
  BY <1>1, <1>5, <1>7, <1>8, PageKinds
<1>10. CacheInv(d)
  BY <1>1, <1>7, <1>8, <1>9 DEF CacheInv, OrderInv, CopiesInv
<1>11. SameWrites(c, d)
  BY <1>5, <1>7 DEF SameWrites
<1>12. \A i \in ReadPages(d) : d.cpages[i].pix \notin pixs => d.cpages[i].current
  BY <1>4, <1>7, <1>8, <1>9 DEF CurrentInv
<1> QED
  BY <1>10, <1>11, <1>12 DEF d

(* spiffs_phys_wr leaves no outdated copy of the page it writes.           *)
LEMMA CopyKeeps ==
  ASSUME NEW c, CacheInv(c), NEW pix, NEW delete \in BOOLEAN,
         \A i \in ReadPages(c) : c.cpages[i].pix # pix => c.cpages[i].current
  PROVE  /\ CacheInv(Copy(c, pix, delete))
         /\ CurrentInv(Copy(c, pix, delete))
         /\ SameWrites(c, Copy(c, pix, delete))
<1>1. c \in CacheType /\ OrderInv(c) /\ CopiesInv(c)
  BY DEF CacheInv
<1>2. cache_page_get(c, pix) = {i \in ReadPages(c) : c.cpages[i].pix = pix}
  BY DEF cache_page_get
<1>3. ReadPages(c) \subseteq Slots
  BY <1>1, PageKinds
<1>4. CASE cache_page_get(c, pix) = {}
  <2>1. Copy(c, pix, delete) = c
    BY <1>4 DEF Copy
  <2>2. CurrentInv(c)
    BY <1>2, <1>4 DEF CurrentInv
  <2> QED
    BY <2>1, <2>2 DEF SameWrites
<1>5. CASE cache_page_get(c, pix) # {}
  <2> DEFINE i == Min(cache_page_get(c, pix))
  <2>1. i \in ReadPages(c) /\ i \in Slots /\ c.cpages[i].pix = pix
    <3>1. cpage_count \in Nat /\ cache_page_get(c, pix) \in SUBSET (1 .. cpage_count)
      BY <1>2, <1>3 DEF Slots
    <3>2. Min(cache_page_get(c, pix)) \in cache_page_get(c, pix)
      BY <1>5, <3>1, MinIsLeast
    <3> QED
      BY <1>2, <1>3, <3>2
  <2>2. \A j \in ReadPages(c) : c.cpages[j].pix = pix => j = i
    BY <1>1, <2>1 DEF CopiesInv
  <2> HIDE DEF i
  <2>3. CASE delete
    <3>1. Copy(c, pix, delete) = Freed(c, {i})
      BY <1>5, <2>3 DEF Copy, cache_page_free, i
    <3>2. CurrentInv(Freed(c, {i}))
      <4>1. ReadPages(Freed(c, {i})) = ReadPages(c) \ {i}
        BY FreedInv
      <4>2. \A j \in Slots : Freed(c, {i}).cpages[j] = IF j \in {i} THEN Free ELSE c.cpages[j]
        BY FreedInv
      <4> QED
        BY <1>3, <2>2, <4>1, <4>2 DEF CurrentInv
    <3>3. CacheInv(Freed(c, {i})) /\ SameWrites(c, Freed(c, {i}))
      BY <2>1, FreedInv, SameWritesFreed
    <3> QED
      BY <3>1, <3>2, <3>3
  <2>4. CASE ~delete
    <3> DEFINE d == [c EXCEPT !.cpages[i].current = TRUE]
               page == [c.cpages[i] EXCEPT !.current = TRUE]
    <3>1. c.cpages[i] \in CopyPage
      BY <1>1, <2>1, PageKinds
    <3>2. page \in CopyPage /\ page.current /\ page.pix = c.cpages[i].pix /\ page.type = "RD"
      BY <3>1 DEF CopyPage
    <3>3. d = [c EXCEPT !.cpages = [c.cpages EXCEPT ![i] = page]]
      BY <1>1, <2>1 DEF CacheType
    <3> HIDE DEF d, page
    <3>4. d \in CacheType /\ d.older = c.older /\ d.cpages = [c.cpages EXCEPT ![i] = page]
      BY <1>1, <2>1, <3>2, <3>3 DEF CacheType
    <3>5. \A j \in Slots : d.cpages[j] = IF j = i THEN page ELSE c.cpages[j]
      BY <1>1, <3>4 DEF CacheType
    <3>6. ReadPages(d) = ReadPages(c)
      <4>1. ReadPages(d) = {j \in Slots : d.cpages[j].type = "RD"}
        BY <3>4, PageKinds
      <4>2. ReadPages(c) = {j \in Slots : c.cpages[j].type = "RD"}
        BY <1>1, PageKinds
      <4> QED
        BY <2>1, <3>2, <3>5, <4>1, <4>2
    <3>7. CacheInv(d)
      BY <1>1, <1>3, <3>2, <3>4, <3>5, <3>6 DEF CacheInv, OrderInv, CopiesInv
    <3>8. CurrentInv(d)
      BY <1>3, <2>2, <3>2, <3>5, <3>6 DEF CurrentInv
    <3>9. SameWrites(c, d)
      <4>1. c.cpages[i].type = "RD"
        BY <3>1 DEF CopyPage
      <4> QED
        BY <3>2, <3>5, <4>1 DEF SameWrites
    <3>10. Copy(c, pix, delete) = Touch(d, i)
      BY <1>5, <2>4 DEF Copy, i, d
    <3>11. CacheInv(Touch(d, i)) /\ Touch(d, i).cpages = d.cpages
      BY <2>1, <3>6, <3>7, TouchInv
    <3>12. CurrentInv(Touch(d, i)) /\ SameWrites(c, Touch(d, i))
      BY <3>8, <3>9, <3>11 DEF CurrentInv, SameWrites, ReadPages
    <3> QED
      BY <3>10, <3>11, <3>12
  <2> QED
    BY <2>3, <2>4
<1> QED
  BY <1>4, <1>5

(* spiffs_gc_erase_block leaves no copy of a page of the block, and the    *)
(* copies of the others.                                                   *)
LEMMA EraseKeeps ==
  ASSUME NEW c, CacheInv(c), CurrentInv(c), NEW b
  PROVE  /\ CacheInv(EraseBlock(c, b))
         /\ CurrentInv(EraseBlock(c, b))
         /\ SameWrites(c, EraseBlock(c, b))
<1> DEFINE pages == UNION {cache_page_get(c, p) : p \in {q \in Pages : q \div PAGES_PER_BLOCK = b}}
<1>1. c \in CacheType
  BY DEF CacheInv
<1>2. \A i \in pages : i \in ReadPages(c)
  BY DEF cache_page_get
<1> HIDE DEF pages
<1>3. EraseBlock(c, b) = Freed(c, pages)
  BY DEF EraseBlock, pages
<1>4. CacheInv(Freed(c, pages)) /\ SameWrites(c, Freed(c, pages))
  BY <1>2, FreedInv, SameWritesFreed
<1>5. CurrentInv(Freed(c, pages))
  <2>1. ReadPages(Freed(c, pages)) = ReadPages(c) \ pages
    BY FreedInv
  <2>2. \A j \in Slots : Freed(c, pages).cpages[j] = IF j \in pages THEN Free ELSE c.cpages[j]
    BY FreedInv
  <2>3. ReadPages(c) \subseteq Slots
    BY <1>1, PageKinds
  <2> QED
    BY <2>1, <2>2, <2>3 DEF CurrentInv
<1> QED
  BY <1>3, <1>4, <1>5

(* spiffs_phys_rd keeps the copies, and finds a page for a new one unless  *)
(* all pages have cached writes.                                           *)
LEMMA ReadKeeps ==
  ASSUME CacheInv(cache), CurrentInv(cache), NEW pix \in Pages, NEW lu2 \in BOOLEAN,
         phys_rd(pix, lu2)
  PROVE  /\ CacheInv(cache') /\ CurrentInv(cache')
         /\ SameWrites(cache, cache')
         /\ ReadPages(cache) # {} \/ ~Full(cache) => ~stopped'
<1> DEFINE found == cache_page_get(cache, pix)
           c == [cache EXCEPT !.newest = NoPage]
           room == cache_page_remove_oldest(c)
           i == cache_page_allocate(room)
           page == [type |-> "RD", pix |-> pix, current |-> TRUE]
           copied == [room EXCEPT !.cpages[i] = page]
           kept == IF Full(room) THEN room ELSE Touch(copied, i)
<1>1. /\ cache' = CASE found # {} -> Touch(cache, Min(found))
                     [] found = {} /\ lu2 -> c
                     [] OTHER -> kept
      /\ stopped' = (found = {} /\ ~lu2 /\ Full(room))
  BY DEF phys_rd
<1>2. cache \in CacheType
  BY DEF CacheInv
<1>3. found = {j \in ReadPages(cache) : cache.cpages[j].pix = pix} /\ ReadPages(cache) \subseteq Slots
  BY <1>2, PageKinds DEF cache_page_get
<1>4. /\ CacheInv(c) /\ c.cpages = cache.cpages /\ c.newest = NoPage
      /\ ReadPages(c) = ReadPages(cache)
  BY NewestInv
<1> HIDE DEF c, found
<1>5. CASE found # {}
  <2>1. Min(found) \in ReadPages(cache)
    <3>1. cpage_count \in Nat /\ found \in SUBSET (1 .. cpage_count)
      BY <1>3 DEF Slots
    <3> QED
      BY <1>3, <1>5, <3>1, MinIsLeast
  <2>2. cache' = Touch(cache, Min(found))
    BY <1>1, <1>5
  <2>3. CacheInv(cache') /\ cache'.cpages = cache.cpages
    BY <2>1, <2>2, TouchInv
  <2> QED
    BY <1>1, <1>5, <2>3 DEF CurrentInv, SameWrites, ReadPages
<1>6. CASE found = {} /\ lu2
  <2>1. cache' = c /\ ~stopped'
    BY <1>1, <1>6
  <2> QED
    BY <1>4, <2>1 DEF CurrentInv, SameWrites, ReadPages
<1>7. CASE found = {} /\ ~lu2
  <2>1. /\ CacheInv(room) /\ SameWrites(c, room)
        /\ \A j \in Slots : j \in ReadPages(room) => room.cpages[j] = c.cpages[j]
        /\ ReadPages(c) # {} => ~Full(room)
    BY <1>4, RemoveOldestInv
  <2>2. ~Full(c) => room = c
    BY DEF cache_page_remove_oldest
  <2>3. Full(c) <=> Full(cache)
    BY <1>4 DEF Full, Busy
  <2> HIDE DEF kept, room
  <2>4. cache' = kept /\ (stopped' <=> Full(room))
    <3>1. cache' = kept
      BY <1>1, <1>7
    <3> QED
      BY <1>1, <1>7, <3>1, Zenon
  <2>5. room \in CacheType
    BY <2>1 DEF CacheInv
  <2>6. SameWrites(cache, room)
    BY <1>4, <2>1 DEF SameWrites
  <2>7. ReadPages(room) \subseteq ReadPages(cache) /\ ReadPages(room) \subseteq Slots
    <3>1. ReadPages(room) = {j \in Slots : room.cpages[j].type = "RD"}
      BY <2>5, PageKinds
    <3>2. ReadPages(cache) = {j \in Slots : cache.cpages[j].type = "RD"}
      BY <1>2, PageKinds
    <3> QED
      BY <1>4, <2>1, <3>1, <3>2
  <2>8. CurrentInv(room)
    BY <1>4, <2>1, <2>7 DEF CurrentInv
  <2>9. CASE Full(room)
    <3>1. kept = room
      BY <2>9 DEF kept
    <3> QED
      BY <3>1, <1>4, <2>1, <2>2, <2>3, <2>4, <2>6, <2>8, <2>9
  <2>10. CASE ~Full(room)
    <3>1. i \in Slots /\ room.cpages[i] = Free
      BY <2>5, <2>10, AllocateFree
    <3>2. page \in CopyPage /\ page.pix = pix /\ page.current
      BY DEF CopyPage
    <3>3. \A j \in ReadPages(room) : room.cpages[j].pix # page.pix
      BY <1>3, <1>4, <1>7, <2>1, <2>7, <3>2
    <3> HIDE DEF i, page
    <3>4. /\ CacheInv(copied) /\ ReadPages(copied) = ReadPages(room) \union {i}
          /\ copied.cpages = [room.cpages EXCEPT ![i] = page]
      BY <2>1, <3>1, <3>2, <3>3, CopyInFree
    <3> HIDE DEF copied
    <3>5. \A j \in Slots : copied.cpages[j] = IF j = i THEN page ELSE room.cpages[j]
      BY <2>5, <3>4 DEF CacheType
    <3>6. CurrentInv(copied)
      BY <2>7, <2>8, <3>1, <3>2, <3>4, <3>5 DEF CurrentInv
    <3>7. SameWrites(cache, copied)
      <4>1. page.type = "RD" /\ Free.type = "free"
        BY DEF page, Free
      <4> QED
        BY <2>6, <3>1, <3>5, <4>1 DEF SameWrites
    <3>8. CacheInv(Touch(copied, i)) /\ Touch(copied, i).cpages = copied.cpages
      BY <3>4, TouchInv
    <3>9. cache' = Touch(copied, i) /\ ~stopped'
      BY <2>4, <2>10 DEF kept, copied, i, page
    <3> QED
      BY <3>6, <3>7, <3>8, <3>9 DEF CurrentInv, SameWrites, ReadPages
  <2> QED
    BY <2>9, <2>10
<1> QED
  BY <1>5, <1>6, <1>7

(* ----------------------------- the file calls ---------------------------*)

FdType ==
  [open : BOOLEAN, obj_id : Ids \union {0}, fdoffset : Nat,
   flags : OpenFlags \union {{}}, cache_page : Slots \union {NoPage}]
ContentType == UNION {[D -> Seq(Nat)] : D \in SUBSET Ids}
CallType ==
  [c : CacheType, content : ContentType, fds : [Fds -> FdType], err_code : {"OK", "FULL"},
   lost : SUBSET Ids, good : Nat, failed : BOOLEAN, got : Seq(Nat)]

(* Open descriptors are of objects that are there, the cache page of a     *)
(* descriptor is one with a cached write of its object, every cached write *)
(* belongs to an open descriptor that knows it, and no object has two.     *)
OwnedInv(c, stored, fd) ==
  /\ \A f \in Fds : fd[f].open => fd[f].obj_id \in DOMAIN stored
  /\ \A f \in Fds : fd[f].cache_page # NoPage =>
        /\ fd[f].open
        /\ fd[f].cache_page \in WritePages(c)
        /\ c.cpages[fd[f].cache_page].obj_id = fd[f].obj_id
  /\ \A i \in WritePages(c) : \E f \in Fds : fd[f].open /\ fd[f].cache_page = i
  /\ \A i, j \in WritePages(c) : c.cpages[i].obj_id = c.cpages[j].obj_id => i = j

(* The invariant of a call's record, and with it of the state between calls. *)
CallInv(s) ==
  s \in CallType /\ CacheInv(s.c) /\ CurrentInv(s.c) /\ OwnedInv(s.c, s.content, s.fds)

StateInv == err_code \in {"OK", "FULL"} /\ CallInv(Current(0))

(* The stored bytes of an object are bytes.                                *)
LEMMA ContentTyped ==
  ASSUME NEW stored \in ContentType
  PROVE  /\ DOMAIN stored \in SUBSET Ids
         /\ \A id \in DOMAIN stored : stored[id] \in Seq(Nat)
         /\ stored = [id \in DOMAIN stored |-> stored[id]]
<1>1. PICK D \in SUBSET Ids : stored \in [D -> Seq(Nat)]
  BY DEF ContentType
<1> QED
  BY <1>1

(* Objects with bytes are what the flash may hold.                         *)
LEMMA ContentMade ==
  ASSUME NEW D \in SUBSET Ids, NEW stored \in [D -> Seq(Nat)]
  PROVE  stored \in ContentType
BY DEF ContentType

(* What is written of a file is a file.                                    *)
LEMMA OverwriteTyped ==
  ASSUME NEW old \in Seq(Nat), NEW offset \in Nat, NEW bytes \in Seq(Nat)
  PROVE  /\ Overwrite(old, offset, bytes) \in Seq(Nat)
         /\ Len(Overwrite(old, offset, bytes)) = Longer(offset + Len(bytes), Len(old))
         /\ Longer(offset + Len(bytes), Len(old)) \in Nat
         /\ \A i \in 1 .. Longer(offset + Len(bytes), Len(old)) :
               Overwrite(old, offset, bytes)[i] =
                 IF i > offset /\ i <= offset + Len(bytes) THEN bytes[i - offset]
                 ELSE IF i <= Len(old) THEN old[i] ELSE 255
<1> DEFINE n == Longer(offset + Len(bytes), Len(old))
           new == Overwrite(old, offset, bytes)
<1>1. Len(bytes) \in Nat /\ Len(old) \in Nat
  OBVIOUS
<1>2. n \in Nat
  BY <1>1 DEF Longer
<1>3. new = [i \in 1 .. n |->
               IF i > offset /\ i <= offset + Len(bytes) THEN bytes[i - offset]
               ELSE IF i <= Len(old) THEN old[i] ELSE 255]
  BY DEF Overwrite
<1> HIDE DEF n, new
<1>4. ASSUME NEW i \in 1 .. n
      PROVE  (IF i > offset /\ i <= offset + Len(bytes) THEN bytes[i - offset]
              ELSE IF i <= Len(old) THEN old[i] ELSE 255) \in Nat
  <2>1. i \in Nat /\ i >= 1
    BY <1>2
  <2>2. CASE i > offset /\ i <= offset + Len(bytes)
    <3>1. i - offset \in 1 .. Len(bytes)
      BY <1>1, <2>1, <2>2
    <3> QED
      BY <2>2, <3>1
  <2>3. CASE i <= Len(old)
    <3>1. i \in 1 .. Len(old)
      BY <1>1, <2>1, <2>3
    <3>2. CASE i > offset /\ i <= offset + Len(bytes)
      BY <2>2, <3>2
    <3> QED
      BY <3>1, <3>2, <2>3
  <2> QED
    BY <2>2, <2>3
<1>5. new \in [1 .. n -> Nat]
  BY <1>3, <1>4
<1>6. new \in Seq(Nat) /\ Len(new) = n
  BY <1>2, <1>5
<1> QED
  BY <1>2, <1>3, <1>6 DEF n, new

(* The cached write of an object is the one page there is of it.           *)
LEMMA ByIdKnown ==
  ASSUME NEW c \in CacheType, NEW id,
         \A i, j \in WritePages(c) : c.cpages[i].obj_id = c.cpages[j].obj_id => i = j
  PROVE  /\ \A i \in WritePages(c) : c.cpages[i].obj_id = id => cache_page_get_by_id(c, id) = i
         /\ cache_page_get_by_id(c, id) # NoPage =>
              /\ cache_page_get_by_id(c, id) \in WritePages(c)
              /\ c.cpages[cache_page_get_by_id(c, id)].obj_id = id
         /\ cache_page_get_by_id(c, id) \in Slots \union {NoPage}
         /\ \A i \in WritePages(c) : i \in Slots /\ i # NoPage
<1> DEFINE own == {i \in WritePages(c) : c.cpages[i].obj_id = id}
<1>1. cache_page_get_by_id(c, id) = IF own = {} THEN NoPage ELSE Min(own)
  BY DEF cache_page_get_by_id
<1>2. \A i \in WritePages(c) : i \in Slots /\ i # NoPage
  BY PageKinds DEF Slots
<1>3. own # {} => Min(own) \in own
  <2>1. cpage_count \in Nat /\ own \in SUBSET (1 .. cpage_count)
    BY <1>2 DEF Slots
  <2> HIDE DEF own
  <2> QED
    BY <2>1, MinIsLeast
<1>4. \A i, j \in own : i = j
  OBVIOUS
<1>5. \A i : i \in own <=> i \in WritePages(c) /\ c.cpages[i].obj_id = id
  OBVIOUS
<1> HIDE DEF own
<1> QED
  BY <1>1, <1>2, <1>3, <1>4, <1>5

(* A descriptor gets a cache page.                                         *)
WithPage(s, f, page) == [s EXCEPT !.fds[f].cache_page = page]

(* Only the descriptor's cache page changes.                               *)
LEMMA SetPage ==
  ASSUME NEW s \in CallType, NEW f \in Fds, NEW page \in Slots \union {NoPage}
  PROVE  LET t == WithPage(s, f, page)
         IN /\ t \in CallType
            /\ t.c = s.c /\ t.content = s.content /\ t.lost = s.lost
            /\ t.failed = s.failed /\ t.good = s.good /\ t.err_code = s.err_code
            /\ \A g \in Fds :
                 t.fds[g] = IF g = f THEN [s.fds[g] EXCEPT !.cache_page = page] ELSE s.fds[g]
<1>1. s.fds \in [Fds -> FdType]
  BY DEF CallType
<1>2. [s.fds[f] EXCEPT !.cache_page = page] \in FdType
  BY <1>1 DEF FdType
<1> DEFINE d == [s.fds EXCEPT ![f] = [s.fds[f] EXCEPT !.cache_page = page]]
<1>3. d \in [Fds -> FdType]
  BY <1>1, <1>2
<1>4. WithPage(s, f, page) = [s EXCEPT !.fds = d]
  BY DEF CallType, WithPage
<1>5. \A g \in Fds : d[g] = IF g = f THEN [s.fds[g] EXCEPT !.cache_page = page] ELSE s.fds[g]
  BY <1>1
<1> HIDE DEF d
<1> QED
  BY <1>3, <1>4, <1>5 DEF CallType

(* What the parts of a call may not change: the open descriptors, their    *)
(* files and offsets, and which files there are.                           *)
SameFds(s, t) ==
  /\ DOMAIN t.content = DOMAIN s.content
  /\ \A g \in Fds :
        /\ t.fds[g].open = s.fds[g].open
        /\ t.fds[g].obj_id = s.fds[g].obj_id
        /\ t.fds[g].fdoffset = s.fds[g].fdoffset
        /\ t.fds[g].flags = s.fds[g].flags

(* Whether a descriptor knows the cached write of its object.              *)
Found(s, f) == s.fds[f].cache_page = cache_page_get_by_id(s.c, s.fds[f].obj_id)

(* Looking for the object's cached write changes only what the descriptor  *)
(* knows of it.                                                            *)
LEMMA FindCachedInv ==
  ASSUME NEW s, CallInv(s), NEW f \in Fds, s.fds[f].open
  PROVE  /\ CallInv(FindCached(s, f)) /\ SameFds(s, FindCached(s, f))
         /\ Found(FindCached(s, f), f)
         /\ FindCached(s, f).c = s.c /\ FindCached(s, f).content = s.content
         /\ FindCached(s, f).lost = s.lost /\ FindCached(s, f).failed = s.failed
         /\ FindCached(s, f).good = s.good /\ FindCached(s, f).err_code = s.err_code
<1> DEFINE page == cache_page_get_by_id(s.c, s.fds[f].obj_id)
           t == FindCached(s, f)
<1>1. s \in CallType /\ s.c \in CacheType /\ OwnedInv(s.c, s.content, s.fds)
  BY DEF CallInv, CallType
<1>2. /\ \A i \in WritePages(s.c) : s.c.cpages[i].obj_id = s.fds[f].obj_id => page = i
      /\ page # NoPage => page \in WritePages(s.c) /\ s.c.cpages[page].obj_id = s.fds[f].obj_id
      /\ page \in Slots \union {NoPage}
  BY <1>1, ByIdKnown DEF OwnedInv
<1> HIDE DEF page
<1>3. CASE s.fds[f].cache_page # NoPage
  <2>1. t = s
    BY <1>3 DEF FindCached
  <2>2. s.fds[f].cache_page = page
    BY <1>1, <1>2, <1>3 DEF OwnedInv
  <2> QED
    BY <2>1, <2>2 DEF SameFds, Found, page
<1>4. CASE s.fds[f].cache_page = NoPage
  <2>1. t = WithPage(s, f, page)
    BY <1>4 DEF FindCached, page, WithPage
  <2> HIDE DEF t
  <2>2. /\ t \in CallType /\ t.c = s.c /\ t.content = s.content /\ t.lost = s.lost
        /\ t.failed = s.failed /\ t.good = s.good /\ t.err_code = s.err_code
        /\ \A g \in Fds : t.fds[g] = IF g = f THEN [s.fds[g] EXCEPT !.cache_page = page] ELSE s.fds[g]
    BY <1>1, <1>2, <2>1, SetPage
  <2>3. \A g \in Fds :
          /\ t.fds[g].open = s.fds[g].open /\ t.fds[g].obj_id = s.fds[g].obj_id
          /\ t.fds[g].fdoffset = s.fds[g].fdoffset /\ t.fds[g].flags = s.fds[g].flags
          /\ t.fds[g].cache_page = IF g = f THEN page ELSE s.fds[g].cache_page
    BY <1>1, <2>2 DEF CallType, FdType
  <2>4. OwnedInv(t.c, t.content, t.fds)
    <3>1. \A g \in Fds : t.fds[g].open => t.fds[g].obj_id \in DOMAIN t.content
      BY <1>1, <2>2, <2>3 DEF OwnedInv
    <3>2. \A g \in Fds : t.fds[g].cache_page # NoPage =>
            /\ t.fds[g].open
            /\ t.fds[g].cache_page \in WritePages(t.c)
            /\ t.c.cpages[t.fds[g].cache_page].obj_id = t.fds[g].obj_id
      BY <1>1, <1>2, <2>2, <2>3 DEF OwnedInv
    <3>3. \A i \in WritePages(t.c) : \E g \in Fds : t.fds[g].open /\ t.fds[g].cache_page = i
      <4>1. SUFFICES ASSUME NEW i \in WritePages(t.c)
                     PROVE  \E g \in Fds : t.fds[g].open /\ t.fds[g].cache_page = i
        OBVIOUS
      <4>2. PICK g \in Fds : s.fds[g].open /\ s.fds[g].cache_page = i
        BY <1>1, <2>2 DEF OwnedInv
      <4>3. i # NoPage
        BY <1>1, <2>2, PageKinds DEF Slots
      <4> QED
        BY <1>4, <2>3, <4>2, <4>3
    <3> QED
      BY <1>1, <2>2, <3>1, <3>2, <3>3 DEF OwnedInv
  <2>5. Found(t, f)
    BY <2>2, <2>3 DEF Found, page
  <2> QED
    BY <2>2, <2>3, <2>4, <2>5 DEF CallInv, SameFds, t
<1> QED
  BY <1>3, <1>4

(* spiffs_hydro_write stores bytes in the file of the descriptor or fails. *)
LEMMA HydroInv ==
  ASSUME NEW s, CallInv(s), NEW f \in Fds, s.fds[f].open, NEW offset \in Nat, NEW bytes \in Seq(Nat)
  PROVE  /\ CallInv(hydro_write(s, f, offset, bytes))
         /\ SameFds(s, hydro_write(s, f, offset, bytes))
         /\ hydro_write(s, f, offset, bytes).c = s.c
         /\ hydro_write(s, f, offset, bytes).fds = s.fds
         /\ hydro_write(s, f, offset, bytes).err_code = s.err_code
<1> DEFINE id == s.fds[f].obj_id
           old == s.content[id]
           at == IF offset > Len(old) /\ old # <<>> THEN Len(old) ELSE offset
           t == hydro_write(s, f, offset, bytes)
<1>1. /\ s \in CallType /\ s.content \in ContentType /\ s.fds \in [Fds -> FdType]
      /\ s.lost \in SUBSET Ids /\ s.good \in Nat
      /\ OwnedInv(s.c, s.content, s.fds)
  BY DEF CallInv, CallType
<1>2. id \in DOMAIN s.content /\ id \in Ids
  BY <1>1, ContentTyped DEF OwnedInv
<1>3. CASE s.good > 0
  <2> DEFINE new == Overwrite(old, at, bytes)
             contents == [s.content EXCEPT ![id] = new]
  <2>1. new \in Seq(Nat)
    <3>1. old \in Seq(Nat)
      BY <1>1, <1>2, ContentTyped
    <3> HIDE DEF old
    <3>2. at \in Nat
      BY <3>1
    <3> HIDE DEF at
    <3> QED
      BY <3>1, <3>2, OverwriteTyped
  <2> HIDE DEF new
  <2>2. contents \in ContentType /\ DOMAIN contents = DOMAIN s.content
    <3>1. DOMAIN s.content \in SUBSET Ids
      BY <1>1, ContentTyped
    <3>2. contents \in [DOMAIN s.content -> Seq(Nat)]
      BY <1>1, <2>1, ContentTyped
    <3> QED
      BY <3>1, <3>2, ContentMade
  <2>3. t = [s EXCEPT !.content = contents, !.good = s.good - 1]
    BY <1>1, <1>3 DEF hydro_write, new, CallType
  <2> HIDE DEF contents, t
  <2>4. s.good - 1 \in Nat
    BY <1>1, <1>3
  <2>5. /\ t \in CallType /\ t.c = s.c /\ t.fds = s.fds /\ t.content = contents
        /\ t.err_code = s.err_code
    BY <1>1, <2>2, <2>3, <2>4 DEF CallType
  <2> QED
    BY <1>1, <2>2, <2>5, SMTT(30) DEF CallInv, SameFds, OwnedInv, t
<1>4. CASE ~(s.good > 0)
  <2>1. t = [s EXCEPT !.failed = TRUE, !.lost = s.lost \union {id}]
    BY <1>1, <1>4 DEF hydro_write, CallType
  <2> HIDE DEF t
  <2>2. /\ t \in CallType /\ t.c = s.c /\ t.fds = s.fds /\ t.content = s.content
        /\ t.err_code = s.err_code
    BY <1>1, <1>2, <2>1 DEF CallType
  <2> QED
    BY <2>2 DEF CallInv, SameFds, t
<1> QED
  BY <1>3, <1>4

(* spiffs_cache_fd_release frees a cached write and tells every descriptor *)
(* that knew it.                                                           *)
LEMMA ReleaseInv ==
  ASSUME NEW s, CallInv(s), NEW i \in WritePages(s.c)
  PROVE  LET t == cache_fd_release(s, i)
         IN /\ CallInv(t) /\ SameFds(s, t)
            /\ t.content = s.content /\ t.lost = s.lost /\ t.failed = s.failed
            /\ t.good = s.good /\ t.err_code = s.err_code
            /\ WritePages(t.c) = WritePages(s.c) \ {i}
            /\ \A j \in Slots : j # i => t.c.cpages[j] = s.c.cpages[j]
            /\ \A g \in Fds : t.fds[g].cache_page =
                 IF s.fds[g].cache_page = i THEN NoPage ELSE s.fds[g].cache_page
<1> DEFINE t == cache_fd_release(s, i)
           d == [g \in Fds |-> IF s.fds[g].open /\ s.fds[g].cache_page = i
                               THEN [s.fds[g] EXCEPT !.cache_page = NoPage] ELSE s.fds[g]]
<1>1. /\ s \in CallType /\ s.c \in CacheType /\ s.fds \in [Fds -> FdType]
      /\ CacheInv(s.c) /\ CurrentInv(s.c) /\ OwnedInv(s.c, s.content, s.fds)
  BY DEF CallInv, CallType
<1>2. i \in Slots /\ i # NoPage
  BY <1>1, PageKinds DEF Slots
<1>3. /\ CacheInv(Freed(s.c, {i}))
      /\ \A j \in Slots : Freed(s.c, {i}).cpages[j] = IF j \in {i} THEN Free ELSE s.c.cpages[j]
      /\ ReadPages(Freed(s.c, {i})) = ReadPages(s.c) \ {i}
      /\ WritePages(Freed(s.c, {i})) = WritePages(s.c) \ {i}
  BY <1>1, FreedInv
<1>4. Freed(s.c, {i}) \in CacheType
  BY <1>3 DEF CacheInv
<1>5. d \in [Fds -> FdType]
  BY <1>1 DEF FdType
<1>6. \A g \in Fds : /\ d[g].open = s.fds[g].open /\ d[g].obj_id = s.fds[g].obj_id
                      /\ d[g].fdoffset = s.fds[g].fdoffset /\ d[g].flags = s.fds[g].flags
                      /\ d[g].cache_page = IF s.fds[g].cache_page = i THEN NoPage
                                           ELSE s.fds[g].cache_page
  <2>1. SUFFICES ASSUME NEW g \in Fds
                 PROVE  /\ d[g].open = s.fds[g].open /\ d[g].obj_id = s.fds[g].obj_id
                        /\ d[g].fdoffset = s.fds[g].fdoffset /\ d[g].flags = s.fds[g].flags
                        /\ d[g].cache_page = IF s.fds[g].cache_page = i THEN NoPage
                                             ELSE s.fds[g].cache_page
    OBVIOUS
  <2>2. s.fds[g] \in FdType
    BY <1>1
  <2>3. s.fds[g].cache_page = i => s.fds[g].open
    BY <1>1, <1>2 DEF OwnedInv
  <2>4. d[g] = IF s.fds[g].open /\ s.fds[g].cache_page = i
               THEN [s.fds[g] EXCEPT !.cache_page = NoPage] ELSE s.fds[g]
    OBVIOUS
  <2> HIDE DEF d
  <2> QED
    BY <2>2, <2>3, <2>4 DEF FdType
<1>7. t = [s EXCEPT !.c = Freed(s.c, {i}), !.fds = d]
  BY <1>1 DEF cache_fd_release, cache_page_free, CallType
<1> HIDE DEF d, t
<1>8. /\ t \in CallType /\ t.c = Freed(s.c, {i}) /\ t.fds = d
      /\ t.content = s.content /\ t.lost = s.lost /\ t.failed = s.failed
      /\ t.good = s.good /\ t.err_code = s.err_code
  BY <1>1, <1>4, <1>5, <1>7 DEF CallType
<1>9. CurrentInv(t.c)
  <2>1. ReadPages(s.c) \subseteq Slots
    BY <1>1, PageKinds
  <2> QED
    BY <1>1, <1>3, <1>8, <2>1 DEF CurrentInv
<1>10. \A j \in Slots : j # i => t.c.cpages[j] = s.c.cpages[j]
  BY <1>3, <1>8
<1>11. WritePages(s.c) \subseteq Slots
  BY <1>1, PageKinds
<1>12. OwnedInv(t.c, t.content, t.fds)
  <2>1. \A g \in Fds : t.fds[g].open => t.fds[g].obj_id \in DOMAIN t.content
    BY <1>1, <1>6, <1>8 DEF OwnedInv
  <2>2. \A g \in Fds : t.fds[g].cache_page # NoPage =>
          /\ t.fds[g].open
          /\ t.fds[g].cache_page \in WritePages(t.c)
          /\ t.c.cpages[t.fds[g].cache_page].obj_id = t.fds[g].obj_id
    <3>1. SUFFICES ASSUME NEW g \in Fds, t.fds[g].cache_page # NoPage
                   PROVE  /\ t.fds[g].open
                          /\ t.fds[g].cache_page \in WritePages(t.c)
                          /\ t.c.cpages[t.fds[g].cache_page].obj_id = t.fds[g].obj_id
      OBVIOUS
    <3>2. s.fds[g].cache_page # NoPage /\ s.fds[g].cache_page # i
          /\ t.fds[g].cache_page = s.fds[g].cache_page
      BY <1>6, <1>8, <3>1
    <3>3. /\ s.fds[g].open /\ s.fds[g].cache_page \in WritePages(s.c)
          /\ s.c.cpages[s.fds[g].cache_page].obj_id = s.fds[g].obj_id
      BY <1>1, <3>2 DEF OwnedInv
    <3>4. t.fds[g].cache_page \in WritePages(t.c)
      BY <1>3, <1>8, <3>2, <3>3
    <3>5. t.c.cpages[t.fds[g].cache_page] = s.c.cpages[s.fds[g].cache_page]
      BY <1>10, <1>11, <3>2, <3>3
    <3>6. t.fds[g].open = s.fds[g].open /\ t.fds[g].obj_id = s.fds[g].obj_id
      BY <1>6, <1>8
    <3> QED
      BY <3>3, <3>4, <3>5, <3>6
  <2>3. \A j \in WritePages(t.c) : \E g \in Fds : t.fds[g].open /\ t.fds[g].cache_page = j
    <3>1. SUFFICES ASSUME NEW j \in WritePages(t.c)
                   PROVE  \E g \in Fds : t.fds[g].open /\ t.fds[g].cache_page = j
      OBVIOUS
    <3>2. j \in WritePages(s.c) /\ j # i
      BY <1>3, <1>8
    <3>3. PICK g \in Fds : s.fds[g].open /\ s.fds[g].cache_page = j
      BY <1>1, <3>2 DEF OwnedInv
    <3> QED
      BY <1>6, <1>8, <3>2, <3>3
  <2>4. \A j, k \in WritePages(t.c) : t.c.cpages[j].obj_id = t.c.cpages[k].obj_id => j = k
    <3>1. \A j \in WritePages(t.c) : j \in WritePages(s.c) /\ t.c.cpages[j] = s.c.cpages[j]
      BY <1>3, <1>8, <1>10, <1>11
    <3>2. \A j, k \in WritePages(s.c) : s.c.cpages[j].obj_id = s.c.cpages[k].obj_id => j = k
      BY <1>1 DEF OwnedInv
    <3> QED
      BY <3>1, <3>2
  <2> QED
    BY <2>1, <2>2, <2>3, <2>4 DEF OwnedInv
<1> QED
  BY <1>3, <1>6, <1>8, <1>9, <1>10, <1>12 DEF CallInv, SameFds, t

(* The same in one word, for the proofs that use it.                       *)
Released(s, t, i) ==
  /\ CallInv(t) /\ SameFds(s, t)
  /\ t.content = s.content /\ t.lost = s.lost /\ t.failed = s.failed
  /\ t.good = s.good /\ t.err_code = s.err_code
  /\ WritePages(t.c) = WritePages(s.c) \ {i}
  /\ \A j \in Slots : j # i => t.c.cpages[j] = s.c.cpages[j]
  /\ \A g \in Fds : t.fds[g].cache_page =
       IF s.fds[g].cache_page = i THEN NoPage ELSE s.fds[g].cache_page

LEMMA IsReleased ==
  ASSUME NEW s, CallInv(s), NEW i \in WritePages(s.c)
  PROVE  Released(s, cache_fd_release(s, i), i)
BY ReleaseInv DEF Released

(* A cached write goes to the file, whether that fails or not.             *)
LEMMA WriteBackInv ==
  ASSUME NEW s, CallInv(s), NEW f \in Fds, s.fds[f].open, s.fds[f].cache_page # NoPage
  PROVE  LET t == WriteBack(s, f)
         IN /\ CallInv(t) /\ SameFds(s, t) /\ t.fds[f].cache_page = NoPage /\ Found(t, f)
            /\ t.err_code = s.err_code
            /\ WritePages(t.c) = WritePages(s.c) \ {s.fds[f].cache_page}
            /\ \A j \in Slots : j # s.fds[f].cache_page => t.c.cpages[j] = s.c.cpages[j]
<1> DEFINE i == s.fds[f].cache_page
           p == s.c.cpages[i]
           u == hydro_write(s, f, p.offset, p.data)
           t == WriteBack(s, f)
<1>1. s.c \in CacheType /\ OwnedInv(s.c, s.content, s.fds)
  BY DEF CallInv, CallType
<1>2. i \in WritePages(s.c) /\ i \in Slots /\ p.obj_id = s.fds[f].obj_id
  BY <1>1, PageKinds DEF OwnedInv
<1>3. p \in WritePage
  <2>1. p.type = "WR"
    BY <1>1, <1>2, PageKinds
  <2> QED
    BY <1>1, <1>2, <2>1, PageKinds
<1>4. p.offset \in Nat /\ p.data \in Seq(Nat)
  BY <1>3 DEF WritePage
<1>5. CallInv(u) /\ SameFds(s, u) /\ u.c = s.c /\ u.fds = s.fds /\ u.err_code = s.err_code
  <2> DEFINE offset == p.offset
             bytes == p.data
  <2>1. offset \in Nat /\ bytes \in Seq(Nat) /\ u = hydro_write(s, f, offset, bytes)
    BY <1>4
  <2> HIDE DEF offset, bytes, u, p, i
  <2> QED
    BY <2>1, HydroInv
<1>6. t = cache_fd_release(u, i)
  BY DEF WriteBack
<1> HIDE DEF u, t
<1>7. /\ CallInv(t) /\ SameFds(u, t) /\ t.content = u.content
      /\ t.err_code = u.err_code
      /\ WritePages(t.c) = WritePages(u.c) \ {i}
      /\ \A j \in Slots : j # i => t.c.cpages[j] = u.c.cpages[j]
      /\ \A g \in Fds : t.fds[g].cache_page =
           IF u.fds[g].cache_page = i THEN NoPage ELSE u.fds[g].cache_page
  <2>1. i \in WritePages(u.c)
    BY <1>2, <1>5
  <2>2. Released(u, t, i)
    BY <1>5, <1>6, <2>1, IsReleased
  <2> QED
    BY <2>2 DEF Released
<1>8. SameFds(s, t)
  BY <1>5, <1>7 DEF SameFds
<1>9. t.fds[f].cache_page = NoPage
  BY <1>5, <1>7
<1>10. Found(t, f)
  <2>1. t.c \in CacheType /\ OwnedInv(t.c, t.content, t.fds)
    BY <1>7 DEF CallInv, CallType
  <2>2. \A j \in WritePages(t.c) : j \in WritePages(s.c) /\ j # i /\ j \in Slots
    BY <1>1, <1>5, <1>7, PageKinds
  <2>3. \A j \in WritePages(t.c) : t.c.cpages[j].obj_id # s.fds[f].obj_id
    <3>1. SUFFICES ASSUME NEW j \in WritePages(t.c), t.c.cpages[j].obj_id = s.fds[f].obj_id
                   PROVE  FALSE
      OBVIOUS
    <3>2. j \in WritePages(s.c) /\ j # i /\ s.c.cpages[j].obj_id = s.c.cpages[i].obj_id
      BY <1>2, <1>5, <1>7, <2>2, <3>1
    <3> QED
      BY <1>1, <1>2, <3>2 DEF OwnedInv
  <2>4. cache_page_get_by_id(t.c, s.fds[f].obj_id) = NoPage
    BY <2>1, <2>3, ByIdKnown DEF OwnedInv
  <2> QED
    BY <1>8, <1>9, <2>4 DEF Found, SameFds
<1> QED
  BY <1>5, <1>7, <1>8, <1>9, <1>10 DEF t

(* Leaving an error changes nothing else.                                  *)
LEMMA ReportInv ==
  ASSUME NEW s, CallInv(s)
  PROVE  LET t == Report(s)
         IN /\ CallInv(t) /\ t.c = s.c /\ t.content = s.content /\ t.fds = s.fds
            /\ t.lost = s.lost /\ t.failed = s.failed /\ t.good = s.good
<1> DEFINE t == Report(s)
<1>1. CASE s.failed
  <2>1. t = [s EXCEPT !.err_code = "FULL"]
    BY <1>1 DEF Report
  <2> HIDE DEF t
  <2>2. /\ t \in CallType /\ t.c = s.c /\ t.content = s.content /\ t.fds = s.fds
        /\ t.lost = s.lost /\ t.failed = s.failed /\ t.good = s.good
    BY <2>1 DEF CallInv, CallType
  <2> QED
    BY <2>2 DEF CallInv, t
<1>2. CASE ~s.failed
  BY <1>2 DEF Report
<1> QED
  BY <1>1, <1>2

(* After spiffs_fflush_cache nothing is cached of the descriptor's object. *)
LEMMA FflushInv ==
  ASSUME NEW s, CallInv(s), NEW f \in Fds, s.fds[f].open
  PROVE  LET t == fflush_cache(s, f)
         IN /\ CallInv(t) /\ SameFds(s, t) /\ t.fds[f].cache_page = NoPage /\ Found(t, f)
<1> DEFINE u == FindCached(s, f)
           t == fflush_cache(s, f)
<1>1. CallInv(u) /\ SameFds(s, u) /\ Found(u, f)
  BY FindCachedInv
<1>2. t = IF u.fds[f].cache_page # NoPage THEN Report(WriteBack(u, f)) ELSE u
  BY DEF fflush_cache
<1> HIDE DEF u, t
<1>3. CASE u.fds[f].cache_page # NoPage
  <2> DEFINE w == WriteBack(u, f)
  <2>1. u.fds[f].open
    BY <1>1 DEF SameFds
  <2>2. CallInv(w) /\ SameFds(u, w) /\ w.fds[f].cache_page = NoPage /\ Found(w, f)
    BY <1>1, <1>3, <2>1, WriteBackInv
  <2> HIDE DEF w
  <2>3. t = Report(w)
    BY <1>2, <1>3 DEF w
  <2>4. CallInv(t) /\ t.c = w.c /\ t.content = w.content /\ t.fds = w.fds
    BY <2>2, <2>3, ReportInv
  <2> QED
    BY <1>1, <2>2, <2>4 DEF SameFds, Found, t
<1>4. CASE u.fds[f].cache_page = NoPage
  <2>1. t = u
    BY <1>2, <1>4
  <2> QED
    BY <1>1, <1>4, <2>1 DEF t
<1> QED
  BY <1>3, <1>4

(* OwnedInv looks at the cached writes of the cache only.                  *)
LEMMA OwnedSameWrites ==
  ASSUME NEW c, NEW d, CacheInv(c), CacheInv(d), SameWrites(c, d),
         NEW bytes, NEW fd, OwnedInv(c, bytes, fd)
  PROVE  OwnedInv(d, bytes, fd)
<1>1. c \in CacheType /\ d \in CacheType
  BY DEF CacheInv
<1>2. WritePages(c) = {i \in Slots : c.cpages[i].type = "WR"}
  BY <1>1, PageKinds
<1>3. WritePages(d) = {i \in Slots : d.cpages[i].type = "WR"}
  BY <1>1, PageKinds
<1>4. WritePages(d) = WritePages(c) /\ \A i \in WritePages(c) : d.cpages[i] = c.cpages[i]
  BY <1>2, <1>3 DEF SameWrites
<1> QED
  BY <1>4 DEF OwnedInv

NewWrite(s, f, offset) ==
  [type |-> "WR", obj_id |-> s.fds[f].obj_id, offset |-> offset, data |-> <<>>]

(* spiffs_cache_page_allocate_by_fd finds a page for a new cached write or *)
(* none, and changes no other cached write.                                *)
LEMMA AllocateByFdInv ==
  ASSUME NEW s, CallInv(s), NEW f \in Fds, s.fds[f].open, s.fds[f].cache_page = NoPage,
         Found(s, f), NEW offset \in Nat
  PROVE  LET t == cache_page_allocate_by_fd(s, f, offset)
             i == t.fds[f].cache_page
         IN /\ CallInv(t) /\ SameFds(s, t) /\ Found(t, f)
            /\ t.content = s.content /\ t.lost = s.lost /\ t.failed = s.failed
            /\ t.good = s.good /\ t.err_code = s.err_code
            /\ i # NoPage =>
                 /\ i \in WritePages(t.c) /\ i \in Slots /\ i \notin WritePages(s.c)
                 /\ t.c.cpages[i] = NewWrite(s, f, offset)
            /\ \A j \in WritePages(s.c) : j \in WritePages(t.c) /\ t.c.cpages[j] = s.c.cpages[j]
            /\ \A j \in WritePages(t.c) : j # i => j \in WritePages(s.c)
<1> DEFINE t == cache_page_allocate_by_fd(s, f, offset)
           room == cache_page_remove_oldest(s.c)
           i == cache_page_allocate(room)
           page == NewWrite(s, f, offset)
           id == s.fds[f].obj_id
<1>1. /\ s \in CallType /\ s.c \in CacheType /\ s.fds \in [Fds -> FdType]
      /\ CacheInv(s.c) /\ CurrentInv(s.c) /\ OwnedInv(s.c, s.content, s.fds)
  BY DEF CallInv, CallType
<1>2. id \in Ids /\ id \in DOMAIN s.content
  BY <1>1, ContentTyped DEF OwnedInv, CallType
<1>3. /\ CacheInv(room) /\ SameWrites(s.c, room)
      /\ \A j \in Slots : j \in ReadPages(room) => room.cpages[j] = s.c.cpages[j]
  BY <1>1, RemoveOldestInv
<1>4. t = IF Full(room) THEN [s EXCEPT !.c = room, !.fds[f].cache_page = NoPage]
          ELSE [s EXCEPT !.fds[f].cache_page = i, !.c = [room EXCEPT !.cpages[i] = page]]
  BY DEF cache_page_allocate_by_fd, NewWrite
<1> HIDE DEF t, room
<1>5. room \in CacheType
  BY <1>3 DEF CacheInv
<1>6. /\ ReadPages(room) = {j \in Slots : room.cpages[j].type = "RD"}
      /\ WritePages(room) = {j \in Slots : room.cpages[j].type = "WR"}
  BY <1>5, PageKinds
<1>7. /\ ReadPages(s.c) = {j \in Slots : s.c.cpages[j].type = "RD"}
      /\ WritePages(s.c) = {j \in Slots : s.c.cpages[j].type = "WR"}
  BY <1>1, PageKinds
<1>8. /\ WritePages(room) = WritePages(s.c)
      /\ \A j \in WritePages(s.c) : room.cpages[j] = s.c.cpages[j]
  BY <1>3, <1>6, <1>7 DEF SameWrites
<1>9. CurrentInv(room)
  <2>1. \A j \in ReadPages(room) : j \in ReadPages(s.c) /\ room.cpages[j] = s.c.cpages[j]
    BY <1>3, <1>6, <1>7
  <2> QED
    BY <1>1, <2>1 DEF CurrentInv
<1>10. OwnedInv(room, s.content, s.fds)
  BY <1>1, <1>3, OwnedSameWrites
<1>11. \A j \in WritePages(s.c) : s.c.cpages[j].obj_id # id
  <2>1. \A j \in WritePages(s.c) : j # NoPage
    BY <1>7 DEF Slots
  <2>2. cache_page_get_by_id(s.c, id) = NoPage
    BY DEF Found
  <2> QED
    BY <1>1, <2>1, <2>2, ByIdKnown DEF OwnedInv
<1>12. CASE Full(room)
  <2>1. t = WithPage([s EXCEPT !.c = room], f, NoPage)
    BY <1>1, <1>4, <1>12 DEF WithPage, CallType
  <2> DEFINE u == [s EXCEPT !.c = room]
  <2>2. /\ u \in CallType /\ u.c = room /\ u.content = s.content /\ u.lost = s.lost
        /\ u.failed = s.failed /\ u.good = s.good /\ u.err_code = s.err_code /\ u.fds = s.fds
    BY <1>1, <1>5 DEF CallType
  <2>3. t = WithPage(u, f, NoPage)
    BY <2>1
  <2> HIDE DEF u
  <2>4. /\ t \in CallType /\ t.c = u.c /\ t.content = u.content /\ t.lost = u.lost
        /\ t.failed = u.failed /\ t.good = u.good /\ t.err_code = u.err_code
        /\ \A g \in Fds : t.fds[g] = IF g = f THEN [u.fds[g] EXCEPT !.cache_page = NoPage] ELSE u.fds[g]
    BY <2>2, <2>3, SetPage
  <2>5. \A g \in Fds : t.fds[g] = s.fds[g]
    <3>1. [s.fds[f] EXCEPT !.cache_page = NoPage] = s.fds[f]
      BY <1>1 DEF FdType
    <3> QED
      BY <2>2, <2>4, <3>1, ZenonT(60)
  <2>6. OwnedInv(t.c, t.content, t.fds)
    BY <1>10, <2>2, <2>4, <2>5 DEF OwnedInv
  <2>7. Found(t, f)
    <3>1. \A j \in WritePages(t.c) : t.c.cpages[j].obj_id # id
      BY <1>8, <1>11, <2>2, <2>4
    <3>2. cache_page_get_by_id(t.c, id) = NoPage
      BY <1>5, <2>2, <2>4, <2>6, <3>1, ByIdKnown DEF OwnedInv
    <3> QED
      BY <2>5, <3>2 DEF Found
  <2> QED
    BY <1>3, <1>8, <1>9, <2>2, <2>4, <2>5, <2>6, <2>7 DEF CallInv, SameFds, t
<1>13. CASE ~Full(room)
  <2> DEFINE c == PutPage(room, i, page)
             u == [s EXCEPT !.c = c]
  <2>1. i \in Slots /\ room.cpages[i] = Free
    BY <1>5, <1>13, AllocateFree
  <2>2. page \in WritePage /\ page.obj_id = id /\ page.type = "WR"
    <3>1. <<>> \in Seq(Nat)
      OBVIOUS
    <3> QED
      BY <1>2, <3>1 DEF WritePage, NewWrite
  <2> HIDE DEF i, page
  <2>3. /\ CacheInv(c) /\ WritePages(c) = WritePages(room) \union {i}
        /\ ReadPages(c) = ReadPages(room)
        /\ \A j \in Slots : c.cpages[j] = IF j = i THEN page ELSE room.cpages[j]
    <3>1. CacheInv(c) /\ ReadPages(c) = ReadPages(room)
      BY <1>3, <2>1, <2>2, WriteInFree
    <3>2. WritePages(c) = WritePages(room) \union {i}
      BY <1>3, <2>1, <2>2, WriteInFree
    <3>3. \A j \in Slots : c.cpages[j] = IF j = i THEN page ELSE room.cpages[j]
      BY <1>3, <2>1, <2>2, WriteInFree
    <3> QED
      BY <3>1, <3>2, <3>3
  <2>4. t = WithPage(u, f, i)
    BY <1>1, <1>4, <1>13 DEF WithPage, PutPage, CallType
  <2> HIDE DEF c
  <2>5. c \in CacheType
    BY <2>3 DEF CacheInv
  <2>6. /\ u \in CallType /\ u.c = c /\ u.content = s.content /\ u.lost = s.lost
        /\ u.failed = s.failed /\ u.good = s.good /\ u.err_code = s.err_code /\ u.fds = s.fds
    BY <1>1, <2>5 DEF CallType
  <2> HIDE DEF u
  <2>7. /\ t \in CallType /\ t.c = u.c /\ t.content = u.content /\ t.lost = u.lost
        /\ t.failed = u.failed /\ t.good = u.good /\ t.err_code = u.err_code
        /\ \A g \in Fds : t.fds[g] = IF g = f THEN [u.fds[g] EXCEPT !.cache_page = i] ELSE u.fds[g]
    BY <2>1, <2>4, <2>6, SetPage
  <2>8. \A g \in Fds :
          /\ t.fds[g].open = s.fds[g].open /\ t.fds[g].obj_id = s.fds[g].obj_id
          /\ t.fds[g].fdoffset = s.fds[g].fdoffset /\ t.fds[g].flags = s.fds[g].flags
          /\ t.fds[g].cache_page = IF g = f THEN i ELSE s.fds[g].cache_page
    <3>1. \A g \in Fds : s.fds[g] \in FdType /\ u.fds[g] = s.fds[g]
      BY <1>1, <2>6
    <3>2. SUFFICES ASSUME NEW g \in Fds
                   PROVE  /\ t.fds[g].open = s.fds[g].open /\ t.fds[g].obj_id = s.fds[g].obj_id
                          /\ t.fds[g].fdoffset = s.fds[g].fdoffset /\ t.fds[g].flags = s.fds[g].flags
                          /\ t.fds[g].cache_page = IF g = f THEN i ELSE s.fds[g].cache_page
      OBVIOUS
    <3>3. t.fds[g] = IF g = f THEN [s.fds[g] EXCEPT !.cache_page = i] ELSE s.fds[g]
      BY <2>7, <3>1
    <3> QED
      BY <3>1, <3>3 DEF FdType
  <2>9. t.c = c
    BY <2>6, <2>7
  <2>10. i \notin WritePages(s.c) /\ i # NoPage /\ i \notin ReadPages(room)
    BY <1>6, <1>8, <2>1 DEF Free, Slots
  <2>11. /\ WritePages(t.c) = WritePages(s.c) \union {i} /\ t.c.cpages[i] = page
         /\ \A j \in WritePages(s.c) : t.c.cpages[j] = s.c.cpages[j]
    <3>1. \A j \in WritePages(s.c) : j \in Slots /\ j # i
      BY <1>7, <2>10
    <3>2. WritePages(t.c) = WritePages(s.c) \union {i}
      BY <1>8, <2>3, <2>9
    <3>3. \A j \in WritePages(s.c) : t.c.cpages[j] = s.c.cpages[j]
      BY <1>8, <2>3, <2>9, <3>1
    <3> QED
      BY <2>1, <2>3, <2>9, <3>2, <3>3
  <2>12. CurrentInv(t.c)
    <3>1. \A j \in ReadPages(room) : j \in Slots /\ j # i
      BY <1>6, <2>10
    <3> QED
      BY <1>9, <2>3, <2>9, <3>1 DEF CurrentInv
  <2>13. OwnedInv(t.c, t.content, t.fds)
    <3>1. \A g \in Fds : t.fds[g].open => t.fds[g].obj_id \in DOMAIN t.content
      BY <1>1, <2>6, <2>7, <2>8 DEF OwnedInv
    <3>2. \A g \in Fds : t.fds[g].cache_page # NoPage =>
            /\ t.fds[g].open
            /\ t.fds[g].cache_page \in WritePages(t.c)
            /\ t.c.cpages[t.fds[g].cache_page].obj_id = t.fds[g].obj_id
      <4>1. SUFFICES ASSUME NEW g \in Fds, t.fds[g].cache_page # NoPage
                     PROVE  /\ t.fds[g].open
                            /\ t.fds[g].cache_page \in WritePages(t.c)
                            /\ t.c.cpages[t.fds[g].cache_page].obj_id = t.fds[g].obj_id
        OBVIOUS
      <4>2. CASE g = f
        BY <2>2, <2>8, <2>11, <4>2
      <4>3. CASE g # f
        <5>1. /\ s.fds[g].open /\ s.fds[g].cache_page \in WritePages(s.c)
              /\ s.c.cpages[s.fds[g].cache_page].obj_id = s.fds[g].obj_id
          BY <1>1, <2>8, <4>1, <4>3 DEF OwnedInv
        <5> QED
          BY <2>8, <2>11, <4>3, <5>1
      <4> QED
        BY <4>2, <4>3
    <3>3. \A j \in WritePages(t.c) : \E g \in Fds : t.fds[g].open /\ t.fds[g].cache_page = j
      <4>1. SUFFICES ASSUME NEW j \in WritePages(t.c)
                     PROVE  \E g \in Fds : t.fds[g].open /\ t.fds[g].cache_page = j
        OBVIOUS
      <4>2. CASE j = i
        BY <2>8, <4>2
      <4>3. CASE j # i
        <5>1. j \in WritePages(s.c) /\ j # NoPage
          BY <1>7, <2>11, <4>3 DEF Slots
        <5>2. PICK g \in Fds : s.fds[g].open /\ s.fds[g].cache_page = j
          BY <1>1, <5>1 DEF OwnedInv
        <5> QED
          BY <2>8, <5>1, <5>2
      <4> QED
        BY <4>2, <4>3
    <3>4. \A j, k \in WritePages(t.c) : t.c.cpages[j].obj_id = t.c.cpages[k].obj_id => j = k
      BY <1>1, <1>11, <2>2, <2>11 DEF OwnedInv
    <3> QED
      BY <3>1, <3>2, <3>3, <3>4 DEF OwnedInv
  <2>14. t.c \in CacheType /\ t.c.cpages[i].obj_id = id
    BY <2>2, <2>5, <2>6, <2>7, <2>11
  <2>15. cache_page_get_by_id(t.c, id) = i
    BY <2>11, <2>13, <2>14, ByIdKnown DEF OwnedInv
  <2>16. Found(t, f)
    BY <2>8, <2>15 DEF Found
  <2>17. CallInv(t) /\ SameFds(s, t)
    BY <2>3, <2>6, <2>7, <2>8, <2>12, <2>13 DEF CallInv, SameFds
  <2> QED
    BY <2>1, <2>6, <2>7, <2>8, <2>10, <2>11, <2>16, <2>17 DEF t, page
<1> QED
  BY <1>12, <1>13

(* The bytes of a cached write change.                                     *)
WithData(s, i, data) == [s EXCEPT !.c.cpages[i].data = data]

(* New bytes in a cached write disturb no other page.                      *)
LEMMA WithDataInv ==
  ASSUME NEW s, CallInv(s), NEW i \in WritePages(s.c), NEW data \in Seq(Nat)
  PROVE  LET t == WithData(s, i, data)
         IN /\ CallInv(t) /\ SameFds(s, t) /\ t.fds = s.fds
            /\ t.content = s.content /\ t.lost = s.lost /\ t.failed = s.failed
            /\ t.good = s.good /\ t.err_code = s.err_code
            /\ WritePages(t.c) = WritePages(s.c)
            /\ \A j \in WritePages(s.c) : j # i => t.c.cpages[j] = s.c.cpages[j]
            /\ t.c.cpages[i].data = data
            /\ t.c.cpages[i].offset = s.c.cpages[i].offset
            /\ t.c.cpages[i].obj_id = s.c.cpages[i].obj_id
<1> DEFINE t == WithData(s, i, data)
           page == [s.c.cpages[i] EXCEPT !.data = data]
           c == PutPage(s.c, i, page)
<1>1. /\ s \in CallType /\ s.c \in CacheType
      /\ CacheInv(s.c) /\ CurrentInv(s.c) /\ OwnedInv(s.c, s.content, s.fds)
  BY DEF CallInv, CallType
<1>2. i \in Slots /\ s.c.cpages[i].type = "WR" /\ s.c.cpages[i] \in WritePage
  BY <1>1, PageKinds
<1>3. /\ page \in WritePage /\ page.data = data /\ page.offset = s.c.cpages[i].offset
      /\ page.obj_id = s.c.cpages[i].obj_id
  BY <1>2 DEF WritePage
<1>4. t = [s EXCEPT !.c = c]
  BY <1>1, <1>2 DEF WithData, PutPage, CallType, CacheType
<1> HIDE DEF t, page
<1>5. /\ CacheInv(c) /\ WritePages(c) = WritePages(s.c) \union {i} /\ ReadPages(c) = ReadPages(s.c)
      /\ \A j \in Slots : c.cpages[j] = IF j = i THEN page ELSE s.c.cpages[j]
  BY <1>1, <1>2, <1>3, WriteInFree
<1> HIDE DEF c
<1>6. c \in CacheType
  BY <1>5 DEF CacheInv
<1>7. /\ t \in CallType /\ t.c = c /\ t.fds = s.fds
      /\ t.content = s.content /\ t.lost = s.lost /\ t.failed = s.failed
      /\ t.good = s.good /\ t.err_code = s.err_code
  BY <1>1, <1>4, <1>6 DEF CallType
<1>8. /\ WritePages(s.c) \subseteq Slots /\ ReadPages(s.c) \subseteq Slots
      /\ \A j \in ReadPages(s.c) : j # i
  BY <1>1, <1>2, PageKinds
<1>9. WritePages(c) = WritePages(s.c)
  BY <1>5
<1>10. /\ \A j \in WritePages(s.c) : j # i => c.cpages[j] = s.c.cpages[j]
       /\ c.cpages[i] = page
  BY <1>2, <1>5, <1>8
<1>11. CurrentInv(c)
  BY <1>1, <1>5, <1>8 DEF CurrentInv
<1>12. OwnedInv(c, s.content, s.fds)
  <2>1. \A j \in WritePages(s.c) : c.cpages[j].obj_id = s.c.cpages[j].obj_id
    BY <1>3, <1>10
  <2> QED
    BY <1>1, <1>9, <2>1 DEF OwnedInv
<1> QED
  BY <1>3, <1>5, <1>7, <1>9, <1>10, <1>11, <1>12 DEF CallInv, SameFds, t

(* A write goes to an offset.                                              *)
LEMMA WriteOffsetTyped ==
  ASSUME NEW s, CallInv(s), NEW f \in Fds, s.fds[f].open
  PROVE  WriteOffset(s, f) \in Nat /\ CachedEnd(s, f) \in Nat /\ Size(s, f) \in Nat
<1>1. /\ s \in CallType /\ s.c \in CacheType /\ s.fds \in [Fds -> FdType]
      /\ s.content \in ContentType /\ OwnedInv(s.c, s.content, s.fds)
  BY DEF CallInv, CallType
<1>2. Size(s, f) \in Nat
  BY <1>1, ContentTyped DEF Size, OwnedInv
<1>3. CachedEnd(s, f) \in Nat
  <2>1. CASE s.fds[f].cache_page = NoPage
    BY <2>1 DEF CachedEnd
  <2>2. CASE s.fds[f].cache_page # NoPage
    <3> DEFINE p == s.c.cpages[s.fds[f].cache_page]
    <3>1. s.fds[f].cache_page \in WritePages(s.c)
      BY <1>1, <2>2 DEF OwnedInv
    <3>2. p \in WritePage
      BY <1>1, <3>1, PageKinds
    <3>3. CachedEnd(s, f) = p.offset + Len(p.data)
      BY <2>2 DEF CachedEnd
    <3> HIDE DEF p
    <3>4. p.offset \in Nat /\ p.data \in Seq(Nat)
      BY <3>2 DEF WritePage
    <3>5. Len(p.data) \in Nat
      BY <3>4
    <3> QED
      BY <3>3, <3>4, <3>5
  <2> QED
    BY <2>1, <2>2
<1>4. s.fds[f].fdoffset \in Nat
  BY <1>1 DEF FdType
<1> QED
  BY <1>2, <1>3, <1>4 DEF WriteOffset, Longer

(* A write that the cache takes, or for which there is no room in it.      *)
LEMMA StoreSmallInv ==
  ASSUME NEW s, CallInv(s), NEW f \in Fds, s.fds[f].open, Found(s, f),
         NEW offset \in Nat, NEW bytes \in Seq(Nat)
  PROVE  LET t == StoreSmall(s, f, offset, bytes)
         IN CallInv(t) /\ SameFds(s, t)
<1> DEFINE cached == s.fds[f].cache_page # NoPage
           fits == cached /\ Fits(s, f, offset, bytes)
           freed == IF cached /\ ~fits THEN WriteBack(s, f) ELSE s
           t == IF fits \/ freed.failed THEN freed ELSE cache_page_allocate_by_fd(freed, f, offset)
           i == t.fds[f].cache_page
           r == StoreSmall(s, f, offset, bytes)
<1>1. r = IF t.failed THEN t
          ELSE IF i = NoPage THEN hydro_write(t, f, offset, bytes)
          ELSE WithData(t, i, Overwrite(t.c.cpages[i].data, offset - t.c.cpages[i].offset, bytes))
  BY DEF StoreSmall, WithData
<1> HIDE DEF r
<1>2. /\ CallInv(freed) /\ SameFds(s, freed) /\ Found(freed, f)
      /\ ~fits => freed.fds[f].cache_page = NoPage
      /\ fits => freed = s
  <2>1. CASE cached /\ ~fits
    BY <2>1, WriteBackInv
  <2>2. CASE ~(cached /\ ~fits)
    BY <2>2 DEF SameFds
  <2> QED
    BY <2>1, <2>2
<1> HIDE DEF freed
<1>3. freed.fds[f].open
  BY <1>2 DEF SameFds
<1>4. /\ CallInv(t) /\ SameFds(s, t) /\ Found(t, f)
      /\ ~t.failed /\ i # NoPage =>
           /\ t.c.cpages[i] \in WritePage /\ i \in WritePages(t.c)
           /\ offset >= t.c.cpages[i].offset
  <2>1. CASE fits
    <3>1. t = s
      BY <1>2, <2>1
    <3> HIDE DEF t
    <3>2. i # NoPage => t.c.cpages[i] \in WritePage /\ i \in WritePages(t.c)
      BY <3>1, PageKinds DEF CallInv, OwnedInv, CallType
    <3>3. offset >= t.c.cpages[i].offset
      BY <2>1, <3>1 DEF Fits
    <3> QED
      BY <1>2, <2>1, <3>1, <3>2, <3>3
  <2>2. CASE ~fits /\ freed.failed
    <3>1. t = freed
      BY <2>2
    <3> QED
      BY <1>2, <2>2, <3>1
  <2>3. CASE ~fits /\ ~freed.failed
    <3> DEFINE u == cache_page_allocate_by_fd(freed, f, offset)
    <3>1. t = u
      BY <2>3
    <3>2. /\ CallInv(u) /\ SameFds(freed, u) /\ Found(u, f)
          /\ u.fds[f].cache_page # NoPage =>
               /\ u.fds[f].cache_page \in WritePages(u.c)
               /\ u.c.cpages[u.fds[f].cache_page] = NewWrite(freed, f, offset)
      BY <1>2, <1>3, <2>3, AllocateByFdInv
    <3> HIDE DEF t, u
    <3>3. i # NoPage => t.c.cpages[i] \in WritePage
      BY <3>1, <3>2, PageKinds DEF CallInv, CallType
    <3>4. i # NoPage => offset >= t.c.cpages[i].offset
      BY <3>1, <3>2 DEF NewWrite
    <3> QED
      BY <1>2, <3>1, <3>2, <3>3, <3>4 DEF SameFds
  <2> QED
    BY <2>1, <2>2, <2>3
<1> HIDE DEF t
<1>5. t.fds[f].open
  BY <1>4 DEF SameFds
<1>6. CASE t.failed
  BY <1>1, <1>4, <1>6 DEF r
<1>7. CASE ~t.failed /\ i = NoPage
  <2>1. r = hydro_write(t, f, offset, bytes)
    BY <1>1, <1>7
  <2>2. CallInv(hydro_write(t, f, offset, bytes)) /\ SameFds(t, hydro_write(t, f, offset, bytes))
    BY <1>4, <1>5, HydroInv
  <2> QED
    BY <1>4, <2>1, <2>2 DEF SameFds, r
<1>8. CASE ~t.failed /\ i # NoPage
  <2> DEFINE p == t.c.cpages[i]
             data == Overwrite(p.data, offset - p.offset, bytes)
  <2>1. p \in WritePage /\ offset >= p.offset
    BY <1>4, <1>8
  <2>2. r = WithData(t, i, data)
    BY <1>1, <1>8
  <2>3. data \in Seq(Nat)
    <3> HIDE DEF p
    <3>1. p.offset \in Nat /\ p.data \in Seq(Nat)
      BY <2>1 DEF WritePage
    <3>2. offset - p.offset \in Nat
      BY <2>1, <3>1
    <3> QED
      BY <3>1, <3>2, OverwriteTyped
  <2> HIDE DEF data
  <2>4. CallInv(WithData(t, i, data)) /\ SameFds(t, WithData(t, i, data))
    BY <1>4, <1>8, <2>3, WithDataInv
  <2> QED
    BY <1>4, <2>2, <2>4 DEF SameFds, r
<1> QED
  BY <1>6, <1>7, <1>8

(* A write of a page or more.                                              *)
LEMMA StoreBigInv ==
  ASSUME NEW s, CallInv(s), NEW f \in Fds, s.fds[f].open, Found(s, f),
         NEW offset \in Nat, NEW bytes \in Seq(Nat)
  PROVE  LET t == StoreBig(s, f, offset, bytes)
         IN CallInv(t) /\ SameFds(s, t)
<1> DEFINE t == WriteBack(s, f)
           u == IF t.failed THEN t ELSE hydro_write(t, f, offset, bytes)
           r == StoreBig(s, f, offset, bytes)
<1>1. r = IF s.fds[f].cache_page = NoPage THEN hydro_write(s, f, offset, bytes)
          ELSE IF u.failed THEN u ELSE hydro_write(u, f, offset, bytes)
  BY DEF StoreBig
<1> HIDE DEF r
<1>2. CASE s.fds[f].cache_page = NoPage
  <2>1. r = hydro_write(s, f, offset, bytes)
    BY <1>1, <1>2
  <2>2. CallInv(hydro_write(s, f, offset, bytes)) /\ SameFds(s, hydro_write(s, f, offset, bytes))
    BY HydroInv
  <2> QED
    BY <2>1, <2>2 DEF r
<1>3. CASE s.fds[f].cache_page # NoPage
  <2>1. CallInv(t) /\ SameFds(s, t)
    BY <1>3, WriteBackInv
  <2> HIDE DEF t
  <2>2. t.fds[f].open
    BY <2>1 DEF SameFds
  <2>3. CallInv(hydro_write(t, f, offset, bytes)) /\ SameFds(t, hydro_write(t, f, offset, bytes))
    BY <2>1, <2>2, HydroInv
  <2>4. CallInv(u) /\ SameFds(s, u)
    BY <2>1, <2>3 DEF SameFds
  <2> HIDE DEF u
  <2>5. u.fds[f].open
    BY <2>2, <2>4, <2>1 DEF SameFds
  <2>6. CallInv(hydro_write(u, f, offset, bytes)) /\ SameFds(u, hydro_write(u, f, offset, bytes))
    BY <2>4, <2>5, HydroInv
  <2>7. r = IF u.failed THEN u ELSE hydro_write(u, f, offset, bytes)
    BY <1>1, <1>3
  <2> QED
    BY <2>4, <2>6, <2>7 DEF SameFds, r
<1> QED
  BY <1>2, <1>3

(* The offset of a descriptor moves.                                       *)
WithOffset(s, f, offset) == [s EXCEPT !.fds[f].fdoffset = offset]

OffsetMoved(s, t, f, offset) ==
  /\ t.c = s.c /\ t.content = s.content /\ t.lost = s.lost /\ t.failed = s.failed
  /\ t.good = s.good /\ t.err_code = s.err_code
  /\ \A g \in Fds :
       /\ t.fds[g].open = s.fds[g].open /\ t.fds[g].obj_id = s.fds[g].obj_id
       /\ t.fds[g].flags = s.fds[g].flags
       /\ t.fds[g].cache_page = s.fds[g].cache_page
       /\ t.fds[g].fdoffset = IF g = f THEN offset ELSE s.fds[g].fdoffset

(* Moving a descriptor's offset keeps the invariant.                       *)
LEMMA WithOffsetInv ==
  ASSUME NEW s, CallInv(s), NEW f \in Fds, NEW offset, offset \in Nat
  PROVE  LET t == WithOffset(s, f, offset)
         IN CallInv(t) /\ t.got = s.got /\ OffsetMoved(s, t, f, offset)
<1> DEFINE t == WithOffset(s, f, offset)
           new == [s.fds[f] EXCEPT !.fdoffset = offset]
           d == [s.fds EXCEPT ![f] = new]
<1>1. s \in CallType /\ s.fds \in [Fds -> FdType] /\ OwnedInv(s.c, s.content, s.fds)
  BY DEF CallInv, CallType
<1>2. /\ new \in FdType /\ new.open = s.fds[f].open /\ new.obj_id = s.fds[f].obj_id
      /\ new.flags = s.fds[f].flags /\ new.cache_page = s.fds[f].cache_page
      /\ new.fdoffset = offset
  BY <1>1 DEF FdType
<1>3. t = [s EXCEPT !.fds = d]
  BY <1>1 DEF WithOffset, CallType
<1> HIDE DEF new
<1>4. d \in [Fds -> FdType] /\ \A g \in Fds : d[g] = IF g = f THEN new ELSE s.fds[g]
  BY <1>1, <1>2
<1> HIDE DEF d, t
<1>5. /\ t \in CallType /\ t.fds = d
      /\ t.c = s.c /\ t.content = s.content /\ t.lost = s.lost /\ t.failed = s.failed
      /\ t.good = s.good /\ t.err_code = s.err_code /\ t.got = s.got
  BY <1>1, <1>3, <1>4 DEF CallType
<1>6. \A g \in Fds :
        /\ t.fds[g].open = s.fds[g].open /\ t.fds[g].obj_id = s.fds[g].obj_id
        /\ t.fds[g].flags = s.fds[g].flags
        /\ t.fds[g].cache_page = s.fds[g].cache_page
        /\ t.fds[g].fdoffset = IF g = f THEN offset ELSE s.fds[g].fdoffset
  BY <1>2, <1>4, <1>5
<1>7. OwnedInv(t.c, t.content, t.fds)
  BY <1>1, <1>5, <1>6 DEF OwnedInv
<1> QED
  BY <1>5, <1>6, <1>7 DEF CallInv, OffsetMoved, t

(* SPIFFS_write.                                                           *)
LEMMA WrittenInv ==
  ASSUME NEW s, CallInv(s), NEW f \in Fds, s.fds[f].open, NEW bytes \in Seq(Nat)
  PROVE  CallInv(Written(s, f, bytes))
<1> DEFINE found == FindCached(s, f)
           offset == WriteOffset(found, f)
           t == IF Len(bytes) < LOG_PAGE_SIZE THEN StoreSmall(found, f, offset, bytes)
                ELSE StoreBig(found, f, offset, bytes)
<1>1. CallInv(found) /\ SameFds(s, found) /\ Found(found, f)
  BY FindCachedInv
<1>2. Written(s, f, bytes) =
        IF t.failed THEN Report(t) ELSE [t EXCEPT !.fds[f].fdoffset = @ + Len(bytes)]
  BY DEF Written
<1> HIDE DEF found
<1>3. found.fds[f].open
  BY <1>1 DEF SameFds
<1>4. offset \in Nat
  BY <1>1, <1>3, WriteOffsetTyped
<1> HIDE DEF offset
<1>5. CallInv(t) /\ SameFds(found, t)
  <2>1. CallInv(StoreSmall(found, f, offset, bytes)) /\ SameFds(found, StoreSmall(found, f, offset, bytes))
    BY <1>1, <1>3, <1>4, StoreSmallInv
  <2>2. CallInv(StoreBig(found, f, offset, bytes)) /\ SameFds(found, StoreBig(found, f, offset, bytes))
    BY <1>1, <1>3, <1>4, StoreBigInv
  <2> QED
    BY <2>1, <2>2
<1> HIDE DEF t
<1>6. CASE t.failed
  <2>1. CallInv(Report(t))
    BY <1>5, ReportInv
  <2> QED
    BY <1>2, <1>6, <2>1
<1>7. CASE ~t.failed
  <2> DEFINE end == t.fds[f].fdoffset + Len(bytes)
  <2>1. Written(s, f, bytes) = WithOffset(t, f, end)
    BY <1>2, <1>5, <1>7 DEF WithOffset, CallInv, CallType
  <2>2. end \in Nat
    BY <1>5 DEF CallInv, CallType, FdType
  <2> HIDE DEF end
  <2>3. CallInv(WithOffset(t, f, end))
    BY <1>5, <2>2, WithOffsetInv
  <2> QED
    BY <2>1, <2>3
<1> QED
  BY <1>6, <1>7

(* The smaller of two numbers.                                             *)
LEMMA MinOfTwo ==
  ASSUME NEW a \in Nat, NEW b \in Nat
  PROVE  Min({a, b}) = IF a <= b THEN a ELSE b
<1> DEFINE m == IF a <= b THEN a ELSE b
<1>1. m \in {a, b} /\ \A x \in {a, b} : m <= x
  OBVIOUS
<1>2. \A x \in {a, b} : (\A y \in {a, b} : x <= y) => x = m
  OBVIOUS
<1> HIDE DEF m
<1> DEFINE S == {a, b}
<1>3. Min(S) = CHOOSE x \in S : \A y \in S : x <= y
  BY DEF Min
<1>4. m \in S /\ (\A x \in S : m <= x) /\ (\A x \in S : (\A y \in S : x <= y) => x = m)
  BY <1>1, <1>2
<1> HIDE DEF S
<1> QED
  BY <1>3, <1>4 DEF S, m

(* The bytes a read returns.                                               *)
ReadBytes(bytes, from, len) == SubSeq(bytes, from + 1, Min({from + len, Len(bytes)}))

(* A read returns bytes, and none from behind the end.                     *)
LEMMA ReadBytesTyped ==
  ASSUME NEW bytes \in Seq(Nat), NEW from \in Nat, NEW len \in Nat
  PROVE  /\ ReadBytes(bytes, from, len) \in Seq(Nat)
         /\ Len(ReadBytes(bytes, from, len)) \in Nat
         /\ from <= Len(bytes) => from + Len(ReadBytes(bytes, from, len)) <= Len(bytes)
<1> DEFINE end == Min({from + len, Len(bytes)})
<1>1. from + len \in Nat /\ Len(bytes) \in Nat
  OBVIOUS
<1>2. end = IF from + len <= Len(bytes) THEN from + len ELSE Len(bytes)
  BY <1>1, MinOfTwo
<1> HIDE DEF end
<1>3. end \in Nat /\ end <= Len(bytes)
  BY <1>1, <1>2
<1>4. ReadBytes(bytes, from, len) = SubSeq(bytes, from + 1, end)
  BY DEF ReadBytes, end
<1>5. \A i \in from + 1 .. end : i \in 1 .. Len(bytes)
  BY <1>1, <1>3
<1>6. /\ SubSeq(bytes, from + 1, end) \in Seq(Nat)
      /\ Len(SubSeq(bytes, from + 1, end)) = IF from + 1 <= end THEN end - (from + 1) + 1 ELSE 0
  <2>1. from + 1 \in Int /\ end \in Int
    BY <1>3
  <2>2. SubSeq(bytes, from + 1, end) \in Seq(Nat)
    BY <1>5, <2>1, SubSeqProperties
  <2>3. Len(SubSeq(bytes, from + 1, end)) = IF from + 1 <= end THEN end - (from + 1) + 1 ELSE 0
    BY <1>5, <2>1, SubSeqProperties
  <2> QED
    BY <2>2, <2>3
<1> DEFINE n == Len(SubSeq(bytes, from + 1, end))
<1>7. n = IF from + 1 <= end THEN end - (from + 1) + 1 ELSE 0
  BY <1>6
<1> HIDE DEF n
<1>8. n \in Nat /\ (from <= Len(bytes) => from + n <= Len(bytes))
  BY <1>1, <1>3, <1>7
<1> QED
  BY <1>4, <1>6, <1>8 DEF n

(* SPIFFS_read from the file.                                              *)
LEMMA ReadStoredInv ==
  ASSUME NEW s, CallInv(s), NEW f \in Fds, s.fds[f].open, NEW len \in Nat
  PROVE  LET t == ReadStored(s, f, len)
             bytes == ReadBytes(s.content[s.fds[f].obj_id], s.fds[f].fdoffset, len)
         IN CallInv(t) /\ t.got = bytes /\ OffsetMoved(s, t, f, s.fds[f].fdoffset + Len(bytes))
<1> DEFINE t == ReadStored(s, f, len)
           bytes == ReadBytes(s.content[s.fds[f].obj_id], s.fds[f].fdoffset, len)
           end == s.fds[f].fdoffset + Len(bytes)
           u == [s EXCEPT !.got = bytes]
<1>1. /\ s \in CallType /\ s.fds \in [Fds -> FdType] /\ s.content \in ContentType
      /\ OwnedInv(s.c, s.content, s.fds)
  BY DEF CallInv, CallType
<1>2. s.fds[f].fdoffset \in Nat
  BY <1>1 DEF FdType
<1>3. s.content[s.fds[f].obj_id] \in Seq(Nat)
  BY <1>1, ContentTyped DEF OwnedInv
<1>4. bytes \in Seq(Nat) /\ Len(bytes) \in Nat
  <2> DEFINE old == s.content[s.fds[f].obj_id]
             from == s.fds[f].fdoffset
  <2>1. old \in Seq(Nat) /\ from \in Nat
    BY <1>2, <1>3
  <2>2. bytes = ReadBytes(old, from, len)
    OBVIOUS
  <2> HIDE DEF old, from, bytes
  <2> QED
    BY <2>1, <2>2, ReadBytesTyped
<1>5. t = [s EXCEPT !.got = bytes, !.fds[f].fdoffset = @ + Len(bytes)]
  BY DEF ReadStored, ReadBytes, Size
<1> HIDE DEF bytes, t
<1>6. end \in Nat
  BY <1>2, <1>4
<1>7. t = WithOffset(u, f, end)
  BY <1>1, <1>5 DEF WithOffset, CallType
<1>8. /\ u \in CallType /\ u.fds = s.fds /\ u.got = bytes
      /\ u.c = s.c /\ u.content = s.content /\ u.lost = s.lost /\ u.failed = s.failed
      /\ u.good = s.good /\ u.err_code = s.err_code
  BY <1>1, <1>4 DEF CallType
<1> HIDE DEF u
<1>9. CallInv(u)
  BY <1>8 DEF CallInv
<1> HIDE DEF end
<1>10. CallInv(t) /\ t.got = u.got /\ OffsetMoved(u, t, f, end)
  BY <1>6, <1>7, <1>9, WithOffsetInv
<1>11. OffsetMoved(s, t, f, end)
  BY <1>8, <1>10 DEF OffsetMoved
<1> QED
  BY <1>8, <1>10, <1>11 DEF end, t, bytes

(* SPIFFS_lseek.                                                           *)
LEMMA SoughtInv ==
  ASSUME NEW s, CallInv(s), NEW f \in Fds, s.fds[f].open, NEW offset \in Nat
  PROVE  CallInv(Sought(s, f, offset))
<1> DEFINE t == fflush_cache(s, f)
<1>1. CallInv(t)
  BY FflushInv
<1>2. Sought(s, f, offset) =
        IF offset <= Size(t, f) /\ Size(t, f) > 0 THEN WithOffset(t, f, offset) ELSE t
  BY DEF Sought, WithOffset
<1> HIDE DEF t
<1>3. CallInv(WithOffset(t, f, offset))
  BY <1>1, WithOffsetInv
<1> QED
  BY <1>1, <1>2, <1>3

(* Descriptors that have no cache page close.                              *)
LEMMA OwnedClosed ==
  ASSUME NEW c \in CacheType, NEW bytes, NEW fd, OwnedInv(c, bytes, fd),
         NEW G \in SUBSET Fds, \A g \in G : fd[g].cache_page = NoPage,
         NEW fd2, \A g \in Fds : fd2[g] = IF g \in G THEN Close(fd[g]) ELSE fd[g],
         NEW bytes2, \A g \in Fds \ G : fd[g].open => fd[g].obj_id \in DOMAIN bytes2
  PROVE  OwnedInv(c, bytes2, fd2)
<1>1. \A g \in G : ~fd2[g].open /\ fd2[g].cache_page = NoPage
  <2>1. SUFFICES ASSUME NEW g \in G
                 PROVE  ~fd2[g].open /\ fd2[g].cache_page = NoPage
    OBVIOUS
  <2>2. fd2[g] = Close(fd[g]) /\ fd[g].cache_page = NoPage
    OBVIOUS
  <2>3. ~Close(fd[g]).open /\ Close(fd[g]).cache_page = fd[g].cache_page
    BY DEF Close, Closed
  <2> QED
    BY <2>2, <2>3
<1>2. \A g \in Fds \ G : fd2[g] = fd[g]
  OBVIOUS
<1>3. \A i \in WritePages(c) : i # NoPage
  BY PageKinds DEF Slots
<1>4. \A g \in Fds : fd2[g].open => fd2[g].obj_id \in DOMAIN bytes2
  BY <1>1, <1>2
<1>5. \A g \in Fds : fd2[g].cache_page # NoPage =>
        /\ fd2[g].open
        /\ fd2[g].cache_page \in WritePages(c)
        /\ c.cpages[fd2[g].cache_page].obj_id = fd2[g].obj_id
  BY <1>1, <1>2 DEF OwnedInv
<1>6. \A i \in WritePages(c) : \E g \in Fds : fd2[g].open /\ fd2[g].cache_page = i
  <2>1. SUFFICES ASSUME NEW i \in WritePages(c)
                 PROVE  \E g \in Fds : fd2[g].open /\ fd2[g].cache_page = i
    OBVIOUS
  <2>2. PICK g \in Fds : fd[g].open /\ fd[g].cache_page = i
    BY DEF OwnedInv
  <2>3. g \notin G
    BY <1>3, <2>2
  <2> QED
    BY <1>2, <2>2, <2>3
<1> QED
  BY <1>4, <1>5, <1>6 DEF OwnedInv

(* A closed descriptor keeps its cache page.                               *)
LEMMA CloseTyped ==
  ASSUME NEW d \in FdType
  PROVE  Close(d) \in FdType /\ ~Close(d).open /\ Close(d).cache_page = d.cache_page
BY DEF Close, Closed, FdType

(* SPIFFS_close: after the flush the descriptor has no cache page.         *)
LEMMA ReturnedInv ==
  ASSUME NEW s, CallInv(s), NEW f \in Fds, s.fds[f].cache_page = NoPage
  PROVE  LET t == Returned(s, f)
         IN /\ CallInv(t) /\ t.c = s.c /\ t.content = s.content /\ t.lost = s.lost
            /\ t.failed = s.failed /\ t.err_code = s.err_code
            /\ \A g \in Fds : t.fds[g] = IF g = f THEN Close(s.fds[f]) ELSE s.fds[g]
<1> DEFINE t == Returned(s, f)
           d == [s.fds EXCEPT ![f] = Close(s.fds[f])]
<1>1. /\ s \in CallType /\ s.fds \in [Fds -> FdType] /\ s.c \in CacheType
      /\ OwnedInv(s.c, s.content, s.fds)
  BY DEF CallInv, CallType
<1>2. d \in [Fds -> FdType] /\ \A g \in Fds : d[g] = IF g = f THEN Close(s.fds[f]) ELSE s.fds[g]
  <2>1. Close(s.fds[f]) \in FdType
    BY <1>1, CloseTyped
  <2> QED
    BY <1>1, <2>1
<1>3. t = [s EXCEPT !.fds = d]
  BY <1>1 DEF Returned, CallType
<1> HIDE DEF t, d
<1>4. /\ t \in CallType /\ t.c = s.c /\ t.content = s.content /\ t.lost = s.lost /\ t.fds = d
      /\ t.failed = s.failed /\ t.err_code = s.err_code
  BY <1>1, <1>2, <1>3 DEF CallType
<1>5. OwnedInv(s.c, s.content, d)
  <2> DEFINE G == {f}
  <2>1. /\ G \in SUBSET Fds /\ \A g \in G : s.fds[g].cache_page = NoPage
        /\ \A g \in Fds : d[g] = IF g \in G THEN Close(s.fds[g]) ELSE s.fds[g]
        /\ \A g \in Fds \ G : s.fds[g].open => s.fds[g].obj_id \in DOMAIN s.content
    BY <1>1, <1>2 DEF OwnedInv
  <2> HIDE DEF G
  <2> QED
    BY <1>1, <2>1, OwnedClosed
<1> QED
  BY <1>2, <1>4, <1>5 DEF CallInv, t

(* A file is removed of which nothing is cached.                           *)
LEMMA RemovedInv ==
  ASSUME NEW s, CallInv(s), NEW id \in Ids,
         \A g \in Fds : s.fds[g].open /\ s.fds[g].obj_id = id => s.fds[g].cache_page = NoPage
  PROVE  LET t == Removed(s, id)
         IN /\ CallInv(t) /\ t.c = s.c /\ t.lost = s.lost \ {id}
            /\ t.failed = s.failed /\ t.err_code = s.err_code
            /\ DOMAIN t.content = DOMAIN s.content \ {id}
            /\ \A i \in DOMAIN s.content \ {id} : t.content[i] = s.content[i]
            /\ \A g \in Fds : t.fds[g] = IF s.fds[g].open /\ s.fds[g].obj_id = id
                                         THEN Close(s.fds[g]) ELSE s.fds[g]
<1> DEFINE t == Removed(s, id)
           d == [g \in Fds |-> IF s.fds[g].open /\ s.fds[g].obj_id = id
                               THEN Close(s.fds[g]) ELSE s.fds[g]]
           new == [i \in DOMAIN s.content \ {id} |-> s.content[i]]
<1>1. /\ s \in CallType /\ s.fds \in [Fds -> FdType] /\ s.c \in CacheType
      /\ s.content \in ContentType /\ OwnedInv(s.c, s.content, s.fds)
  BY DEF CallInv, CallType
<1>2. d \in [Fds -> FdType]
  <2>1. \A g \in Fds : s.fds[g] \in FdType /\ Close(s.fds[g]) \in FdType
    BY <1>1, CloseTyped
  <2> QED
    BY <2>1
<1>3. new \in ContentType /\ DOMAIN new = DOMAIN s.content \ {id}
  <2> DEFINE D == DOMAIN s.content \ {id}
  <2>1. D \in SUBSET Ids /\ new \in [D -> Seq(Nat)]
    BY <1>1, ContentTyped
  <2>2. new \in ContentType
    BY <2>1, ContentMade
  <2> QED
    BY <2>2
<1>4. t = [s EXCEPT !.content = new, !.lost = s.lost \ {id}, !.fds = d]
  BY <1>1 DEF Removed, CallType
<1>5. \A g \in Fds : d[g] = IF s.fds[g].open /\ s.fds[g].obj_id = id
                            THEN Close(s.fds[g]) ELSE s.fds[g]
  OBVIOUS
<1>6. \A i \in DOMAIN s.content \ {id} : new[i] = s.content[i]
  OBVIOUS
<1> HIDE DEF t, d, new
<1>7. /\ t \in CallType /\ t.c = s.c /\ t.content = new /\ t.lost = s.lost \ {id} /\ t.fds = d
      /\ t.failed = s.failed /\ t.err_code = s.err_code
  BY <1>1, <1>2, <1>3, <1>4 DEF CallType
<1>8. OwnedInv(s.c, new, d)
  <2> DEFINE G == {g \in Fds : s.fds[g].open /\ s.fds[g].obj_id = id}
  <2>1. /\ G \in SUBSET Fds /\ \A g \in G : s.fds[g].cache_page = NoPage
        /\ \A g \in Fds : d[g] = IF g \in G THEN Close(s.fds[g]) ELSE s.fds[g]
        /\ \A g \in Fds \ G : s.fds[g].open => s.fds[g].obj_id \in DOMAIN new
    BY <1>1, <1>3, <1>5 DEF OwnedInv
  <2> HIDE DEF G
  <2> QED
    BY <1>1, <2>1, OwnedClosed
<1> QED
  BY <1>3, <1>5, <1>6, <1>7, <1>8 DEF CallInv, t

(* SPIFFS_fremove by the only descriptor of the file.                      *)
LEMMA RemovedByInv ==
  ASSUME NEW s, CallInv(s), NEW f \in Fds, s.fds[f].open,
         \A g \in Fds : s.fds[g].open /\ s.fds[g].obj_id = s.fds[f].obj_id => g = f
  PROVE  CallInv(RemovedBy(s, f))
<1> DEFINE i == s.fds[f].cache_page
           id == s.fds[f].obj_id
           t == IF i = NoPage THEN s ELSE cache_fd_release(s, i)
           u == [t EXCEPT !.failed = TRUE, !.lost = IF i = NoPage THEN @ ELSE @ \union {id}]
<1>1. s.content \in ContentType /\ OwnedInv(s.c, s.content, s.fds)
  BY DEF CallInv, CallType
<1>2. id \in Ids
  BY <1>1, ContentTyped DEF OwnedInv
<1>3. RemovedBy(s, f) = IF s.good > 0 THEN Removed(t, id) ELSE Report(u)
  BY DEF RemovedBy
<1>4. CallInv(t) /\ SameFds(s, t) /\ t.fds[f].cache_page = NoPage
  <2>1. CASE i = NoPage
    BY <2>1 DEF SameFds
  <2>2. CASE i # NoPage
    <3>1. i \in WritePages(s.c)
      BY <1>1, <2>2 DEF OwnedInv
    <3> DEFINE w == cache_fd_release(s, i)
    <3>2. CallInv(w) /\ SameFds(s, w) /\ w.fds[f].cache_page = NoPage
      BY <3>1, ReleaseInv
    <3> QED
      BY <2>2, <3>2
  <2> QED
    BY <2>1, <2>2
<1> HIDE DEF t
<1>5. CallInv(Removed(t, id))
  <2>1. \A g \in Fds : t.fds[g].open /\ t.fds[g].obj_id = id => t.fds[g].cache_page = NoPage
    BY <1>4 DEF SameFds
  <2> QED
    BY <1>2, <1>4, <2>1, RemovedInv
<1>6. CallInv(Report(u))
  <2>1. t \in CallType
    BY <1>4 DEF CallInv
  <2>2. /\ u \in CallType /\ u.c = t.c /\ u.content = t.content /\ u.fds = t.fds
    BY <1>2, <2>1 DEF CallType
  <2> HIDE DEF u
  <2>3. CallInv(u)
    BY <1>4, <2>2 DEF CallInv
  <2> QED
    BY <2>3, ReportInv
<1> QED
  BY <1>3, <1>5, <1>6

(* SPIFFS_open.                                                            *)
OpenedAs(s, t, f, id, flags, empty) ==
  /\ CallInv(t) /\ t.c = s.c /\ t.failed = s.failed /\ t.err_code = s.err_code
  /\ t.lost = IF empty THEN s.lost \ {id} ELSE s.lost
  /\ DOMAIN t.content = DOMAIN s.content \union {id}
  /\ \A i \in DOMAIN t.content :
       t.content[i] = IF empty /\ i = id THEN <<>> ELSE s.content[i]
  /\ \A g \in Fds : g # f => t.fds[g] = s.fds[g]
  /\ t.fds[f] = [open |-> TRUE, obj_id |-> id, fdoffset |-> 0, flags |-> flags,
                 cache_page |-> NoPage]

(* SPIFFS_open takes a free descriptor, which has no cache page.           *)
LEMMA OpenedInv ==
  ASSUME NEW s, CallInv(s), NEW f \in Fds, ~s.fds[f].open, NEW id \in Ids, NEW flags \in OpenFlags,
         NEW empty \in BOOLEAN, empty \/ id \in DOMAIN s.content
  PROVE  OpenedAs(s, Opened(s, f, id, flags, empty), f, id, flags, empty)
<1> DEFINE r == Opened(s, f, id, flags, empty)
           opened == [open |-> TRUE, obj_id |-> id, fdoffset |-> 0, flags |-> flags,
                      cache_page |-> NoPage]
           d == [s.fds EXCEPT ![f] = opened]
           t == [s EXCEPT !.fds = d]
           new == [i \in DOMAIN s.content \union {id} |-> IF i = id THEN <<>> ELSE s.content[i]]
<1>1. /\ s \in CallType /\ s.fds \in [Fds -> FdType] /\ s.c \in CacheType
      /\ s.content \in ContentType /\ OwnedInv(s.c, s.content, s.fds)
  BY DEF CallInv, CallType
<1>2. s.fds[f].cache_page = NoPage
  BY <1>1 DEF OwnedInv
<1>3. r = IF empty THEN [t EXCEPT !.content = new, !.lost = s.lost \ {id}] ELSE t
  BY <1>1, <1>2 DEF Opened, CallType
<1>4. opened \in FdType
  BY DEF FdType
<1> HIDE DEF opened
<1>5. d \in [Fds -> FdType] /\ d[f] = opened /\ \A g \in Fds : g # f => d[g] = s.fds[g]
  BY <1>1, <1>4
<1>6. /\ t \in CallType /\ t.c = s.c /\ t.content = s.content /\ t.lost = s.lost /\ t.fds = d
      /\ t.failed = s.failed /\ t.err_code = s.err_code
  BY <1>1, <1>5 DEF CallType
<1>7. /\ new \in ContentType /\ DOMAIN new = DOMAIN s.content \union {id}
      /\ \A i \in DOMAIN new : new[i] = IF i = id THEN <<>> ELSE s.content[i]
  <2> DEFINE D == DOMAIN s.content \union {id}
  <2>1. <<>> \in Seq(Nat)
    OBVIOUS
  <2>2. D \in SUBSET Ids /\ new \in [D -> Seq(Nat)]
    BY <1>1, <2>1, ContentTyped
  <2>3. new \in ContentType
    BY <2>2, ContentMade
  <2> QED
    BY <2>3
<1> HIDE DEF d, t, new, r
<1>8. /\ r \in CallType /\ r.c = s.c /\ r.fds = d /\ r.failed = s.failed /\ r.err_code = s.err_code
      /\ r.lost = IF empty THEN s.lost \ {id} ELSE s.lost
      /\ r.content = IF empty THEN new ELSE s.content
  <2>1. CASE empty
    BY <1>3, <1>6, <1>7, <2>1 DEF CallType
  <2>2. CASE ~empty
    BY <1>3, <1>6, <2>2
  <2> QED
    BY <2>1, <2>2
<1>9. /\ DOMAIN r.content = DOMAIN s.content \union {id}
      /\ \A i \in DOMAIN r.content : r.content[i] = IF empty /\ i = id THEN <<>> ELSE s.content[i]
  <2>1. CASE empty
    BY <1>7, <1>8, <2>1
  <2>2. CASE ~empty
    BY <1>8, <2>2
  <2> QED
    BY <2>1, <2>2
<1>10. OwnedInv(r.c, r.content, r.fds)
  <2>1. opened.open /\ opened.obj_id = id /\ opened.cache_page = NoPage
    BY DEF opened
  <2>2. \A g \in Fds : r.fds[g].open => r.fds[g].obj_id \in DOMAIN r.content
    BY <1>1, <1>5, <1>8, <1>9, <2>1 DEF OwnedInv
  <2>3. \A g \in Fds : r.fds[g].cache_page # NoPage =>
          /\ r.fds[g].open
          /\ r.fds[g].cache_page \in WritePages(r.c)
          /\ r.c.cpages[r.fds[g].cache_page].obj_id = r.fds[g].obj_id
    BY <1>1, <1>5, <1>8, <2>1 DEF OwnedInv
  <2>4. \A i \in WritePages(r.c) : \E g \in Fds : r.fds[g].open /\ r.fds[g].cache_page = i
    <3>1. SUFFICES ASSUME NEW i \in WritePages(r.c)
                   PROVE  \E g \in Fds : r.fds[g].open /\ r.fds[g].cache_page = i
      OBVIOUS
    <3>2. PICK g \in Fds : s.fds[g].open /\ s.fds[g].cache_page = i
      BY <1>1, <1>8 DEF OwnedInv
    <3>3. g # f
      BY <3>2
    <3> QED
      BY <1>5, <1>8, <3>2, <3>3
  <2> QED
    BY <1>1, <1>8, <2>2, <2>3, <2>4 DEF OwnedInv
<1> QED
  BY <1>5, <1>8, <1>9, <1>10 DEF OpenedAs, CallInv, r, opened

(* -------------------------- the steps of the system ---------------------*)

(* A call starts from the state.                                           *)
LEMMA CallStarts ==
  ASSUME StateInv, NEW g \in 0 .. 3
  PROVE  /\ CallInv(Current(g))
         /\ Current(g).c = cache /\ Current(g).content = content /\ Current(g).fds = fds
         /\ Current(g).err_code = "OK" /\ Current(g).lost = lost
         /\ Current(g).good = g /\ Current(g).failed = FALSE
<1>1. \A n : /\ Current(n).c = cache /\ Current(n).content = content /\ Current(n).fds = fds
             /\ Current(n).err_code = "OK" /\ Current(n).lost = lost
             /\ Current(n).good = n /\ Current(n).failed = FALSE
  BY DEF Current
<1>2. CallInv(Current(0))
  BY DEF StateInv
<1>3. /\ cache \in CacheType /\ content \in ContentType /\ fds \in [Fds -> FdType]
      /\ lost \in SUBSET Ids
  BY <1>1, <1>2 DEF CallInv, CallType
<1>4. Current(g) \in CallType
  <2>1. <<>> \in Seq(Nat)
    OBVIOUS
  <2> QED
    BY <1>3, <2>1 DEF Current, CallType
<1> QED
  BY <1>1, <1>2, <1>4 DEF CallInv

(* What the invariant says of the variables.                               *)
LEMMA StateTyped ==
  ASSUME StateInv
  PROVE  /\ cache \in CacheType /\ CacheInv(cache) /\ CurrentInv(cache)
         /\ OwnedInv(cache, content, fds) /\ content \in ContentType
         /\ fds \in [Fds -> FdType] /\ lost \in SUBSET Ids
<1>1. Current(0).c = cache /\ Current(0).content = content /\ Current(0).fds = fds
      /\ Current(0).lost = lost
  BY DEF Current
<1> QED
  BY <1>1 DEF StateInv, CallInv, CallType

(* The invariant, from what it says of the variables.                      *)
LEMMA StateMade ==
  ASSUME CacheInv(cache), CurrentInv(cache), OwnedInv(cache, content, fds),
         content \in ContentType, fds \in [Fds -> FdType], lost \in SUBSET Ids,
         err_code \in {"OK", "FULL"}
  PROVE  StateInv
<1>1. cache \in CacheType
  BY DEF CacheInv
<1>2. <<>> \in Seq(Nat)
  OBVIOUS
<1>3. Current(0) \in CallType
  BY <1>1, <1>2 DEF Current, CallType
<1>4. Current(0).c = cache /\ Current(0).content = content /\ Current(0).fds = fds
  BY DEF Current
<1> QED
  BY <1>3, <1>4 DEF StateInv, CallInv

(* What a call leaves is the next state.                                   *)
LEMMA KeepInv ==
  ASSUME NEW s, CallInv(s), Keep(s)
  PROVE  StateInv'
<1>1. /\ s \in CallType /\ cache' = s.c /\ content' = s.content /\ fds' = s.fds
      /\ err_code' = s.err_code /\ lost' = s.lost
      /\ CacheInv(s.c) /\ CurrentInv(s.c) /\ OwnedInv(s.c, s.content, s.fds)
  BY DEF Keep, CallInv
<1>2. /\ s.content \in ContentType /\ s.fds \in [Fds -> FdType] /\ s.lost \in SUBSET Ids
      /\ s.err_code \in {"OK", "FULL"}
  BY <1>1 DEF CallType
<1>3. /\ CacheInv(cache)' /\ CurrentInv(cache)' /\ OwnedInv(cache, content, fds)'
      /\ (content \in ContentType)' /\ (fds \in [Fds -> FdType])' /\ (lost \in SUBSET Ids)'
      /\ (err_code \in {"OK", "FULL"})'
  BY <1>1, <1>2
<1> QED
  BY <1>3, StateMade, PTL

(* Fewer files are open, or there are fewer files, than the cache has pages. *)
RoomForReads ==
  \/ Cardinality(Fds) < cpage_count
  \/ IsFiniteSet(Ids) /\ Cardinality(Ids) < cpage_count

(* Then not every page has a cached write: each belongs to a descriptor and *)
(* to an object of its own.                                                *)
LEMMA NotAllWritten ==
  ASSUME StateInv, RoomForReads
  PROVE  ReadPages(cache) # {} \/ ~Full(cache)
<1>1. cache \in CacheType /\ OwnedInv(cache, content, fds) /\ content \in ContentType
  BY StateTyped
<1>2. SUFFICES ASSUME ReadPages(cache) = {}, Full(cache)
               PROVE  FALSE
  OBVIOUS
<1>3. WritePages(cache) = Slots
  BY <1>1, <1>2, PageKinds DEF Full
<1>4. IsFiniteSet(Slots) /\ Cardinality(Slots) = cpage_count
  BY FS_Interval DEF Slots
<1>5. CASE Cardinality(Fds) < cpage_count
  <2> DEFINE of == [i \in Slots |-> CHOOSE g \in Fds : fds[g].open /\ fds[g].cache_page = i]
  <2>1. \A i \in Slots : of[i] \in Fds /\ fds[of[i]].cache_page = i
    <3>1. \A i \in Slots : \E g \in Fds : fds[g].open /\ fds[g].cache_page = i
      BY <1>1, <1>3 DEF OwnedInv
    <3> QED
      BY <3>1
  <2>2. of \in [Slots -> Fds]
    BY <2>1
  <2> HIDE DEF of
  <2>3. PICK i, j \in Slots : i # j /\ of[i] = of[j]
    BY <1>4, <1>5, <2>2, FS_PigeonHole
  <2> QED
    BY <2>1, <2>3
<1>6. CASE IsFiniteSet(Ids) /\ Cardinality(Ids) < cpage_count
  <2> DEFINE of == [i \in Slots |-> cache.cpages[i].obj_id]
  <2>1. of \in [Slots -> Ids]
    <3>1. SUFFICES ASSUME NEW i \in Slots
                   PROVE  cache.cpages[i].obj_id \in Ids
      OBVIOUS
    <3>2. cache.cpages[i] \in WritePage
      BY <1>1, <1>3, PageKinds
    <3> QED
      BY <3>2 DEF WritePage
  <2>2. \A i, j \in Slots : of[i] = of[j] => i = j
    BY <1>1, <1>3 DEF OwnedInv
  <2> HIDE DEF of
  <2>3. PICK i, j \in Slots : i # j /\ of[i] = of[j]
    BY <1>4, <1>6, <2>1, FS_PigeonHole
  <2> QED
    BY <2>2, <2>3
<1> QED
  BY <1>5, <1>6 DEF RoomForReads

(* A step of the flash changes no cached write.                            *)
LEMMA FlashStep ==
  ASSUME StateInv, CacheInv(cache'), CurrentInv(cache'), SameWrites(cache, cache'),
         UNCHANGED <<content, fds, err_code, lost>>
  PROVE  StateInv'
<1>1. /\ CacheInv(cache) /\ OwnedInv(cache, content, fds) /\ content \in ContentType
      /\ fds \in [Fds -> FdType] /\ lost \in SUBSET Ids
  BY StateTyped
<1>2. OwnedInv(cache', content, fds)
  BY <1>1, OwnedSameWrites
<1>3. /\ CacheInv(cache)' /\ CurrentInv(cache)' /\ OwnedInv(cache, content, fds)'
      /\ (content \in ContentType)' /\ (fds \in [Fds -> FdType])' /\ (lost \in SUBSET Ids)'
      /\ (err_code \in {"OK", "FULL"})'
  BY <1>1, <1>2 DEF StateInv
<1> QED
  BY <1>3, StateMade, PTL

(* A cache with nothing in it.                                             *)
LEMMA EmptyCache ==
  /\ CacheInv(cache_init) /\ CurrentInv(cache_init)
  /\ WritePages(cache_init) = {}
<1> DEFINE c == cache_init
<1>1. c.cpages = [i \in Slots |-> Free] /\ c.older = {} /\ c.newest = NoPage
  BY DEF cache_init, Slots
<1>2. c \in CacheType
  BY DEF cache_init, CacheType, Slots
<1> HIDE DEF c
<1>3. ReadPages(c) = {} /\ WritePages(c) = {}
  BY <1>1, <1>2, PageKinds DEF Free
<1> QED
  BY <1>1, <1>2, <1>3 DEF CacheInv, OrderInv, CopiesInv, CurrentInv, c

(* After a mount no descriptor is open or has a cache page.                *)
LEMMA NoFdsTyped ==
  /\ NoFds \in [Fds -> FdType]
  /\ \A g \in Fds : ~NoFds[g].open /\ NoFds[g].cache_page = NoPage
<1>1. Closed(NoPage) \in FdType /\ ~Closed(NoPage).open /\ Closed(NoPage).cache_page = NoPage
  BY DEF Closed, FdType
<1> HIDE DEF NoPage
<1> QED
  BY <1>1 DEF NoFds

(* The cache is blank at the start.                                        *)
LEMMA InitState ==
  Init => StateInv
<1> SUFFICES ASSUME Init
             PROVE  StateInv
  OBVIOUS
<1>1. cache = cache_init /\ fds = NoFds /\ content = <<>> /\ err_code = "OK" /\ lost = {}
  BY DEF Init
<1>2. content \in ContentType
  <2>1. DOMAIN content = {} /\ content \in [{} -> Seq(Nat)]
    BY <1>1
  <2> QED
    BY <2>1, ContentMade
<1>3. OwnedInv(cache, content, fds)
  BY <1>1, EmptyCache, NoFdsTyped DEF OwnedInv
<1> QED
  BY <1>1, <1>2, <1>3, EmptyCache, NoFdsTyped, StateMade

(* A reset leaves a blank cache, no open descriptors, and every file.      *)
LEMMA MountState ==
  ASSUME StateInv, SPIFFS_mount
  PROVE  StateInv'
<1> DEFINE unwritten == {cache.cpages[i].obj_id : i \in WritePages(cache)}
<1>1. /\ cache' = cache_init /\ fds' = NoFds /\ content' = content /\ err_code' = "OK"
      /\ lost' = lost \union unwritten
  BY DEF SPIFFS_mount, Keep, Current
<1>2. cache \in CacheType /\ content \in ContentType /\ lost \in SUBSET Ids
  BY StateTyped
<1>3. unwritten \in SUBSET Ids
  BY <1>2, PageKinds DEF WritePage
<1>4. OwnedInv(cache_init, content, NoFds)
  BY EmptyCache, NoFdsTyped DEF OwnedInv
<1>5. /\ CacheInv(cache)' /\ CurrentInv(cache)' /\ OwnedInv(cache, content, fds)'
      /\ (content \in ContentType)' /\ (fds \in [Fds -> FdType])' /\ (lost \in SUBSET Ids)'
      /\ (err_code \in {"OK", "FULL"})'
  BY <1>1, <1>2, <1>3, <1>4, EmptyCache, NoFdsTyped
<1> QED
  BY <1>5, StateMade, PTL

(* The descriptor that is taken is a free one.                             *)
LEMMA FreeFdFound ==
  ASSUME FreeFds # {}
  PROVE  Min(FreeFds) \in Fds /\ ~fds[Min(FreeFds)].open
<1>1. Cardinality(Fds) \in Nat
  BY FS_CardinalityType
<1>2. FreeFds \in SUBSET (1 .. Cardinality(Fds))
  BY DEF FreeFds
<1>3. Min(FreeFds) \in FreeFds
  BY <1>1, <1>2, MinIsLeast
<1> QED
  BY <1>3 DEF FreeFds

(* Every step keeps the invariant, if files that are open are not removed  *)
(* by name.                                                                *)
LEMMA NextState ==
  ASSUME Exclusive, StateInv, [Next]_vars
  PROVE  StateInv'
<1>1. ASSUME NEW id \in Ids, NEW flags \in OpenFlags, NEW trunc \in BOOLEAN,
             SPIFFS_open(id, flags, trunc)
      PROVE  StateInv'
  <2> DEFINE f == Min(FreeFds)
             empty == trunc \/ id \notin DOMAIN content
  <2>1. f \in Fds /\ ~fds[f].open
    BY <1>1, FreeFdFound DEF SPIFFS_open
  <2>2. PICK good \in 0 .. 3 : Keep(Opened(Current(good), f, id, flags, empty))
    BY <1>1 DEF SPIFFS_open, Call
  <2>3. /\ CallInv(Current(good)) /\ Current(good).fds = fds /\ Current(good).content = content
        /\ Current(good).c = cache
    BY CallStarts
  <2>4. empty \in BOOLEAN /\ (empty \/ id \in DOMAIN content)
    OBVIOUS
  <2> HIDE DEF f, empty
  <2>5. CallInv(Opened(Current(good), f, id, flags, empty))
    BY <2>1, <2>4, <2>3, OpenedInv DEF OpenedAs
  <2> QED
    BY <2>2, <2>5, KeepInv
<1>2. ASSUME NEW f \in Fds, NEW bytes \in Writes, SPIFFS_write(f, bytes)
      PROVE  StateInv'
  <2>1. fds[f].open /\ bytes \in Seq(Nat)
    BY <1>2 DEF SPIFFS_write
  <2>2. PICK good \in 0 .. 3 : Keep(Written(Current(good), f, bytes))
    BY <1>2 DEF SPIFFS_write, Call
  <2>3. /\ CallInv(Current(good)) /\ Current(good).fds = fds /\ Current(good).content = content
        /\ Current(good).c = cache
    BY CallStarts
  <2>4. CallInv(Written(Current(good), f, bytes))
    BY <2>1, <2>3, WrittenInv
  <2> QED
    BY <2>2, <2>4, KeepInv
<1>3. ASSUME NEW f \in Fds, NEW n \in Lengths, SPIFFS_read(f, n)
      PROVE  StateInv'
  <2>1. fds[f].open /\ n \in Nat
    BY <1>3 DEF SPIFFS_read
  <2>2. PICK good \in 0 .. 3 : Keep(ReadFlushed(Current(good), f, n))
    BY <1>3 DEF SPIFFS_read, Call
  <2>3. /\ CallInv(Current(good)) /\ Current(good).fds = fds /\ Current(good).content = content
        /\ Current(good).c = cache
    BY CallStarts
  <2> DEFINE t == fflush_cache(Current(good), f)
  <2>4. CallInv(t) /\ t.fds[f].open
    BY <2>1, <2>3, FflushInv DEF SameFds
  <2> HIDE DEF t
  <2>5. CallInv(ReadStored(t, f, n))
    BY <2>1, <2>4, ReadStoredInv
  <2> QED
    BY <2>2, <2>5, KeepInv DEF ReadFlushed, t
<1>4. ASSUME NEW f \in Fds, NEW n \in Lengths, SPIFFS_lseek(f, n)
      PROVE  StateInv'
  <2>1. fds[f].open /\ n \in Nat
    BY <1>4 DEF SPIFFS_lseek
  <2>2. PICK good \in 0 .. 3 : Keep(Sought(Current(good), f, n))
    BY <1>4 DEF SPIFFS_lseek, Call
  <2>3. /\ CallInv(Current(good)) /\ Current(good).fds = fds /\ Current(good).content = content
        /\ Current(good).c = cache
    BY CallStarts
  <2>4. CallInv(Sought(Current(good), f, n))
    BY <2>1, <2>3, SoughtInv
  <2> QED
    BY <2>2, <2>4, KeepInv
<1>5. ASSUME NEW f \in Fds, SPIFFS_fflush(f)
      PROVE  StateInv'
  <2>1. PICK good \in 0 .. 3 : Keep(fflush_cache(Current(good), f))
    BY <1>5 DEF SPIFFS_fflush, Call
  <2>2. /\ CallInv(Current(good)) /\ Current(good).fds = fds /\ Current(good).content = content
        /\ Current(good).c = cache
    BY CallStarts
  <2>3. CallInv(fflush_cache(Current(good), f))
    BY <1>5, <2>2, FflushInv DEF SPIFFS_fflush
  <2> QED
    BY <2>1, <2>3, KeepInv
<1>6. ASSUME NEW f \in Fds, SPIFFS_close(f)
      PROVE  StateInv'
  <2>1. PICK good \in 0 .. 3 : Keep(Returned(fflush_cache(Current(good), f), f))
    BY <1>6 DEF SPIFFS_close, Call
  <2>2. /\ CallInv(Current(good)) /\ Current(good).fds = fds /\ Current(good).content = content
        /\ Current(good).c = cache
    BY CallStarts
  <2> DEFINE t == fflush_cache(Current(good), f)
  <2>3. CallInv(t) /\ t.fds[f].cache_page = NoPage
    BY <1>6, <2>2, FflushInv DEF SPIFFS_close
  <2> HIDE DEF t
  <2>4. CallInv(Returned(t, f))
    BY <2>3, ReturnedInv
  <2> QED
    BY <2>1, <2>4, KeepInv DEF t
<1>7. ASSUME NEW f \in Fds, SPIFFS_fremove(f)
      PROVE  StateInv'
  <2>1. fds[f].open /\ OpenOn(fds[f].obj_id) = {f}
    BY <1>7 DEF SPIFFS_fremove
  <2>2. PICK good \in 0 .. 3 : Keep(RemovedBy(Current(good), f))
    BY <1>7 DEF SPIFFS_fremove, Call
  <2>3. /\ CallInv(Current(good)) /\ Current(good).fds = fds /\ Current(good).content = content
        /\ Current(good).c = cache
    BY CallStarts
  <2>4. \A g \in Fds : fds[g].open /\ fds[g].obj_id = fds[f].obj_id => g = f
    BY <2>1 DEF OpenOn
  <2>5. CallInv(RemovedBy(Current(good), f))
    BY <2>1, <2>4, <2>3, RemovedByInv
  <2> QED
    BY <2>2, <2>5, KeepInv
<1>8. ASSUME NEW id \in Ids, SPIFFS_remove(id)
      PROVE  StateInv'
  <2>1. \A g \in Fds : ~(fds[g].open /\ fds[g].obj_id = id)
    BY <1>8 DEF SPIFFS_remove, OpenOn
  <2>2. PICK good \in 0 .. 3 : Keep(Removed(Current(good), id))
    BY <1>8 DEF SPIFFS_remove, Call
  <2>3. /\ CallInv(Current(good)) /\ Current(good).fds = fds /\ Current(good).content = content
        /\ Current(good).c = cache
    BY CallStarts
  <2>4. CallInv(Removed(Current(good), id))
    BY <2>1, <2>3, RemovedInv
  <2> QED
    BY <2>2, <2>4, KeepInv
<1>9. ASSUME NEW p \in Pages, NEW lu2 \in BOOLEAN, phys_rd(p, lu2)
      PROVE  StateInv'
  BY <1>9, StateTyped, ReadKeeps, FlashStep DEF phys_rd
<1>10. ASSUME NEW p \in Pages, NEW d \in BOOLEAN, phys_wr(p, d)
       PROVE  StateInv'
  <2> DEFINE c == Outdate(cache, {p})
  <2>1. /\ CacheInv(c) /\ SameWrites(cache, c)
        /\ \A i \in ReadPages(c) : c.cpages[i].pix \notin {p} => c.cpages[i].current
    BY StateTyped, OutdateInv
  <2>2. cache' = Copy(c, p, d) /\ UNCHANGED <<content, fds, err_code, lost>>
    BY <1>10 DEF phys_wr
  <2> HIDE DEF c
  <2>3. CacheInv(cache') /\ CurrentInv(cache') /\ SameWrites(c, cache')
    BY <2>1, <2>2, CopyKeeps
  <2>4. SameWrites(cache, cache')
    BY <2>1, <2>3, SameWritesTransitive
  <2> QED
    BY <2>2, <2>3, <2>4, FlashStep
<1>11. ASSUME NEW b, gc_erase_block(b)
       PROVE  StateInv'
  BY <1>11, StateTyped, EraseKeeps, FlashStep DEF gc_erase_block
<1>12. CASE UNCHANGED vars
  <2>1. /\ cache' = cache /\ content' = content /\ fds' = fds /\ err_code' = err_code
        /\ lost' = lost
    BY <1>12 DEF vars
  <2>2. SameWrites(cache, cache')
    BY <2>1 DEF SameWrites
  <2> QED
    BY <2>1, <2>2, StateTyped, FlashStep
<1> QED
  BY <1>1, <1>2, <1>3, <1>4, <1>5, <1>6, <1>7, <1>8, <1>9, <1>10, <1>11, <1>12, MountState DEF Next

(* No copy is stale where the invariant holds.                             *)
LEMMA StateCoherent ==
  ASSUME StateInv
  PROVE  Coherent
<1>1. CacheInv(cache) /\ CurrentInv(cache) /\ cache \in CacheType
  BY StateTyped
<1>2. DOMAIN cache.cpages = Slots /\ ReadPages(cache) = {i \in Slots : cache.cpages[i].type = "RD"}
  BY <1>1, PageKinds
<1>3. SUFFICES ASSUME NEW i \in Slots, cache.cpages[i].type = "RD"
               PROVE  /\ cache.cpages[i].current
                      /\ cache_page_get(cache, cache.cpages[i].pix) = {i}
  BY <1>2 DEF Coherent
<1>4. i \in ReadPages(cache)
  BY <1>2, <1>3
<1>5. \A j \in ReadPages(cache) : cache.cpages[j].pix = cache.cpages[i].pix => j = i
  BY <1>1, <1>4 DEF CacheInv, CopiesInv
<1> QED
  BY <1>1, <1>4, <1>5 DEF CurrentInv, cache_page_get

(* Every cached write is owned where the invariant holds.                  *)
LEMMA StateOwned ==
  ASSUME StateInv
  PROVE  WritesOwned
<1>1. cache \in CacheType /\ OwnedInv(cache, content, fds)
  BY StateTyped
<1>2. \A id : /\ \A i \in WritePages(cache) :
                   cache.cpages[i].obj_id = id => cache_page_get_by_id(cache, id) = i
  BY <1>1, ByIdKnown DEF OwnedInv
<1>3. ASSUME NEW i \in WritePages(cache)
      PROVE  /\ OpenOn(cache.cpages[i].obj_id) # {}
             /\ cache_page_get_by_id(cache, cache.cpages[i].obj_id) = i
             /\ \A j \in WritePages(cache) : cache.cpages[j].obj_id = cache.cpages[i].obj_id => j = i
  <2>1. PICK f \in Fds : fds[f].open /\ fds[f].cache_page = i
    BY <1>1 DEF OwnedInv
  <2>2. i # NoPage
    BY <1>1, PageKinds DEF Slots
  <2>3. f \in OpenOn(cache.cpages[i].obj_id)
    BY <1>1, <2>1, <2>2 DEF OwnedInv, OpenOn
  <2> QED
    BY <1>1, <1>2, <2>3 DEF OwnedInv
<1>4. ASSUME NEW f \in Fds, fds[f].cache_page # NoPage
      PROVE  fds[f].open /\ cache_page_get_by_id(cache, fds[f].obj_id) = fds[f].cache_page
  BY <1>1, <1>2, <1>4 DEF OwnedInv
<1> QED
  BY <1>3, <1>4 DEF WritesOwned

(* The invariant of the cache and the file calls.                          *)
THEOREM StateCorrect ==
  ASSUME Exclusive
  PROVE  Spec => []StateInv
<1>1. Init => StateInv
  BY InitState
<1>2. StateInv /\ [Next]_vars => StateInv'
  BY NextState
<1> QED
  BY <1>1, <1>2, PTL DEF Spec

(* The copies of flash pages are what the flash holds, and no page has two: *)
(* spiffs_phys_wr and spiffs_gc_erase_block leave no old copy behind.      *)
THEOREM CopiesAreCurrent ==
  ASSUME Exclusive
  PROVE  Spec => []Coherent
BY StateCorrect, StateCoherent, PTL

(* What is cached for a file belongs to an open descriptor of that file,   *)
(* and no file has two cached writes, as long as an open file is only      *)
(* removed through its one descriptor.                                     *)
THEOREM WritesAreOwned ==
  ASSUME Exclusive
  PROVE  Spec => []WritesOwned
BY StateCorrect, StateOwned, PTL

(* spiffs_phys_rd always finds the page it does not check for, when fewer  *)
(* descriptors, or files, are in use than the cache has pages.             *)
THEOREM ReadsFindAPage ==
  ASSUME Exclusive, RoomForReads
  PROVE  Spec => []PageForReads
<1>1. Init => PageForReads
  BY DEF Init, PageForReads
<1>2. ASSUME StateInv, PageForReads, [Next]_vars
      PROVE  PageForReads'
  <2>1. ASSUME NEW p \in Pages, NEW lu2 \in BOOLEAN, phys_rd(p, lu2)
        PROVE  ~stopped'
    BY <1>2, <2>1, StateTyped, NotAllWritten, ReadKeeps
  <2>2. ASSUME UNCHANGED stopped
        PROVE  ~stopped'
    BY <1>2, <2>2 DEF PageForReads
  <2> QED
    BY <1>2, <2>1, <2>2, ZenonT(60)
    DEF PageForReads, Next, vars, Call, Keep, SPIFFS_open, SPIFFS_write, SPIFFS_read, SPIFFS_lseek,
        SPIFFS_fflush, SPIFFS_close, SPIFFS_fremove, SPIFFS_remove, SPIFFS_mount, phys_wr,
        gc_erase_block
<1> QED
  BY <1>1, <1>2, StateCorrect, PTL DEF Spec

-----------------------------------------------------------------------------

HIDE CacheAssumption DEF NoPage

(* --------------------------- writes into bytes --------------------------*)

(* Two sequences of the same length and the same elements are the same.    *)
LEMMA SameBytes ==
  ASSUME NEW a \in Seq(Nat), NEW b \in Seq(Nat), Len(a) = Len(b),
         \A i \in 1 .. Len(a) : a[i] = b[i]
  PROVE  a = b
<1>1. a \in [1 .. Len(a) -> Nat] /\ b \in [1 .. Len(b) -> Nat]
  OBVIOUS
<1> QED
  BY <1>1

IsOverwrite(new, old, offset, bytes) ==
  /\ new \in Seq(Nat) /\ Len(new) = Longer(offset + Len(bytes), Len(old))
  /\ \A i \in 1 .. Len(new) :
        new[i] = IF i > offset /\ i <= offset + Len(bytes) THEN bytes[i - offset]
                 ELSE IF i <= Len(old) THEN old[i] ELSE 255

(* The bytes after a write, one by one.                                    *)
LEMMA OverwriteIs ==
  ASSUME NEW old, old \in Seq(Nat), NEW offset, offset \in Nat, NEW bytes, bytes \in Seq(Nat)
  PROVE  IsOverwrite(Overwrite(old, offset, bytes), old, offset, bytes)
<1>1. /\ Overwrite(old, offset, bytes) \in Seq(Nat)
      /\ Len(Overwrite(old, offset, bytes)) = Longer(offset + Len(bytes), Len(old))
  BY OverwriteTyped, ZenonT(60)
<1>2. \A i \in 1 .. Longer(offset + Len(bytes), Len(old)) :
         Overwrite(old, offset, bytes)[i] =
           IF i > offset /\ i <= offset + Len(bytes) THEN bytes[i - offset]
           ELSE IF i <= Len(old) THEN old[i] ELSE 255
  BY OverwriteTyped
<1> QED
  BY <1>1, <1>2 DEF IsOverwrite

(* A write into bytes that are written themselves is a write after the     *)
(* write of those bytes.                                                   *)
LEMMA OverwriteInside ==
  ASSUME NEW C \in Seq(Nat), NEW o \in Nat, NEW d \in Seq(Nat), NEW n \in Nat, NEW b \in Seq(Nat),
         n <= Len(d)
  PROVE  Overwrite(C, o, Overwrite(d, n, b)) = Overwrite(Overwrite(C, o, d), o + n, b)
<1> DEFINE e == Overwrite(d, n, b)
           x == Overwrite(C, o, e)
           y == Overwrite(C, o, d)
           z == Overwrite(y, o + n, b)
<1>1. Len(C) \in Nat /\ Len(d) \in Nat /\ Len(b) \in Nat /\ o + n \in Nat
  OBVIOUS
<1>2. IsOverwrite(e, d, n, b)
  BY OverwriteIs
<1>3. IsOverwrite(y, C, o, d)
  BY OverwriteIs
<1> HIDE DEF e, y
<1>4. IsOverwrite(x, C, o, e)
  <2>1. e \in Seq(Nat)
    BY <1>2 DEF IsOverwrite
  <2> QED
    BY <2>1, OverwriteIs
<1>5. IsOverwrite(z, y, o + n, b)
  <2>1. y \in Seq(Nat)
    BY <1>3 DEF IsOverwrite
  <2> QED
    BY <1>1, <2>1, OverwriteIs
<1> HIDE DEF x, z
<1> DEFINE lc == Len(C)
           ld == Len(d)
           lb == Len(b)
           le == Len(e)
           ly == Len(y)
<1>6. lc \in Nat /\ ld \in Nat /\ lb \in Nat /\ le \in Nat /\ ly \in Nat /\ n <= ld
  BY <1>1, <1>2, <1>3 DEF IsOverwrite
<1>7. le = Longer(n + lb, ld) /\ ly = Longer(o + ld, lc)
  BY <1>2, <1>3 DEF IsOverwrite
<1>8. Len(x) = Longer(o + le, lc) /\ Len(z) = Longer(o + n + lb, ly)
  BY <1>4, <1>5 DEF IsOverwrite
<1>9. x \in Seq(Nat) /\ z \in Seq(Nat)
  BY <1>4, <1>5 DEF IsOverwrite
<1> HIDE DEF lc, ld, lb, le, ly
<1>10. Longer(o + le, lc) = Longer(o + n + lb, ly)
  BY <1>6, <1>7 DEF Longer
<1>11. ASSUME NEW i \in 1 .. Len(x)
       PROVE  x[i] = z[i]
  <2>1. i \in Nat /\ i >= 1 /\ i <= Longer(o + le, lc) /\ i \in 1 .. Len(z)
    BY <1>6, <1>8, <1>9, <1>10
  <2>2. x[i] = IF i > o /\ i <= o + le THEN e[i - o] ELSE IF i <= lc THEN C[i] ELSE 255
    BY <1>4 DEF IsOverwrite, le, lc
  <2>3. z[i] = IF i > o + n /\ i <= o + n + lb THEN b[i - (o + n)] ELSE IF i <= ly THEN y[i] ELSE 255
    BY <1>5, <2>1 DEF IsOverwrite, lb, ly
  <2>4. i <= ly => y[i] = IF i > o /\ i <= o + ld THEN d[i - o] ELSE IF i <= lc THEN C[i] ELSE 255
    <3>1. i <= ly => i \in 1 .. Len(y)
      BY <1>6, <2>1 DEF ly
    <3> QED
      BY <1>3, <3>1 DEF IsOverwrite, ld, lc
  <2>5. i > o /\ i <= o + le =>
          e[i - o] = IF i - o > n /\ i - o <= n + lb THEN b[i - o - n]
                     ELSE IF i - o <= ld THEN d[i - o] ELSE 255
    <3> DEFINE k == i - o
    <3>1. ASSUME i > o, i <= o + le
          PROVE  k \in 1 .. Len(e)
      BY <1>6, <2>1, <3>1 DEF le
    <3> HIDE DEF k
    <3>2. \A m \in 1 .. Len(e) :
            e[m] = IF m > n /\ m <= n + lb THEN b[m - n] ELSE IF m <= ld THEN d[m] ELSE 255
      BY <1>2 DEF IsOverwrite, ld, lb
    <3>3. ASSUME k \in 1 .. Len(e)
          PROVE  e[k] = IF k > n /\ k <= n + lb THEN b[k - n] ELSE IF k <= ld THEN d[k] ELSE 255
      BY <3>2, <3>3
    <3> QED
      BY <3>1, <3>3 DEF k
  <2>6. i - (o + n) = i - o - n
    BY <2>1
  <2>7. CASE i <= o
    <3>1. /\ x[i] = IF i <= lc THEN C[i] ELSE 255
          /\ z[i] = IF i <= ly THEN y[i] ELSE 255
          /\ i <= ly => y[i] = IF i <= lc THEN C[i] ELSE 255
          /\ i <= lc => i <= ly
      BY <1>6, <1>7, <2>1, <2>2, <2>3, <2>4, <2>7 DEF Longer
    <3> QED
      BY <3>1
  <2>8. CASE i > o /\ i <= o + le
    <3>1. CASE i > o + n /\ i <= o + n + lb
      <4>1. z[i] = b[i - o - n] /\ x[i] = e[i - o]
        BY <2>2, <2>3, <2>6, <2>8, <3>1
      <4>2. i - o > n /\ i - o <= n + lb
        BY <1>6, <2>1, <3>1
      <4> QED
        BY <2>5, <2>8, <4>1, <4>2
    <3>2. CASE ~(i > o + n /\ i <= o + n + lb)
      <4>1. ~(i - o > n /\ i - o <= n + lb) /\ i - o <= ld /\ i <= o + ld /\ i <= ly
        BY <1>6, <1>7, <2>1, <2>8, <3>2 DEF Longer
      <4>2. x[i] = d[i - o] /\ z[i] = d[i - o]
        BY <2>2, <2>3, <2>4, <2>5, <2>8, <3>2, <4>1
      <4> QED
        BY <4>2
    <3> QED
      BY <3>1, <3>2
  <2>9. CASE i > o + le
    <3>1. /\ ~(i > o + n /\ i <= o + n + lb) /\ ~(i > o /\ i <= o + ld)
          /\ i <= lc /\ i <= ly
      BY <1>6, <1>7, <2>1, <2>9 DEF Longer
    <3> QED
      BY <1>6, <2>1, <2>2, <2>3, <2>4, <2>9, <3>1
  <2> QED
    BY <1>6, <2>1, <2>7, <2>8, <2>9
<1> QED
  BY <1>8, <1>9, <1>10, <1>11, SameBytes DEF e, y, x, z

(* The same write twice is the write.                                      *)
LEMMA OverwriteTwice ==
  ASSUME NEW C \in Seq(Nat), NEW o \in Nat, NEW b \in Seq(Nat)
  PROVE  Overwrite(Overwrite(C, o, b), o, b) = Overwrite(C, o, b)
<1> DEFINE y == Overwrite(C, o, b)
           z == Overwrite(y, o, b)
           lb == Len(b)
           ly == Len(y)
<1>1. IsOverwrite(y, C, o, b)
  BY OverwriteIs
<1> HIDE DEF y
<1>2. IsOverwrite(z, y, o, b)
  <2>1. y \in Seq(Nat)
    BY <1>1 DEF IsOverwrite
  <2> QED
    BY <2>1, OverwriteIs
<1>3. lb \in Nat /\ ly \in Nat /\ y \in Seq(Nat) /\ z \in Seq(Nat)
  BY <1>1, <1>2 DEF IsOverwrite
<1> HIDE DEF z
<1>4. ly >= o + lb
  BY <1>1, <1>3 DEF IsOverwrite, Longer
<1>5. Len(z) = ly
  BY <1>2, <1>3, <1>4 DEF IsOverwrite, Longer
<1>6. ASSUME NEW i \in 1 .. ly
      PROVE  z[i] = y[i]
  <2>1. z[i] = IF i > o /\ i <= o + lb THEN b[i - o] ELSE IF i <= ly THEN y[i] ELSE 255
    BY <1>2, <1>5 DEF IsOverwrite
  <2>2. i > o /\ i <= o + lb => y[i] = b[i - o]
    BY <1>1 DEF IsOverwrite
  <2>3. i <= ly
    BY <1>3
  <2> QED
    BY <2>1, <2>2, <2>3
<1> QED
  BY <1>3, <1>5, <1>6, SameBytes DEF y, z

(* A write of everything into nothing.                                     *)
LEMMA OverwriteNothing ==
  ASSUME NEW b \in Seq(Nat)
  PROVE  Overwrite(<<>>, 0, b) = b
<1> DEFINE z == Overwrite(<<>>, 0, b)
           lb == Len(b)
<1>1. <<>> \in Seq(Nat) /\ Len(<<>>) = 0 /\ lb \in Nat
  OBVIOUS
<1>2. IsOverwrite(z, <<>>, 0, b)
  BY <1>1, OverwriteIs
<1> HIDE DEF z
<1>3. z \in Seq(Nat) /\ Len(z) = lb
  BY <1>1, <1>2 DEF IsOverwrite, Longer
<1>4. ASSUME NEW i \in 1 .. lb
      PROVE  z[i] = b[i]
  <2>1. i > 0 /\ i <= 0 + lb /\ i - 0 = i /\ i \in 1 .. Len(z)
    BY <1>1, <1>3
  <2> QED
    BY <1>2, <2>1 DEF IsOverwrite
<1> QED
  BY <1>3, <1>4, SameBytes DEF z

(* --------------------------- what a file looks like ---------------------*)

(* The bytes of a file in a call's record: what is cached over what is     *)
(* stored.                                                                 *)
SeenOf(s, id) ==
  LET i == cache_page_get_by_id(s.c, id)
      p == s.c.cpages[i]
  IN IF i = NoPage THEN s.content[id] ELSE Overwrite(s.content[id], p.offset, p.data)

(* A cached write leaves no gap behind the stored bytes.                   *)
CachedPlaced(s, id) ==
  \A i \in WritePages(s.c) :
    s.c.cpages[i].obj_id = id => s.c.cpages[i].offset <= Len(s.content[id])

(* Nor is the offset of a descriptor behind the end of its file.           *)
FdsPlaced(s, id) ==
  \A g \in Fds : s.fds[g].open /\ s.fds[g].obj_id = id => s.fds[g].fdoffset <= Len(SeenOf(s, id))

PlacedInv(s) ==
  \A id \in DOMAIN s.content \ s.lost : CachedPlaced(s, id) /\ FdsPlaced(s, id)

(* What a call on one file leaves of all others.                           *)
OthersKept(s, t, id) ==
  /\ \A j \in DOMAIN s.content \ {id} : t.content[j] = s.content[j]
  /\ \A i \in WritePages(s.c) : s.c.cpages[i].obj_id # id =>
        i \in WritePages(t.c) /\ t.c.cpages[i] = s.c.cpages[i]
  /\ \A i \in WritePages(t.c) : t.c.cpages[i].obj_id # id =>
        i \in WritePages(s.c) /\ t.c.cpages[i] = s.c.cpages[i]

(* Two calls on one file leave the others.                                 *)
LEMMA OthersTransitive ==
  ASSUME NEW s, NEW t, NEW u, NEW id, DOMAIN t.content = DOMAIN s.content,
         OthersKept(s, t, id), OthersKept(t, u, id)
  PROVE  OthersKept(s, u, id)
<1>1. \A j \in DOMAIN s.content \ {id} : u.content[j] = s.content[j]
  BY DEF OthersKept
<1>2. \A i \in WritePages(s.c) : s.c.cpages[i].obj_id # id =>
        i \in WritePages(u.c) /\ u.c.cpages[i] = s.c.cpages[i]
  BY DEF OthersKept
<1>3. \A i \in WritePages(u.c) : u.c.cpages[i].obj_id # id =>
        i \in WritePages(s.c) /\ u.c.cpages[i] = s.c.cpages[i]
  BY DEF OthersKept
<1> QED
  BY <1>1, <1>2, <1>3 DEF OthersKept

(* The cached write of a file, by what it is and not by its number.        *)
LEMMA ByIdSame ==
  ASSUME NEW s, CallInv(s), NEW t, CallInv(t), NEW j,
         \A i \in WritePages(s.c) : s.c.cpages[i].obj_id = j =>
           i \in WritePages(t.c) /\ t.c.cpages[i] = s.c.cpages[i],
         \A i \in WritePages(t.c) : t.c.cpages[i].obj_id = j => i \in WritePages(s.c) /\ t.c.cpages[i] = s.c.cpages[i]
  PROVE  /\ cache_page_get_by_id(t.c, j) = cache_page_get_by_id(s.c, j)
         /\ cache_page_get_by_id(t.c, j) # NoPage =>
              t.c.cpages[cache_page_get_by_id(t.c, j)] = s.c.cpages[cache_page_get_by_id(s.c, j)]
<1> DEFINE a == cache_page_get_by_id(s.c, j)
           b == cache_page_get_by_id(t.c, j)
<1>1. /\ s.c \in CacheType /\ OwnedInv(s.c, s.content, s.fds)
      /\ t.c \in CacheType /\ OwnedInv(t.c, t.content, t.fds)
  BY DEF CallInv, CallType
<1>2. /\ \A i \in WritePages(s.c) : s.c.cpages[i].obj_id = j => a = i
      /\ a # NoPage => a \in WritePages(s.c) /\ s.c.cpages[a].obj_id = j
  BY <1>1, ByIdKnown DEF OwnedInv
<1>3. /\ \A i \in WritePages(t.c) : t.c.cpages[i].obj_id = j => b = i
      /\ b # NoPage => b \in WritePages(t.c) /\ t.c.cpages[b].obj_id = j
  BY <1>1, ByIdKnown DEF OwnedInv
<1> HIDE DEF a, b
<1>4. a # NoPage => b = a
  BY <1>2, <1>3
<1>5. b # NoPage => a = b
  BY <1>2, <1>3
<1>6. a = b
  BY <1>4, <1>5
<1>7. b # NoPage => t.c.cpages[b] = s.c.cpages[a]
  BY <1>3, <1>6
<1> QED
  BY <1>6, <1>7 DEF a, b

(* Of a file that a call leaves, every byte is seen as before.             *)
LEMMA OthersSeen ==
  ASSUME NEW s, CallInv(s), NEW t, CallInv(t), NEW id, OthersKept(s, t, id),
         NEW j \in DOMAIN s.content, j # id
  PROVE  /\ SeenOf(t, j) = SeenOf(s, j)
         /\ CachedPlaced(s, j) => CachedPlaced(t, j)
<1>1. /\ cache_page_get_by_id(t.c, j) = cache_page_get_by_id(s.c, j)
      /\ cache_page_get_by_id(t.c, j) # NoPage =>
           t.c.cpages[cache_page_get_by_id(t.c, j)] = s.c.cpages[cache_page_get_by_id(s.c, j)]
  BY ByIdSame DEF OthersKept
<1>2. t.content[j] = s.content[j]
  BY DEF OthersKept
<1>3. SeenOf(t, j) = SeenOf(s, j)
  BY <1>1, <1>2 DEF SeenOf
<1>4. CachedPlaced(s, j) => CachedPlaced(t, j)
  BY <1>2 DEF CachedPlaced, OthersKept
<1> QED
  BY <1>3, <1>4

(* The view of a descriptor that knows the cached write of its file.       *)
LEMMA SeenByFd ==
  ASSUME NEW s, CallInv(s), NEW f \in Fds, s.fds[f].open, Found(s, f)
  PROVE  LET id == s.fds[f].obj_id
             i == s.fds[f].cache_page
         IN /\ id \in DOMAIN s.content /\ id \in Ids /\ s.content[id] \in Seq(Nat)
            /\ i = NoPage => /\ SeenOf(s, id) = s.content[id]
                             /\ \A j \in WritePages(s.c) : s.c.cpages[j].obj_id # id
            /\ i # NoPage => /\ SeenOf(s, id) = Overwrite(s.content[id], s.c.cpages[i].offset, s.c.cpages[i].data)
                             /\ i \in WritePages(s.c) /\ i \in Slots
                             /\ s.c.cpages[i] \in WritePage /\ s.c.cpages[i].obj_id = id
                             /\ \A j \in WritePages(s.c) : s.c.cpages[j].obj_id = id => j = i
<1> DEFINE id == s.fds[f].obj_id
           i == s.fds[f].cache_page
<1>1. /\ s.c \in CacheType /\ s.content \in ContentType /\ OwnedInv(s.c, s.content, s.fds)
  BY DEF CallInv, CallType
<1>2. id \in DOMAIN s.content /\ id \in Ids /\ s.content[id] \in Seq(Nat)
  BY <1>1, ContentTyped DEF OwnedInv
<1>3. i = cache_page_get_by_id(s.c, id)
  BY DEF Found
<1>4. /\ \A j \in WritePages(s.c) : s.c.cpages[j].obj_id = id => cache_page_get_by_id(s.c, id) = j
      /\ \A j \in WritePages(s.c) : j # NoPage
  <2>1. \A j, k \in WritePages(s.c) : s.c.cpages[j].obj_id = s.c.cpages[k].obj_id => j = k
    BY <1>1 DEF OwnedInv
  <2> HIDE DEF id, i
  <2> QED
    BY <1>1, <2>1, ByIdKnown
<1>5. SeenOf(s, id) = IF i = NoPage THEN s.content[id]
                      ELSE Overwrite(s.content[id], s.c.cpages[i].offset, s.c.cpages[i].data)
  BY <1>3 DEF SeenOf
<1>6. i # NoPage => i \in WritePages(s.c) /\ s.c.cpages[i].obj_id = id
  BY <1>1 DEF OwnedInv
<1>7. i # NoPage => i \in Slots /\ s.c.cpages[i] \in WritePage
  BY <1>1, <1>6, PageKinds
<1> HIDE DEF id, i
<1> QED
  BY <1>2, <1>3, <1>4, <1>5, <1>6, <1>7 DEF id, i

(* Nothing of the descriptor's file is cached, and it is seen as stored.   *)
SeenStored(s, f) ==
  LET id == s.fds[f].obj_id
  IN /\ SeenOf(s, id) = s.content[id] /\ s.content[id] \in Seq(Nat)
     /\ \A j \in WritePages(s.c) : s.c.cpages[j].obj_id # id

LEMMA SeenAsStored ==
  ASSUME NEW s, CallInv(s), NEW f \in Fds, s.fds[f].open, Found(s, f), s.fds[f].cache_page = NoPage
  PROVE  SeenStored(s, f)
BY SeenByFd DEF SeenStored

(* The same, with names for the file and its cached write.                 *)
LEMMA SeenWith ==
  ASSUME NEW s, CallInv(s), NEW f \in Fds, s.fds[f].open, Found(s, f),
         NEW id, s.fds[f].obj_id = id, NEW i, s.fds[f].cache_page = i, i # NoPage
  PROVE  /\ SeenOf(s, id) = Overwrite(s.content[id], s.c.cpages[i].offset, s.c.cpages[i].data)
         /\ i \in WritePages(s.c) /\ \A j \in WritePages(s.c) : s.c.cpages[j].obj_id = id => j = i
BY SeenByFd

(* ------------------------- the parts of a call --------------------------*)

(* A part of a call on file id, which may fail: then the file is lost.     *)
Effect(s, t, id) ==
  /\ SameFds(s, t) /\ OthersKept(s, t, id) /\ t.err_code = s.err_code
  /\ t.lost = IF t.failed THEN s.lost \union {id} ELSE s.lost

(* Two parts of a call are a part of a call.                               *)
LEMMA EffectTransitive ==
  ASSUME NEW s, NEW t, NEW u, NEW id, Effect(s, t, id), ~t.failed, Effect(t, u, id)
  PROVE  Effect(s, u, id)
<1>1. SameFds(s, u) /\ DOMAIN t.content = DOMAIN s.content
  BY DEF Effect, SameFds
<1>2. OthersKept(s, u, id)
  BY <1>1, OthersTransitive DEF Effect
<1> QED
  BY <1>1, <1>2 DEF Effect

(* spiffs_hydro_write. An offset inside the file is taken as it is.        *)
Stored(s, t, f, offset, bytes) ==
  LET id == s.fds[f].obj_id
  IN /\ CallInv(t) /\ Effect(s, t, id) /\ t.c = s.c /\ t.fds = s.fds
     /\ s.good > 0 => ~t.failed
     /\ ~t.failed /\ offset <= Len(s.content[id]) =>
          t.content[id] = Overwrite(s.content[id], offset, bytes)

(* spiffs_hydro_write stores the bytes at the offset, or at the end before *)
(* it.                                                                     *)
LEMMA HydroStores ==
  ASSUME NEW s, CallInv(s), ~s.failed, NEW f \in Fds, s.fds[f].open,
         NEW offset, offset \in Nat, NEW bytes, bytes \in Seq(Nat)
  PROVE  Stored(s, hydro_write(s, f, offset, bytes), f, offset, bytes)
<1> DEFINE id == s.fds[f].obj_id
           old == s.content[id]
           at == IF offset > Len(old) /\ old # <<>> THEN Len(old) ELSE offset
           t == hydro_write(s, f, offset, bytes)
<1>1. CallInv(t) /\ SameFds(s, t) /\ t.c = s.c /\ t.fds = s.fds /\ t.err_code = s.err_code
  BY HydroInv
<1>2. s \in CallType /\ s.content \in ContentType /\ OwnedInv(s.c, s.content, s.fds)
  BY DEF CallInv, CallType
<1>3. id \in DOMAIN s.content /\ old \in Seq(Nat)
  BY <1>2, ContentTyped DEF OwnedInv
<1>4. CASE s.good > 0
  <2> DEFINE contents == [s.content EXCEPT ![id] = Overwrite(old, at, bytes)]
  <2>1. t = [s EXCEPT !.content = contents, !.good = s.good - 1]
    BY <1>2, <1>4 DEF hydro_write, CallType
  <2>2. /\ contents[id] = Overwrite(old, at, bytes)
        /\ \A j \in DOMAIN s.content \ {id} : contents[j] = s.content[j]
    BY <1>3
  <2>3. offset <= Len(old) => at = offset
    <3> HIDE DEF old, id, t, contents
    <3>1. Len(old) \in Nat
      BY <1>3
    <3> QED
      BY <3>1
  <2> HIDE DEF contents, t, at
  <2>4. t.content = contents /\ t.lost = s.lost /\ t.failed = s.failed
    BY <1>2, <2>1 DEF CallType
  <2>5. OthersKept(s, t, id)
    BY <1>1, <2>2, <2>4 DEF OthersKept
  <2>6. Effect(s, t, id)
    BY <1>1, <2>4, <2>5 DEF Effect
  <2>7. offset <= Len(old) => t.content[id] = Overwrite(old, offset, bytes)
    BY <2>2, <2>3, <2>4
  <2> QED
    BY <1>1, <2>4, <2>6, <2>7 DEF Stored, t
<1>5. CASE ~(s.good > 0)
  <2>1. t = [s EXCEPT !.failed = TRUE, !.lost = s.lost \union {id}]
    BY <1>2, <1>5 DEF hydro_write, CallType
  <2> HIDE DEF t
  <2>2. t.content = s.content /\ t.lost = s.lost \union {id} /\ t.failed
    BY <1>2, <2>1 DEF CallType
  <2>3. Effect(s, t, id)
    BY <1>1, <2>2 DEF Effect, OthersKept
  <2> QED
    BY <1>1, <1>5, <2>2, <2>3 DEF Stored, t
<1> QED
  BY <1>4, <1>5

(* The cached write is in the file, or the file is lost.                   *)
Flushed(s, t, f) ==
  LET id == s.fds[f].obj_id
  IN /\ CallInv(t) /\ SameFds(s, t) /\ OthersKept(s, t, id)
     /\ t.fds[f].cache_page = NoPage /\ Found(t, f)
     /\ t.lost = IF t.failed THEN s.lost \union {id} ELSE s.lost
     /\ s.good > 0 => ~t.failed
     /\ ~t.failed /\ CachedPlaced(s, id) => t.content[id] = SeenOf(s, id)

(* The cached write goes to the file and out of the cache, and the file is *)
(* seen as before.                                                         *)
LEMMA WriteBackFlushes ==
  ASSUME NEW s, CallInv(s), ~s.failed, NEW f \in Fds, s.fds[f].open, Found(s, f),
         s.fds[f].cache_page # NoPage
  PROVE  Flushed(s, WriteBack(s, f), f) /\ WriteBack(s, f).err_code = s.err_code
<1> DEFINE id == s.fds[f].obj_id
           i == s.fds[f].cache_page
           p == s.c.cpages[i]
           offset == p.offset
           bytes == p.data
           u == hydro_write(s, f, offset, bytes)
           t == WriteBack(s, f)
<1>1. /\ SeenOf(s, id) = Overwrite(s.content[id], offset, bytes)
      /\ i \in WritePages(s.c) /\ i \in Slots /\ p \in WritePage /\ p.obj_id = id
  BY SeenByFd
<1>2. offset \in Nat /\ bytes \in Seq(Nat)
  BY <1>1 DEF WritePage
<1>3. /\ CallInv(t) /\ SameFds(s, t) /\ t.fds[f].cache_page = NoPage /\ Found(t, f)
      /\ t.err_code = s.err_code
      /\ WritePages(t.c) = WritePages(s.c) \ {i}
      /\ \A j \in Slots : j # i => t.c.cpages[j] = s.c.cpages[j]
  BY WriteBackInv
<1>4. t = cache_fd_release(u, i)
  BY DEF WriteBack
<1>5. CachedPlaced(s, id) => offset <= Len(s.content[id])
  BY <1>1 DEF CachedPlaced
<1>6. \A j \in WritePages(s.c) : j \in Slots
  BY PageKinds DEF CallInv, CallType
<1> HIDE DEF offset, bytes, u, t
<1>7. Stored(s, u, f, offset, bytes)
  BY <1>2, HydroStores DEF u
<1>8. i \in WritePages(u.c) /\ CallInv(u)
  BY <1>1, <1>7 DEF Stored
<1> HIDE DEF i
<1>9. t.content = u.content /\ t.lost = u.lost /\ t.failed = u.failed
  BY <1>4, <1>8, ReleaseInv
<1>10. OthersKept(s, t, id)
  <2>1. \A j \in DOMAIN s.content \ {id} : t.content[j] = s.content[j]
    BY <1>7, <1>9 DEF Stored, Effect, OthersKept
  <2>2. \A j \in WritePages(s.c) : s.c.cpages[j].obj_id # id => j # i
    BY <1>1 DEF i
  <2> QED
    BY <1>3, <1>6, <2>1, <2>2 DEF OthersKept
<1>11. t.lost = IF t.failed THEN s.lost \union {id} ELSE s.lost
  BY <1>7, <1>9 DEF Stored, Effect
<1>12. s.good > 0 => ~t.failed
  BY <1>7, <1>9 DEF Stored
<1>13. ~t.failed /\ CachedPlaced(s, id) => t.content[id] = SeenOf(s, id)
  BY <1>1, <1>5, <1>7, <1>9 DEF Stored
<1> QED
  BY <1>3, <1>10, <1>11, <1>12, <1>13 DEF Flushed, t

(* What the call finds of the cache is what was there.                     *)
LEMMA FindCachedSees ==
  ASSUME NEW s, CallInv(s), NEW f \in Fds, s.fds[f].open
  PROVE  LET t == FindCached(s, f)
             id == s.fds[f].obj_id
         IN /\ CallInv(t) /\ SameFds(s, t) /\ Found(t, f) /\ OthersKept(s, t, id)
            /\ t.lost = s.lost /\ t.failed = s.failed /\ t.good = s.good
            /\ t.err_code = s.err_code /\ t.fds[f].open /\ t.fds[f].obj_id = id
            /\ SeenOf(t, id) = SeenOf(s, id) /\ (CachedPlaced(s, id) => CachedPlaced(t, id))
<1> DEFINE t == FindCached(s, f)
<1>1. /\ CallInv(t) /\ SameFds(s, t) /\ Found(t, f)
      /\ t.c = s.c /\ t.content = s.content /\ t.lost = s.lost /\ t.failed = s.failed
      /\ t.good = s.good /\ t.err_code = s.err_code
  BY FindCachedInv
<1> HIDE DEF t
<1> QED
  BY <1>1 DEF OthersKept, SeenOf, CachedPlaced, SameFds, t

(* spiffs_fflush_cache.                                                    *)
LEMMA FflushFlushes ==
  ASSUME NEW s, CallInv(s), ~s.failed, NEW f \in Fds, s.fds[f].open
  PROVE  LET t == fflush_cache(s, f)
         IN Flushed(s, t, f) /\ t.err_code = IF t.failed THEN "FULL" ELSE s.err_code
<1> DEFINE id == s.fds[f].obj_id
           u == FindCached(s, f)
           t == fflush_cache(s, f)
<1>1. /\ CallInv(u) /\ SameFds(s, u) /\ Found(u, f) /\ OthersKept(s, u, id)
      /\ u.lost = s.lost /\ u.failed = s.failed /\ u.good = s.good
      /\ u.err_code = s.err_code /\ u.fds[f].open /\ u.fds[f].obj_id = id
      /\ SeenOf(u, id) = SeenOf(s, id) /\ (CachedPlaced(s, id) => CachedPlaced(u, id))
  BY FindCachedSees
<1>2. t = IF u.fds[f].cache_page # NoPage THEN Report(WriteBack(u, f)) ELSE u
  BY DEF fflush_cache
<1> HIDE DEF u, t, id
<1>3. CASE u.fds[f].cache_page = NoPage
  <2>1. t = u
    BY <1>2, <1>3
  <2>2. SeenOf(u, id) = u.content[id]
    <3>1. SeenStored(u, f)
      BY <1>1, <1>3, SeenAsStored
    <3> QED
      BY <1>1, <3>1 DEF SeenStored
  <2> QED
    BY <1>1, <1>3, <2>1, <2>2 DEF Flushed, t, id
<1>4. CASE u.fds[f].cache_page # NoPage
  <2> DEFINE w == WriteBack(u, f)
  <2>1. Flushed(u, w, f) /\ w.err_code = u.err_code
    BY <1>1, <1>4, WriteBackFlushes
  <2>2. t = Report(w)
    BY <1>2, <1>4
  <2> HIDE DEF w
  <2>3. CallInv(w)
    BY <2>1 DEF Flushed
  <2>4. /\ CallInv(t) /\ t.c = w.c /\ t.content = w.content /\ t.fds = w.fds
        /\ t.lost = w.lost /\ t.failed = w.failed
    BY <2>2, <2>3, ReportInv
  <2>5. t.err_code = IF t.failed THEN "FULL" ELSE s.err_code
    BY <1>1, <2>1, <2>2, <2>3 DEF Report, CallInv, CallType
  <2>6. SameFds(s, t)
    BY <1>1, <2>1, <2>4 DEF SameFds, Flushed
  <2>7. OthersKept(u, t, id)
    BY <1>1, <2>1, <2>4 DEF OthersKept, Flushed
  <2>8. OthersKept(s, t, id)
    <3>1. DOMAIN u.content = DOMAIN s.content
      BY <1>1 DEF SameFds
    <3> QED
      BY <1>1, <2>7, <3>1, OthersTransitive
  <2>9. t.fds[f].cache_page = NoPage /\ Found(t, f)
    BY <2>1, <2>4 DEF Flushed, Found
  <2>10. /\ t.lost = IF t.failed THEN s.lost \union {id} ELSE s.lost
         /\ s.good > 0 => ~t.failed
         /\ ~t.failed /\ CachedPlaced(s, id) => t.content[id] = SeenOf(s, id)
    BY <1>1, <2>1, <2>4 DEF Flushed
  <2> QED
    BY <2>4, <2>5, <2>6, <2>8, <2>9, <2>10 DEF Flushed, t, id
<1> QED
  BY <1>3, <1>4

(* --------------------------------- writes -------------------------------*)

(* A new cached write of a file of which nothing was cached, or no room.   *)
Allocated(s, t, f, offset) ==
  LET i == t.fds[f].cache_page
  IN /\ CallInv(t) /\ Effect(s, t, s.fds[f].obj_id) /\ Found(t, f) /\ ~t.failed
     /\ t.content = s.content
     /\ i # NoPage => i \in WritePages(t.c) /\ t.c.cpages[i] = NewWrite(s, f, offset)

(* The new page of a cached write is empty, or there is none.              *)
LEMMA AllocateAllocates ==
  ASSUME NEW s, CallInv(s), ~s.failed, NEW f \in Fds, s.fds[f].open, Found(s, f),
         s.fds[f].cache_page = NoPage, NEW offset, offset \in Nat
  PROVE  Allocated(s, cache_page_allocate_by_fd(s, f, offset), f, offset)
<1> DEFINE t == cache_page_allocate_by_fd(s, f, offset)
           i == t.fds[f].cache_page
           id == s.fds[f].obj_id
<1>1. /\ CallInv(t) /\ SameFds(s, t) /\ Found(t, f)
      /\ t.content = s.content /\ t.lost = s.lost /\ t.failed = s.failed
      /\ t.err_code = s.err_code
      /\ i # NoPage => i \in WritePages(t.c) /\ t.c.cpages[i] = NewWrite(s, f, offset)
      /\ \A j \in WritePages(s.c) : j \in WritePages(t.c) /\ t.c.cpages[j] = s.c.cpages[j]
      /\ \A j \in WritePages(t.c) : j # i => j \in WritePages(s.c)
  BY AllocateByFdInv
<1> HIDE DEF t
<1>2. \A j \in WritePages(t.c) : j # NoPage
  <2>1. t.c \in CacheType /\ OwnedInv(t.c, t.content, t.fds)
    BY <1>1 DEF CallInv, CallType
  <2> QED
    BY <2>1, ByIdKnown DEF OwnedInv
<1>3. i # NoPage => t.c.cpages[i].obj_id = id
  BY <1>1 DEF NewWrite
<1>4. OthersKept(s, t, id)
  <2>1. \A j \in WritePages(t.c) : t.c.cpages[j].obj_id # id => j # i
    BY <1>2, <1>3
  <2> QED
    BY <1>1, <2>1 DEF OthersKept
<1> QED
  BY <1>1, <1>4 DEF Allocated, Effect, t

(* Bytes put into a cached write are a part of a call on its file.         *)
LEMMA WithDataEffect ==
  ASSUME NEW s, CallInv(s), ~s.failed, NEW i \in WritePages(s.c), NEW data, data \in Seq(Nat)
  PROVE  LET t == WithData(s, i, data)
         IN /\ CallInv(t) /\ Effect(s, t, s.c.cpages[i].obj_id) /\ ~t.failed
            /\ t.fds = s.fds /\ t.content = s.content
            /\ t.c.cpages[i].data = data /\ t.c.cpages[i].offset = s.c.cpages[i].offset
<1> DEFINE t == WithData(s, i, data)
<1>1. /\ CallInv(t) /\ SameFds(s, t) /\ t.fds = s.fds
      /\ t.content = s.content /\ t.lost = s.lost /\ t.failed = s.failed
      /\ t.err_code = s.err_code
      /\ WritePages(t.c) = WritePages(s.c)
      /\ \A j \in WritePages(s.c) : j # i => t.c.cpages[j] = s.c.cpages[j]
      /\ t.c.cpages[i].data = data
      /\ t.c.cpages[i].offset = s.c.cpages[i].offset
      /\ t.c.cpages[i].obj_id = s.c.cpages[i].obj_id
  BY WithDataInv
<1> HIDE DEF t
<1>2. OthersKept(s, t, s.c.cpages[i].obj_id)
  BY <1>1 DEF OthersKept
<1> QED
  BY <1>1, <1>2 DEF Effect, t

(* The bytes are in the file at the offset, cached or stored.              *)
Wrote(s, t, f, offset, bytes) ==
  LET id == s.fds[f].obj_id
  IN /\ CallInv(t) /\ Effect(s, t, id)
     /\ ~t.failed /\ CachedPlaced(s, id) /\ offset <= Len(SeenOf(s, id)) =>
          SeenOf(t, id) = Overwrite(SeenOf(s, id), offset, bytes) /\ CachedPlaced(t, id)

(* Of a file of which nothing is cached, a write to the file.              *)
LEMMA HydroWrites ==
  ASSUME NEW s, CallInv(s), ~s.failed, NEW f \in Fds, s.fds[f].open, Found(s, f),
         s.fds[f].cache_page = NoPage,
         NEW offset, offset \in Nat, NEW bytes, bytes \in Seq(Nat)
  PROVE  /\ Wrote(s, hydro_write(s, f, offset, bytes), f, offset, bytes)
         /\ hydro_write(s, f, offset, bytes).fds = s.fds
         /\ Found(hydro_write(s, f, offset, bytes), f)
<1> DEFINE id == s.fds[f].obj_id
           t == hydro_write(s, f, offset, bytes)
<1>1. Stored(s, t, f, offset, bytes)
  BY HydroStores
<1> HIDE DEF t
<1>2. CallInv(t) /\ Effect(s, t, id) /\ t.c = s.c /\ t.fds = s.fds
  BY <1>1 DEF Stored
<1>3. Found(t, f) /\ t.fds[f].open /\ t.fds[f].obj_id = id /\ t.fds[f].cache_page = NoPage
  BY <1>2 DEF Found
<1>4. SeenOf(s, id) = s.content[id]
  BY SeenByFd
<1>5. SeenOf(t, id) = t.content[id] /\ \A j \in WritePages(t.c) : t.c.cpages[j].obj_id # id
  <2>1. SeenStored(t, f)
    BY <1>2, <1>3, SeenAsStored
  <2> QED
    BY <1>3, <2>1 DEF SeenStored
<1>6. CachedPlaced(t, id)
  BY <1>5 DEF CachedPlaced
<1> QED
  BY <1>1, <1>2, <1>3, <1>4, <1>5, <1>6 DEF Wrote, Stored, t

(* Into a new cached write, or into the file.                              *)
StoreNew(s, f, offset, bytes) ==
  LET t == cache_page_allocate_by_fd(s, f, offset)
      i == t.fds[f].cache_page
  IN IF i = NoPage THEN hydro_write(t, f, offset, bytes)
     ELSE WithData(t, i, Overwrite(t.c.cpages[i].data, offset - t.c.cpages[i].offset, bytes))

(* Into a new page if there is one, and to the file if not.                *)
LEMMA StoreNewWrites ==
  ASSUME NEW s, CallInv(s), ~s.failed, NEW f \in Fds, s.fds[f].open, Found(s, f),
         s.fds[f].cache_page = NoPage,
         NEW offset, offset \in Nat, NEW bytes, bytes \in Seq(Nat)
  PROVE  Wrote(s, StoreNew(s, f, offset, bytes), f, offset, bytes)
<1> DEFINE id == s.fds[f].obj_id
           t == cache_page_allocate_by_fd(s, f, offset)
           i == t.fds[f].cache_page
           r == StoreNew(s, f, offset, bytes)
<1>1. Allocated(s, t, f, offset)
  BY AllocateAllocates
<1>2. r = IF i = NoPage THEN hydro_write(t, f, offset, bytes)
          ELSE WithData(t, i, Overwrite(t.c.cpages[i].data, offset - t.c.cpages[i].offset, bytes))
  BY DEF StoreNew
<1>3. SeenOf(s, id) = s.content[id] /\ s.content[id] \in Seq(Nat)
  BY SeenByFd
<1> HIDE DEF t, r
<1>4. /\ CallInv(t) /\ Effect(s, t, id) /\ Found(t, f) /\ ~t.failed /\ t.content = s.content
      /\ t.fds[f].open /\ t.fds[f].obj_id = id
  BY <1>1 DEF Allocated, Effect, SameFds
<1>5. CASE i = NoPage
  <2> DEFINE u == hydro_write(t, f, offset, bytes)
  <2>1. Wrote(t, u, f, offset, bytes)
    BY <1>4, <1>5, HydroWrites
  <2>2. SeenOf(t, id) = t.content[id] /\ \A j \in WritePages(t.c) : t.c.cpages[j].obj_id # id
    <3>1. SeenStored(t, f)
      BY <1>4, <1>5, SeenAsStored
    <3> QED
      BY <1>4, <3>1 DEF SeenStored
  <2>3. CachedPlaced(t, id)
    BY <2>2 DEF CachedPlaced
  <2>4. r = u
    BY <1>2, <1>5
  <2> HIDE DEF u
  <2>5. Effect(s, u, id) /\ CallInv(u)
    BY <1>4, <2>1, EffectTransitive DEF Wrote
  <2> QED
    BY <1>3, <1>4, <2>1, <2>2, <2>3, <2>4, <2>5 DEF Wrote, r
<1>6. CASE i # NoPage
  <2>1. i \in WritePages(t.c) /\ t.c.cpages[i] = NewWrite(s, f, offset)
    BY <1>1, <1>6 DEF Allocated
  <2>2. t.c.cpages[i].data = <<>> /\ t.c.cpages[i].offset = offset /\ t.c.cpages[i].obj_id = id
    BY <2>1 DEF NewWrite
  <2>3. Overwrite(t.c.cpages[i].data, offset - t.c.cpages[i].offset, bytes) = bytes
    <3>1. offset - offset = 0
      OBVIOUS
    <3> QED
      BY <2>2, <3>1, OverwriteNothing
  <2>4. r = WithData(t, i, bytes)
    BY <1>2, <1>6, <2>3
  <2>5. /\ CallInv(r) /\ Effect(t, r, id) /\ ~r.failed
        /\ r.fds = t.fds /\ r.content = t.content
        /\ r.c.cpages[i].data = bytes /\ r.c.cpages[i].offset = offset
    BY <1>4, <2>1, <2>2, <2>4, WithDataEffect, SMTT(30)
  <2>6. Effect(s, r, id)
    BY <1>4, <2>5, EffectTransitive
  <2>7. r.fds[f].open /\ r.fds[f].obj_id = id /\ r.fds[f].cache_page = i
    BY <1>4, <2>5
  <2>8. Found(r, f)
    <3>1. /\ r.c \in CacheType /\ OwnedInv(r.c, r.content, r.fds)
      BY <2>5 DEF CallInv, CallType
    <3>2. i \in WritePages(r.c) /\ r.c.cpages[i].obj_id = id
      BY <1>6, <2>7, <3>1 DEF OwnedInv
    <3>3. cache_page_get_by_id(r.c, id) = i
      BY <3>1, <3>2, ByIdKnown, SMTT(30) DEF OwnedInv
    <3> QED
      BY <2>7, <3>3 DEF Found
  <2>9. /\ SeenOf(r, id) = Overwrite(r.content[id], r.c.cpages[i].offset, r.c.cpages[i].data)
        /\ \A j \in WritePages(r.c) : r.c.cpages[j].obj_id = id => j = i
    BY <1>6, <2>5, <2>7, <2>8, SeenWith
  <2>10. SeenOf(r, id) = Overwrite(SeenOf(s, id), offset, bytes)
    BY <1>3, <1>4, <2>5, <2>9
  <2>11. offset <= Len(SeenOf(s, id)) => CachedPlaced(r, id)
    BY <1>3, <1>4, <2>5, <2>9 DEF CachedPlaced
  <2> QED
    BY <2>5, <2>6, <2>10, <2>11 DEF Wrote, r
<1> QED
  BY <1>5, <1>6

(* Into the cached write that is there.                                    *)
LEMMA StoreInWrites ==
  ASSUME NEW s, CallInv(s), ~s.failed, NEW f \in Fds, s.fds[f].open, Found(s, f),
         s.fds[f].cache_page # NoPage,
         NEW offset, offset \in Nat, NEW bytes, bytes \in Seq(Nat), Fits(s, f, offset, bytes)
  PROVE  LET p == s.c.cpages[s.fds[f].cache_page]
         IN Wrote(s, WithData(s, s.fds[f].cache_page, Overwrite(p.data, offset - p.offset, bytes)), f,
                  offset, bytes)
<1> DEFINE id == s.fds[f].obj_id
           i == s.fds[f].cache_page
           p == s.c.cpages[i]
           n == offset - p.offset
           new == Overwrite(p.data, n, bytes)
           r == WithData(s, i, new)
           old == s.content[id]
<1>1. /\ old \in Seq(Nat) /\ SeenOf(s, id) = Overwrite(old, p.offset, p.data)
      /\ i \in WritePages(s.c) /\ p \in WritePage /\ p.obj_id = id
      /\ \A j \in WritePages(s.c) : s.c.cpages[j].obj_id = id => j = i
  BY SeenByFd
<1>2. p.offset \in Nat /\ p.data \in Seq(Nat)
  BY <1>1 DEF WritePage
<1>3. offset >= p.offset /\ offset <= p.offset + Len(p.data)
  BY DEF Fits, CachedEnd
<1>4. /\ n \in Nat /\ n <= Len(p.data) /\ p.offset + n = offset
  <2> DEFINE o == p.offset
             l == Len(p.data)
  <2> HIDE DEF p
  <2>0. Len(p.data) \in Nat
    BY <1>2
  <2>1. o \in Nat /\ l \in Nat /\ offset >= o /\ offset <= o + l
    BY <1>2, <1>3, <2>0 DEF p
  <2> HIDE DEF o, l, i
  <2>2. offset - o \in Nat /\ offset - o <= l /\ o + (offset - o) = offset
    BY <2>1
  <2> QED
    BY <2>2 DEF o, l
<1> HIDE DEF n, p, i, id, old
<1>5. new \in Seq(Nat)
  <2> DEFINE d == p.data
  <2>1. d \in Seq(Nat) /\ n \in Nat
    BY <1>2, <1>4
  <2>2. new = Overwrite(d, n, bytes)
    OBVIOUS
  <2> HIDE DEF d, new
  <2> QED
    BY <2>1, <2>2, OverwriteTyped
<1>6. Overwrite(old, p.offset, new) = Overwrite(Overwrite(old, p.offset, p.data), offset, bytes)
  <2> DEFINE o == p.offset
             d == p.data
  <2>1. o \in Nat /\ d \in Seq(Nat) /\ n <= Len(d) /\ o + n = offset
    BY <1>2, <1>4
  <2> HIDE DEF o, d
  <2>2. Overwrite(old, o, Overwrite(d, n, bytes)) = Overwrite(Overwrite(old, o, d), o + n, bytes)
    BY <1>1, <1>4, <2>1, OverwriteInside
  <2> QED
    BY <2>1, <2>2 DEF o, d
<1> HIDE DEF new
<1>7. /\ CallInv(r) /\ Effect(s, r, s.c.cpages[i].obj_id) /\ ~r.failed
      /\ r.fds = s.fds /\ r.content = s.content
      /\ r.c.cpages[i].data = new /\ r.c.cpages[i].offset = s.c.cpages[i].offset
  BY <1>1, <1>5, WithDataEffect
<1> HIDE DEF r
<1>8. Effect(s, r, id)
  BY <1>1, <1>7 DEF p
<1>9. r.fds[f].open /\ r.fds[f].obj_id = id /\ r.fds[f].cache_page = i /\ i # NoPage
  BY <1>7 DEF i, id
<1>10. Found(r, f)
  <2>1. /\ r.c \in CacheType /\ OwnedInv(r.c, r.content, r.fds)
    BY <1>7 DEF CallInv, CallType
  <2>2. i \in WritePages(r.c) /\ r.c.cpages[i].obj_id = id
    BY <1>9, <2>1 DEF OwnedInv
  <2>3. cache_page_get_by_id(r.c, id) = i
    BY <2>1, <2>2, ByIdKnown DEF OwnedInv
  <2> QED
    BY <1>9, <2>3 DEF Found
<1>11. /\ SeenOf(r, id) = Overwrite(r.content[id], r.c.cpages[i].offset, r.c.cpages[i].data)
       /\ \A j \in WritePages(r.c) : r.c.cpages[j].obj_id = id => j = i
  BY <1>7, <1>9, <1>10, SeenWith
<1>12. SeenOf(r, id) = Overwrite(SeenOf(s, id), offset, bytes)
  BY <1>1, <1>6, <1>7, <1>11 DEF p, old
<1>13. CachedPlaced(s, id) => CachedPlaced(r, id)
  BY <1>1, <1>7, <1>11 DEF CachedPlaced, p
<1> QED
  BY <1>7, <1>8, <1>12, <1>13 DEF Wrote, r, i, new, p, n, id

(* After a flush nothing of the file is cached.                            *)
LEMMA FlushedSees ==
  ASSUME NEW s, CallInv(s), NEW f \in Fds, s.fds[f].open, NEW t, Flushed(s, t, f),
         NEW id, s.fds[f].obj_id = id
  PROVE  /\ t.fds[f].open /\ t.fds[f].obj_id = id /\ CallInv(t)
         /\ SeenOf(t, id) = t.content[id] /\ t.content[id] \in Seq(Nat)
         /\ CachedPlaced(t, id)
         /\ ~t.failed /\ CachedPlaced(s, id) => SeenOf(t, id) = SeenOf(s, id)
<1>1. t.fds[f].open /\ t.fds[f].obj_id = id /\ CallInv(t) /\ Found(t, f) /\ t.fds[f].cache_page = NoPage
  BY DEF Flushed, SameFds
<1>2. /\ SeenOf(t, id) = t.content[id] /\ t.content[id] \in Seq(Nat)
      /\ \A j \in WritePages(t.c) : t.c.cpages[j].obj_id # id
  BY <1>1, SeenByFd
<1>3. CachedPlaced(t, id)
  BY <1>2 DEF CachedPlaced
<1> QED
  BY <1>1, <1>2, <1>3 DEF Flushed

(* A write that follows the write back of what was cached.                 *)
LEMMA WroteAfter ==
  ASSUME NEW s, CallInv(s), NEW f \in Fds, s.fds[f].open,
         NEW u, Flushed(s, u, f), u.err_code = s.err_code, ~u.failed,
         NEW t, NEW offset, NEW bytes, Wrote(u, t, f, offset, bytes)
  PROVE  Wrote(s, t, f, offset, bytes)
<1> DEFINE id == s.fds[f].obj_id
<1>1. /\ u.fds[f].obj_id = id /\ CachedPlaced(u, id)
      /\ CachedPlaced(s, id) => SeenOf(u, id) = SeenOf(s, id)
  BY FlushedSees
<1>2. Effect(s, u, id)
  BY DEF Effect, Flushed
<1>3. CallInv(t) /\ Effect(u, t, id)
  BY <1>1 DEF Wrote
<1>4. Effect(s, t, id)
  BY <1>2, <1>3, EffectTransitive
<1> QED
  BY <1>1, <1>3, <1>4 DEF Wrote

(* Writing back failed: the write has not begun.                           *)
LEMMA WroteNothing ==
  ASSUME NEW s, CallInv(s), NEW f \in Fds, s.fds[f].open,
         NEW u, Flushed(s, u, f), u.err_code = s.err_code, u.failed,
         NEW offset, NEW bytes
  PROVE  Wrote(s, u, f, offset, bytes)
BY DEF Wrote, Effect, Flushed

(* A small write is seen in the file, wherever it went.                    *)
LEMMA StoreSmallWrites ==
  ASSUME NEW s, CallInv(s), ~s.failed, NEW f \in Fds, s.fds[f].open, Found(s, f),
         NEW offset, offset \in Nat, NEW bytes, bytes \in Seq(Nat)
  PROVE  Wrote(s, StoreSmall(s, f, offset, bytes), f, offset, bytes)
<1> DEFINE cached == s.fds[f].cache_page # NoPage
           fits == cached /\ Fits(s, f, offset, bytes)
           freed == IF cached /\ ~fits THEN WriteBack(s, f) ELSE s
           t == IF fits \/ freed.failed THEN freed ELSE cache_page_allocate_by_fd(freed, f, offset)
           i == t.fds[f].cache_page
           r == StoreSmall(s, f, offset, bytes)
<1>1. r = IF t.failed THEN t
          ELSE IF i = NoPage THEN hydro_write(t, f, offset, bytes)
          ELSE WithData(t, i, Overwrite(t.c.cpages[i].data, offset - t.c.cpages[i].offset, bytes))
  BY DEF StoreSmall, WithData
<1> HIDE DEF r
<1>2. CASE fits
  <2>1. t = s
    BY <1>2
  <2> HIDE DEF t
  <2>2. r = WithData(s, s.fds[f].cache_page,
                     Overwrite(s.c.cpages[s.fds[f].cache_page].data,
                               offset - s.c.cpages[s.fds[f].cache_page].offset, bytes))
    BY <1>1, <1>2, <2>1
  <2>3. Wrote(s, WithData(s, s.fds[f].cache_page,
                          Overwrite(s.c.cpages[s.fds[f].cache_page].data,
                                    offset - s.c.cpages[s.fds[f].cache_page].offset, bytes)),
              f, offset, bytes)
    BY <1>2, StoreInWrites
  <2> QED
    BY <2>2, <2>3 DEF r
<1>3. CASE ~fits /\ cached
  <2> DEFINE w == WriteBack(s, f)
  <2>1. Flushed(s, w, f) /\ w.err_code = s.err_code
    BY <1>3, WriteBackFlushes
  <2>2. freed = w
    BY <1>3
  <2> HIDE DEF w, freed, fits
  <2>3. CASE w.failed
    <3>1. r = w
      BY <1>1, <2>2, <2>3
    <3> QED
      BY <2>1, <2>3, <3>1, WroteNothing DEF r
  <2>4. CASE ~w.failed
    <3>1. /\ CallInv(w) /\ w.fds[f].open /\ Found(w, f) /\ w.fds[f].cache_page = NoPage
      BY <2>1, FlushedSees DEF Flushed
    <3>2. t = cache_page_allocate_by_fd(w, f, offset)
      BY <1>3, <2>2, <2>4
    <3>3. ~cache_page_allocate_by_fd(w, f, offset).failed
      BY <2>4, <3>1, AllocateAllocates DEF Allocated
    <3> HIDE DEF t
    <3>4. r = StoreNew(w, f, offset, bytes)
      BY <1>1, <3>2, <3>3 DEF StoreNew
    <3>5. Wrote(w, StoreNew(w, f, offset, bytes), f, offset, bytes)
      BY <2>4, <3>1, StoreNewWrites
    <3> QED
      BY <2>1, <2>4, <3>4, <3>5, WroteAfter DEF r
  <2> QED
    BY <2>3, <2>4
<1>4. CASE ~cached
  <2>1. t = cache_page_allocate_by_fd(s, f, offset)
    BY <1>4
  <2>2. ~cache_page_allocate_by_fd(s, f, offset).failed
    BY <1>4, AllocateAllocates DEF Allocated
  <2> HIDE DEF t
  <2>3. r = StoreNew(s, f, offset, bytes)
    BY <1>1, <2>1, <2>2 DEF StoreNew
  <2>4. Wrote(s, StoreNew(s, f, offset, bytes), f, offset, bytes)
    BY <1>4, StoreNewWrites
  <2> QED
    BY <2>3, <2>4 DEF r
<1> QED
  BY <1>2, <1>3, <1>4

(* Behind a cached write the bytes are written twice, to the same end.     *)
LEMMA StoreTwice ==
  ASSUME NEW s, CallInv(s), ~s.failed, NEW f \in Fds, s.fds[f].open, Found(s, f),
         s.fds[f].cache_page = NoPage,
         NEW offset, offset \in Nat, NEW bytes, bytes \in Seq(Nat),
         ~hydro_write(s, f, offset, bytes).failed
  PROVE  Wrote(s, hydro_write(hydro_write(s, f, offset, bytes), f, offset, bytes), f, offset, bytes)
<1> DEFINE id == s.fds[f].obj_id
           old == SeenOf(s, id)
           u == hydro_write(s, f, offset, bytes)
           t == hydro_write(u, f, offset, bytes)
<1>1. Wrote(s, u, f, offset, bytes) /\ u.fds = s.fds /\ Found(u, f)
  <2>1. Wrote(s, u, f, offset, bytes)
    BY HydroWrites
  <2>2. u.fds = s.fds
    <3>1. Stored(s, u, f, offset, bytes)
      BY HydroStores
    <3> HIDE DEF u
    <3> QED
      BY <3>1 DEF Stored
  <2>3. Found(u, f)
    BY HydroWrites
  <2> QED
    BY <2>1, <2>2, <2>3
<1>2. ~u.failed
  OBVIOUS
<1> HIDE DEF u
<1>3. CallInv(u) /\ Effect(s, u, id)
  BY <1>1 DEF Wrote
<1>4. u.fds[f].open /\ u.fds[f].obj_id = id /\ u.fds[f].cache_page = NoPage
  BY <1>1
<1>5. Wrote(u, t, f, offset, bytes)
  BY <1>1, <1>2, <1>3, <1>4, HydroWrites
<1> HIDE DEF t
<1>6. CallInv(t) /\ Effect(u, t, id)
  BY <1>4, <1>5 DEF Wrote
<1>7. Effect(s, t, id)
  BY <1>2, <1>3, <1>6, EffectTransitive
<1>8. old \in Seq(Nat)
  BY SeenByFd
<1> HIDE DEF old, id
<1>9. ASSUME ~t.failed, CachedPlaced(s, id), offset <= Len(old)
      PROVE  SeenOf(t, id) = Overwrite(old, offset, bytes) /\ CachedPlaced(t, id)
  <2>1. SeenOf(u, id) = Overwrite(old, offset, bytes) /\ CachedPlaced(u, id)
    BY <1>1, <1>2, <1>9 DEF Wrote, old, id
  <2>2. offset <= Len(Overwrite(old, offset, bytes))
    <3>1. Len(old) \in Nat /\ Len(bytes) \in Nat
      BY <1>8
    <3>2. IsOverwrite(Overwrite(old, offset, bytes), old, offset, bytes)
      BY <1>8, OverwriteIs
    <3>3. Len(Overwrite(old, offset, bytes)) = Longer(offset + Len(bytes), Len(old))
      BY <3>2 DEF IsOverwrite
    <3> QED
      BY <3>1, <3>3 DEF Longer
  <2>3. SeenOf(t, id) = Overwrite(Overwrite(old, offset, bytes), offset, bytes) /\ CachedPlaced(t, id)
    BY <1>4, <1>5, <1>9, <2>1, <2>2 DEF Wrote
  <2>4. Overwrite(Overwrite(old, offset, bytes), offset, bytes) = Overwrite(old, offset, bytes)
    BY <1>8, OverwriteTwice
  <2> QED
    BY <2>3, <2>4
<1> QED
  BY <1>6, <1>7, <1>9 DEF Wrote, old, id, u, t

(* So is a big one.                                                        *)
LEMMA StoreBigWrites ==
  ASSUME NEW s, CallInv(s), ~s.failed, NEW f \in Fds, s.fds[f].open, Found(s, f),
         NEW offset, offset \in Nat, NEW bytes, bytes \in Seq(Nat)
  PROVE  Wrote(s, StoreBig(s, f, offset, bytes), f, offset, bytes)
<1> DEFINE t == WriteBack(s, f)
           h == hydro_write(t, f, offset, bytes)
           u == IF t.failed THEN t ELSE h
           r == StoreBig(s, f, offset, bytes)
<1>1. r = IF s.fds[f].cache_page = NoPage THEN hydro_write(s, f, offset, bytes)
          ELSE IF u.failed THEN u ELSE hydro_write(u, f, offset, bytes)
  BY DEF StoreBig
<1> HIDE DEF r
<1>2. CASE s.fds[f].cache_page = NoPage
  <2>1. r = hydro_write(s, f, offset, bytes)
    BY <1>1, <1>2
  <2>2. Wrote(s, hydro_write(s, f, offset, bytes), f, offset, bytes)
    BY <1>2, HydroWrites
  <2> QED
    BY <2>1, <2>2 DEF r
<1>3. CASE s.fds[f].cache_page # NoPage
  <2>1. Flushed(s, t, f) /\ t.err_code = s.err_code
    BY <1>3, WriteBackFlushes
  <2> HIDE DEF t
  <2>2. CASE t.failed
    <3>1. r = t
      BY <1>1, <1>3, <2>2
    <3> QED
      BY <2>1, <2>2, <3>1, WroteNothing DEF r
  <2>3. CASE ~t.failed
    <3>1. CallInv(t) /\ t.fds[f].open /\ Found(t, f) /\ t.fds[f].cache_page = NoPage
      BY <2>1, FlushedSees DEF Flushed
    <3>2. u = h
      BY <2>3
    <3> DEFINE v == hydro_write(h, f, offset, bytes)
    <3>3. r = IF h.failed THEN h ELSE v
      BY <1>1, <1>3, <3>2
    <3> HIDE DEF u
    <3>4. CASE h.failed
      <4>1. Wrote(t, h, f, offset, bytes)
        BY <2>3, <3>1, HydroWrites
      <4>2. r = h
        BY <3>3, <3>4
      <4> HIDE DEF h
      <4> QED
        BY <2>1, <2>3, <4>1, <4>2, WroteAfter DEF r
    <3>5. CASE ~h.failed
      <4>1. Wrote(t, v, f, offset, bytes)
        BY <2>3, <3>1, <3>5, StoreTwice
      <4>2. r = v
        BY <3>3, <3>5
      <4> HIDE DEF v
      <4> QED
        BY <2>1, <2>3, <4>1, <4>2, WroteAfter DEF r
    <3> QED
      BY <3>4, <3>5
  <2> QED
    BY <2>2, <2>3
<1> QED
  BY <1>2, <1>3

(* Where a write goes: an appending one to the end of what is seen.        *)
WriteAt(s, f) ==
  IF "APPEND" \in s.fds[f].flags THEN Len(SeenOf(s, s.fds[f].obj_id)) ELSE s.fds[f].fdoffset

(* An appending write goes behind the last byte that is seen.              *)
LEMMA WriteOffsetIs ==
  ASSUME NEW s, CallInv(s), NEW f \in Fds, s.fds[f].open, Found(s, f)
  PROVE  WriteOffset(s, f) = WriteAt(s, f)
<1> DEFINE id == s.fds[f].obj_id
           i == s.fds[f].cache_page
           old == s.content[id]
           o == s.c.cpages[i].offset
           d == s.c.cpages[i].data
           end == CachedEnd(s, f)
           n == Len(SeenOf(s, id))
<1>1. old \in Seq(Nat)
  BY SeenByFd
<1>2. Size(s, f) = Len(old)
  BY DEF Size
<1>3. n = Longer(Size(s, f), end)
  <2>1. CASE i = NoPage
    <3>1. SeenOf(s, id) = old /\ end = 0
      BY <2>1, SeenByFd DEF CachedEnd
    <3> HIDE DEF old, end
    <3>2. Len(old) \in Nat
      BY <1>1
    <3> QED
      BY <1>2, <3>1, <3>2 DEF Longer
  <2>2. CASE i # NoPage
    <3>1. SeenOf(s, id) = Overwrite(old, o, d) /\ s.c.cpages[i] \in WritePage /\ end = o + Len(d)
      BY <2>2, SeenByFd DEF CachedEnd
    <3>2. o \in Nat /\ d \in Seq(Nat)
      BY <3>1 DEF WritePage
    <3> HIDE DEF old, end, o, d
    <3>3. Len(old) \in Nat /\ Len(d) \in Nat /\ o + Len(d) \in Nat
      BY <1>1, <3>2
    <3>4. Len(Overwrite(old, o, d)) = Longer(o + Len(d), Len(old))
      BY <1>1, <3>2, OverwriteTyped
    <3> QED
      BY <1>2, <3>1, <3>3, <3>4 DEF Longer
  <2> QED
    BY <2>1, <2>2
<1> HIDE DEF n, end
<1> QED
  BY <1>3 DEF WriteOffset, WriteAt, n, end

(* ---------------------------------- calls -------------------------------*)

(* What a call through one descriptor leaves of all others, of the other   *)
(* files, and what it reports.                                             *)
CallDone(s, t, f) ==
  LET id == s.fds[f].obj_id
  IN /\ CallInv(t) /\ DOMAIN t.content = DOMAIN s.content
     /\ \A g \in Fds :
          /\ t.fds[g].open = s.fds[g].open /\ t.fds[g].obj_id = s.fds[g].obj_id
          /\ t.fds[g].flags = s.fds[g].flags
          /\ g # f => t.fds[g].fdoffset = s.fds[g].fdoffset
     /\ OthersKept(s, t, id)
     /\ t.lost = IF t.failed THEN s.lost \union {id} ELSE s.lost
     /\ t.err_code = IF t.failed THEN "FULL" ELSE s.err_code

(* The call changes no byte and keeps the offset inside the file.          *)
Moved(s, t, f) ==
  LET id == s.fds[f].obj_id
  IN ~t.failed /\ CachedPlaced(s, id) =>
       /\ SeenOf(t, id) = SeenOf(s, id) /\ CachedPlaced(t, id)
       /\ s.fds[f].fdoffset <= Len(SeenOf(s, id)) => t.fds[f].fdoffset <= Len(SeenOf(s, id))

(* The type of a descriptor.                                               *)
LEMMA FdOffsetTyped ==
  ASSUME NEW s, CallInv(s), NEW f \in Fds
  PROVE  s.fds[f].fdoffset \in Nat /\ s.fds[f] \in FdType
BY DEF CallInv, CallType, FdType

(* SPIFFS_fflush, and what the other calls begin with.                     *)
LEMMA FflushMoves ==
  ASSUME NEW s, CallInv(s), ~s.failed, NEW f \in Fds, s.fds[f].open
  PROVE  LET t == fflush_cache(s, f)
         IN /\ CallDone(s, t, f) /\ Moved(s, t, f)
            /\ t.fds[f].open /\ t.fds[f].obj_id = s.fds[f].obj_id /\ t.fds[f].cache_page = NoPage
            /\ t.fds[f].fdoffset = s.fds[f].fdoffset
            /\ SeenOf(t, t.fds[f].obj_id) = t.content[t.fds[f].obj_id]
            /\ t.content[t.fds[f].obj_id] \in Seq(Nat)
            /\ CachedPlaced(t, t.fds[f].obj_id)
            /\ s.good > 0 => ~t.failed
<1> DEFINE t == fflush_cache(s, f)
<1>1. Flushed(s, t, f) /\ t.err_code = IF t.failed THEN "FULL" ELSE s.err_code
  BY FflushFlushes
<1> HIDE DEF t
<1>2. /\ t.fds[f].open /\ t.fds[f].obj_id = s.fds[f].obj_id /\ CallInv(t)
      /\ SeenOf(t, s.fds[f].obj_id) = t.content[s.fds[f].obj_id]
      /\ t.content[s.fds[f].obj_id] \in Seq(Nat)
      /\ CachedPlaced(t, s.fds[f].obj_id)
      /\ ~t.failed /\ CachedPlaced(s, s.fds[f].obj_id) =>
           SeenOf(t, s.fds[f].obj_id) = SeenOf(s, s.fds[f].obj_id)
  BY <1>1, FlushedSees
<1>3. CallDone(s, t, f)
  BY <1>1, <1>2 DEF CallDone, Flushed, SameFds
<1>4. t.fds[f].fdoffset = s.fds[f].fdoffset
  BY <1>1 DEF Flushed, SameFds
<1>5. Moved(s, t, f)
  BY <1>2, <1>4 DEF Moved
<1> QED
  BY <1>1, <1>2, <1>3, <1>4, <1>5 DEF Flushed, t

(* The descriptor's offset moves after a call.                             *)
LEMMA OffsetAfter ==
  ASSUME NEW s, NEW f \in Fds, NEW t, CallDone(s, t, f), NEW offset,
         NEW u, CallInv(u), OffsetMoved(t, u, f, offset), NEW id
  PROVE  /\ CallDone(s, u, f) /\ SeenOf(u, id) = SeenOf(t, id)
         /\ CachedPlaced(t, id) => CachedPlaced(u, id)
         /\ u.fds[f].fdoffset = offset /\ u.failed = t.failed
<1>1. /\ u.c = t.c /\ u.content = t.content /\ u.lost = t.lost /\ u.failed = t.failed
      /\ u.err_code = t.err_code
      /\ \A g \in Fds :
           /\ u.fds[g].open = t.fds[g].open /\ u.fds[g].obj_id = t.fds[g].obj_id
           /\ u.fds[g].flags = t.fds[g].flags
           /\ u.fds[g].fdoffset = IF g = f THEN offset ELSE t.fds[g].fdoffset
  BY DEF OffsetMoved
<1>2. OthersKept(s, u, s.fds[f].obj_id)
  BY <1>1 DEF CallDone, OthersKept
<1>3. CallDone(s, u, f)
  BY <1>1, <1>2 DEF CallDone
<1>4. SeenOf(u, id) = SeenOf(t, id) /\ (CachedPlaced(t, id) => CachedPlaced(u, id))
  BY <1>1 DEF SeenOf, CachedPlaced
<1> QED
  BY <1>1, <1>3, <1>4

(* SPIFFS_read: the bytes that are seen from the offset on.                *)
LEMMA ReadMoves ==
  ASSUME NEW s, CallInv(s), ~s.failed, NEW f \in Fds, s.fds[f].open, NEW len, len \in Nat
  PROVE  LET t == ReadFlushed(s, f, len)
             id == s.fds[f].obj_id
         IN /\ CallDone(s, t, f) /\ Moved(s, t, f)
            /\ s.good > 0 /\ CachedPlaced(s, id) =>
                 t.got = ReadBytes(SeenOf(s, id), s.fds[f].fdoffset, len)
<1> DEFINE t == fflush_cache(s, f)
           u == ReadFlushed(s, f, len)
           id == s.fds[f].obj_id
           from == s.fds[f].fdoffset
           old == t.content[id]
           bytes == ReadBytes(old, from, len)
           end == from + Len(bytes)
<1>1. /\ CallDone(s, t, f) /\ Moved(s, t, f)
      /\ t.fds[f].open /\ t.fds[f].obj_id = s.fds[f].obj_id
      /\ t.fds[f].fdoffset = s.fds[f].fdoffset
      /\ SeenOf(t, t.fds[f].obj_id) = t.content[t.fds[f].obj_id]
      /\ t.content[t.fds[f].obj_id] \in Seq(Nat)
      /\ CachedPlaced(t, t.fds[f].obj_id)
      /\ s.good > 0 => ~t.failed
  BY FflushMoves
<1>2. u = ReadStored(t, f, len)
  BY DEF ReadFlushed
<1> HIDE DEF t, u
<1>3. /\ CallInv(t) /\ t.fds[f].obj_id = id /\ t.fds[f].fdoffset = from
      /\ SeenOf(t, id) = old /\ old \in Seq(Nat) /\ CachedPlaced(t, id)
  BY <1>1 DEF CallDone
<1>4. /\ CallInv(u) /\ u.got = bytes /\ OffsetMoved(t, u, f, end)
  BY <1>1, <1>2, <1>3, ReadStoredInv
<1>5. from \in Nat
  BY FdOffsetTyped
<1>6. from <= Len(old) => end <= Len(old)
  BY <1>3, <1>5, ReadBytesTyped
<1> HIDE DEF bytes, old, from, id, end
<1>7. /\ CallDone(s, u, f) /\ SeenOf(u, id) = SeenOf(t, id) /\ CachedPlaced(u, id)
      /\ u.fds[f].fdoffset = end /\ u.failed = t.failed
  <2>1. CallDone(s, t, f) /\ CallInv(u) /\ OffsetMoved(t, u, f, end)
    BY <1>1, <1>4
  <2>2. /\ CallDone(s, u, f) /\ SeenOf(u, id) = SeenOf(t, id)
        /\ (CachedPlaced(t, id) => CachedPlaced(u, id))
        /\ u.fds[f].fdoffset = end /\ u.failed = t.failed
    BY <2>1, OffsetAfter
  <2> QED
    BY <1>3, <2>2
<1>8. ~t.failed /\ CachedPlaced(s, id) => old = SeenOf(s, id)
  BY <1>1, <1>3 DEF Moved, id
<1>9. Moved(s, u, f)
  BY <1>1, <1>6, <1>7, <1>8 DEF Moved, id, from
<1>10. s.good > 0 /\ CachedPlaced(s, id) => u.got = ReadBytes(SeenOf(s, id), from, len)
  BY <1>1, <1>4, <1>8 DEF bytes
<1> QED
  BY <1>7, <1>9, <1>10 DEF u, id, from

(* SPIFFS_lseek.                                                           *)
LEMMA SeekMoves ==
  ASSUME NEW s, CallInv(s), ~s.failed, NEW f \in Fds, s.fds[f].open, NEW offset, offset \in Nat
  PROVE  LET t == Sought(s, f, offset) IN CallDone(s, t, f) /\ Moved(s, t, f)
<1> DEFINE t == fflush_cache(s, f)
           u == Sought(s, f, offset)
           id == s.fds[f].obj_id
           w == WithOffset(t, f, offset)
<1>0. /\ CallDone(s, t, f) /\ Moved(s, t, f)
      /\ t.fds[f].obj_id = s.fds[f].obj_id
      /\ SeenOf(t, t.fds[f].obj_id) = t.content[t.fds[f].obj_id]
      /\ CachedPlaced(t, t.fds[f].obj_id)
  BY FflushMoves
<1>2. u = IF offset <= Size(t, f) /\ Size(t, f) > 0 THEN w ELSE t
  BY DEF Sought, WithOffset
<1> HIDE DEF t
<1>1. /\ CallDone(s, t, f) /\ Moved(s, t, f) /\ CallInv(t)
      /\ t.fds[f].obj_id = id /\ SeenOf(t, id) = t.content[id] /\ CachedPlaced(t, id)
  BY <1>0 DEF CallDone
<1>3. Size(t, f) = Len(SeenOf(t, id))
  BY <1>1 DEF Size
<1> HIDE DEF t, u
<1>4. CASE ~(offset <= Size(t, f) /\ Size(t, f) > 0)
  BY <1>1, <1>2, <1>4 DEF u
<1>5. CASE offset <= Size(t, f) /\ Size(t, f) > 0
  <2>1. CallInv(w) /\ OffsetMoved(t, w, f, offset)
    BY <1>1, WithOffsetInv
  <2> HIDE DEF w, id
  <2>2. /\ CallDone(s, w, f) /\ SeenOf(w, id) = SeenOf(t, id) /\ CachedPlaced(w, id)
        /\ w.fds[f].fdoffset = offset /\ w.failed = t.failed
    BY <1>1, <2>1, OffsetAfter
  <2>3. ~t.failed /\ CachedPlaced(s, id) => SeenOf(t, id) = SeenOf(s, id)
    BY <1>1 DEF Moved, id
  <2>4. Moved(s, w, f)
    BY <1>3, <1>5, <2>2, <2>3 DEF Moved, id
  <2>5. u = w
    BY <1>2, <1>5
  <2> QED
    BY <2>2, <2>4, <2>5 DEF u
<1> QED
  BY <1>4, <1>5

(* SPIFFS_write.                                                           *)
Extended(s, t, f, bytes) ==
  LET id == s.fds[f].obj_id
  IN ~t.failed /\ CachedPlaced(s, id) /\ s.fds[f].fdoffset <= Len(SeenOf(s, id)) =>
       /\ SeenOf(t, id) = Overwrite(SeenOf(s, id), WriteAt(s, f), bytes) /\ CachedPlaced(t, id)
       /\ t.fds[f].fdoffset = s.fds[f].fdoffset + Len(bytes)

(* The bytes seen are bytes.                                               *)
LEMMA SeenTyped ==
  ASSUME NEW s, CallInv(s), NEW id \in DOMAIN s.content
  PROVE  SeenOf(s, id) \in Seq(Nat)
<1> DEFINE i == cache_page_get_by_id(s.c, id)
           old == s.content[id]
           o == s.c.cpages[i].offset
           d == s.c.cpages[i].data
<1>1. s.c \in CacheType /\ s.content \in ContentType /\ OwnedInv(s.c, s.content, s.fds)
  BY DEF CallInv, CallType
<1>2. old \in Seq(Nat)
  BY <1>1, ContentTyped
<1>3. SeenOf(s, id) = IF i = NoPage THEN old ELSE Overwrite(old, o, d)
  BY DEF SeenOf
<1>4. CASE i # NoPage
  <2>1. s.c.cpages[i] \in WritePage
    BY <1>1, <1>4, ByIdKnown, PageKinds DEF OwnedInv
  <2>2. o \in Nat /\ d \in Seq(Nat)
    BY <2>1 DEF WritePage
  <2> HIDE DEF o, d, old, i
  <2>3. IsOverwrite(Overwrite(old, o, d), old, o, d)
    BY <1>2, <2>2, OverwriteIs
  <2> QED
    BY <1>3, <1>4, <2>3 DEF IsOverwrite
<1> QED
  BY <1>2, <1>3, <1>4

(* SPIFFS_write.                                                           *)
LEMMA WrittenWrites ==
  ASSUME NEW s, CallInv(s), ~s.failed, NEW f \in Fds, s.fds[f].open, NEW bytes, bytes \in Seq(Nat)
  PROVE  LET t == Written(s, f, bytes) IN CallDone(s, t, f) /\ Extended(s, t, f, bytes)
<1> DEFINE found == FindCached(s, f)
           offset == WriteOffset(found, f)
           t == IF Len(bytes) < LOG_PAGE_SIZE THEN StoreSmall(found, f, offset, bytes)
                ELSE StoreBig(found, f, offset, bytes)
           r == Written(s, f, bytes)
           id == s.fds[f].obj_id
           at == WriteAt(s, f)
<1>1. /\ CallInv(found) /\ SameFds(s, found) /\ Found(found, f) /\ OthersKept(s, found, id)
      /\ found.lost = s.lost /\ found.failed = s.failed
      /\ found.err_code = s.err_code /\ found.fds[f].open /\ found.fds[f].obj_id = id
      /\ SeenOf(found, id) = SeenOf(s, id) /\ (CachedPlaced(s, id) => CachedPlaced(found, id))
  BY FindCachedSees
<1>2. r = IF t.failed THEN Report(t) ELSE [t EXCEPT !.fds[f].fdoffset = @ + Len(bytes)]
  BY DEF Written
<1> HIDE DEF found, r
<1>3. offset = at
  <2>1. offset = WriteAt(found, f)
    BY <1>1, WriteOffsetIs
  <2> QED
    BY <1>1, <2>1 DEF WriteAt, SameFds
<1>4. offset \in Nat
  BY <1>1, WriteOffsetTyped
<1> HIDE DEF offset
<1>5. Wrote(found, t, f, offset, bytes)
  <2>1. Wrote(found, StoreSmall(found, f, offset, bytes), f, offset, bytes)
    BY <1>1, <1>4, StoreSmallWrites
  <2>2. Wrote(found, StoreBig(found, f, offset, bytes), f, offset, bytes)
    BY <1>1, <1>4, StoreBigWrites
  <2> QED
    BY <2>1, <2>2
<1> HIDE DEF t
<1>6. CallInv(t) /\ Effect(found, t, id)
  BY <1>1, <1>5 DEF Wrote
<1>7. /\ SameFds(s, t) /\ OthersKept(s, t, id) /\ t.err_code = s.err_code
      /\ t.lost = IF t.failed THEN s.lost \union {id} ELSE s.lost
  <2>1. SameFds(s, t)
    BY <1>1, <1>6 DEF SameFds, Effect
  <2>2. DOMAIN found.content = DOMAIN s.content
    BY <1>1 DEF SameFds
  <2>3. OthersKept(s, t, id)
    BY <1>1, <1>6, <2>2, OthersTransitive DEF Effect
  <2> QED
    BY <1>1, <1>6, <2>1, <2>3 DEF Effect
<1>8. CASE t.failed
  <2>1. r = Report(t)
    BY <1>2, <1>8
  <2>2. /\ CallInv(r) /\ r.c = t.c /\ r.content = t.content /\ r.fds = t.fds
        /\ r.lost = t.lost /\ r.failed = t.failed
    BY <1>6, <2>1, ReportInv
  <2>3. r.err_code = "FULL"
    BY <1>6, <1>8, <2>1 DEF Report, CallInv, CallType
  <2>4. OthersKept(s, r, id)
    BY <1>7, <2>2 DEF OthersKept
  <2>5. CallDone(s, r, f)
    BY <1>7, <1>8, <2>2, <2>3, <2>4 DEF CallDone, SameFds
  <2>6. Extended(s, r, f, bytes)
    BY <1>8, <2>2 DEF Extended
  <2> QED
    BY <2>5, <2>6 DEF r
<1>9. CASE ~t.failed
  <2> DEFINE end == t.fds[f].fdoffset + Len(bytes)
  <2>1. r = WithOffset(t, f, end)
    BY <1>2, <1>6, <1>9 DEF WithOffset, CallInv, CallType
  <2>2. end \in Nat
    BY <1>6, FdOffsetTyped
  <2>3. end = s.fds[f].fdoffset + Len(bytes)
    BY <1>7 DEF SameFds
  <2> HIDE DEF end, id
  <2>4. CallInv(r) /\ OffsetMoved(t, r, f, end)
    BY <1>6, <2>1, <2>2, WithOffsetInv
  <2>5. CallDone(s, t, f)
    BY <1>6, <1>7, <1>9 DEF CallDone, SameFds, id
  <2>6. /\ CallDone(s, r, f) /\ SeenOf(r, id) = SeenOf(t, id)
        /\ (CachedPlaced(t, id) => CachedPlaced(r, id))
        /\ r.fds[f].fdoffset = end /\ r.failed = t.failed
    BY <2>4, <2>5, OffsetAfter
  <2>7. ASSUME CachedPlaced(s, id), s.fds[f].fdoffset <= Len(SeenOf(s, id))
        PROVE  at <= Len(SeenOf(s, id))
    <3>1. id \in DOMAIN s.content
      BY DEF CallInv, OwnedInv, id
    <3>2. SeenOf(s, id) \in Seq(Nat)
      BY <3>1, SeenTyped
    <3>3. Len(SeenOf(s, id)) \in Nat
      BY <3>2
    <3> QED
      BY <2>7, <3>3 DEF WriteAt, id
  <2>8. Extended(s, r, f, bytes)
    <3>1. SUFFICES ASSUME CachedPlaced(s, id), s.fds[f].fdoffset <= Len(SeenOf(s, id))
                   PROVE  /\ SeenOf(r, id) = Overwrite(SeenOf(s, id), at, bytes)
                          /\ CachedPlaced(r, id)
                          /\ r.fds[f].fdoffset = s.fds[f].fdoffset + Len(bytes)
      BY DEF Extended, id
    <3>2. SeenOf(t, id) = Overwrite(SeenOf(s, id), at, bytes) /\ CachedPlaced(t, id)
      BY <1>1, <1>3, <1>5, <1>9, <2>7, <3>1 DEF Wrote
    <3> QED
      BY <2>3, <2>6, <3>2
  <2> QED
    BY <2>6, <2>8 DEF r
<1> QED
  BY <1>8, <1>9

(* ------------------------- offsets inside the files ---------------------*)

(* A call on one file leaves every other as it is seen, and its descriptors. *)
LEMMA OthersAfter ==
  ASSUME NEW s, CallInv(s), NEW f \in Fds, NEW t, CallDone(s, t, f),
         NEW j \in DOMAIN s.content, j # s.fds[f].obj_id
  PROVE  /\ SeenOf(t, j) = SeenOf(s, j)
         /\ CachedPlaced(s, j) => CachedPlaced(t, j)
         /\ FdsPlaced(s, j) => FdsPlaced(t, j)
<1>1. SeenOf(t, j) = SeenOf(s, j) /\ (CachedPlaced(s, j) => CachedPlaced(t, j))
  <2> DEFINE id == s.fds[f].obj_id
  <2>1. CallInv(t) /\ OthersKept(s, t, id) /\ j # id
    BY DEF CallDone
  <2> HIDE DEF id
  <2> QED
    BY <2>1, OthersSeen
<1>2. ASSUME FdsPlaced(s, j)
      PROVE  FdsPlaced(t, j)
  <2>1. SUFFICES ASSUME NEW g \in Fds, t.fds[g].open, t.fds[g].obj_id = j
                 PROVE  t.fds[g].fdoffset <= Len(SeenOf(t, j))
    BY DEF FdsPlaced
  <2>2. /\ s.fds[g].open /\ s.fds[g].obj_id = j /\ g # f
        /\ t.fds[g].fdoffset = s.fds[g].fdoffset
    BY <2>1 DEF CallDone
  <2> QED
    BY <1>1, <1>2, <2>2 DEF FdsPlaced
<1> QED
  BY <1>1, <1>2

(* The invariant after a call, if it holds of the call's own file.         *)
LEMMA PlacedAfter ==
  ASSUME NEW s, CallInv(s), PlacedInv(s), NEW f \in Fds, NEW t, CallDone(s, t, f),
         s.fds[f].obj_id \notin t.lost =>
           CachedPlaced(t, s.fds[f].obj_id) /\ FdsPlaced(t, s.fds[f].obj_id)
  PROVE  PlacedInv(t)
<1>1. SUFFICES ASSUME NEW j \in DOMAIN t.content \ t.lost
               PROVE  CachedPlaced(t, j) /\ FdsPlaced(t, j)
  BY DEF PlacedInv
<1>2. CASE j = s.fds[f].obj_id
  BY <1>2
<1>3. CASE j # s.fds[f].obj_id
  <2>1. j \in DOMAIN s.content \ s.lost
    BY DEF CallDone
  <2> QED
    BY <1>3, <2>1, OthersAfter DEF PlacedInv
<1> QED
  BY <1>2, <1>3

(* The own file of a call that worked, when nothing had failed on it.      *)
LEMMA OwnPlaced ==
  ASSUME NEW s, CallInv(s), PlacedInv(s), NEW f \in Fds, s.fds[f].open, NEW t, CallDone(s, t, f),
         s.fds[f].obj_id \notin t.lost
  PROVE  /\ ~t.failed /\ s.fds[f].obj_id \notin s.lost /\ s.fds[f].obj_id \in DOMAIN s.content
         /\ CachedPlaced(s, s.fds[f].obj_id) /\ FdsPlaced(s, s.fds[f].obj_id)
         /\ s.fds[f].fdoffset <= Len(SeenOf(s, s.fds[f].obj_id))
<1>1. ~t.failed /\ s.fds[f].obj_id \notin s.lost
  BY DEF CallDone
<1>2. s.fds[f].obj_id \in DOMAIN s.content
  BY DEF CallInv, OwnedInv
<1>3. CachedPlaced(s, s.fds[f].obj_id) /\ FdsPlaced(s, s.fds[f].obj_id)
  BY <1>1, <1>2 DEF PlacedInv
<1> QED
  BY <1>1, <1>2, <1>3 DEF FdsPlaced

(* A call that changes no byte keeps the invariant.                        *)
LEMMA MovedPlaced ==
  ASSUME NEW s, CallInv(s), PlacedInv(s), NEW f \in Fds, s.fds[f].open, NEW t, CallDone(s, t, f),
         Moved(s, t, f)
  PROVE  /\ PlacedInv(t)
         /\ s.fds[f].obj_id \notin t.lost =>
              /\ SeenOf(t, s.fds[f].obj_id) = SeenOf(s, s.fds[f].obj_id)
              /\ t.fds[f].fdoffset <= Len(SeenOf(s, s.fds[f].obj_id))
<1> DEFINE id == s.fds[f].obj_id
<1>1. ASSUME id \notin t.lost
      PROVE  /\ SeenOf(t, id) = SeenOf(s, id) /\ CachedPlaced(t, id) /\ FdsPlaced(t, id)
             /\ t.fds[f].fdoffset <= Len(SeenOf(s, id))
  <2>1. /\ ~t.failed /\ CachedPlaced(s, id) /\ FdsPlaced(s, id)
        /\ s.fds[f].fdoffset <= Len(SeenOf(s, id))
    BY <1>1, OwnPlaced
  <2>2. /\ SeenOf(t, id) = SeenOf(s, id) /\ CachedPlaced(t, id)
        /\ t.fds[f].fdoffset <= Len(SeenOf(s, id))
    BY <2>1 DEF Moved
  <2>3. FdsPlaced(t, id)
    <3>1. SUFFICES ASSUME NEW g \in Fds, t.fds[g].open, t.fds[g].obj_id = id
                   PROVE  t.fds[g].fdoffset <= Len(SeenOf(t, id))
      BY DEF FdsPlaced
    <3>2. CASE g = f
      BY <2>2, <3>2
    <3>3. CASE g # f
      <4>1. s.fds[g].open /\ s.fds[g].obj_id = id /\ t.fds[g].fdoffset = s.fds[g].fdoffset
        BY <3>1, <3>3 DEF CallDone
      <4> QED
        BY <2>1, <2>2, <4>1 DEF FdsPlaced
    <3> QED
      BY <3>2, <3>3
  <2> QED
    BY <2>2, <2>3
<1>2. PlacedInv(t)
  BY <1>1, PlacedAfter
<1> QED
  BY <1>1, <1>2

(* A write keeps the invariant: the offset moves with the end of the file. *)
LEMMA ExtendedPlaced ==
  ASSUME NEW s, CallInv(s), PlacedInv(s), NEW f \in Fds, s.fds[f].open, NEW t, CallDone(s, t, f),
         NEW bytes, bytes \in Seq(Nat), Extended(s, t, f, bytes)
  PROVE  /\ PlacedInv(t)
         /\ s.fds[f].obj_id \notin t.lost =>
              /\ SeenOf(t, s.fds[f].obj_id) = Overwrite(SeenOf(s, s.fds[f].obj_id), WriteAt(s, f), bytes)
              /\ t.fds[f].fdoffset = s.fds[f].fdoffset + Len(bytes)
<1> DEFINE id == s.fds[f].obj_id
           old == SeenOf(s, id)
           new == SeenOf(t, id)
           at == WriteAt(s, f)
           n == Len(bytes)
           from == s.fds[f].fdoffset
<1>1. ASSUME id \notin t.lost
      PROVE  /\ new = Overwrite(old, at, bytes) /\ CachedPlaced(t, id) /\ FdsPlaced(t, id)
             /\ t.fds[f].fdoffset = from + n
  <2>1. /\ ~t.failed /\ CachedPlaced(s, id) /\ FdsPlaced(s, id) /\ id \in DOMAIN s.content
        /\ from <= Len(old)
    BY <1>1, OwnPlaced
  <2>2. /\ new = Overwrite(old, at, bytes) /\ CachedPlaced(t, id)
        /\ t.fds[f].fdoffset = from + n
    BY <2>1 DEF Extended
  <2>3. old \in Seq(Nat) /\ from \in Nat
    BY <2>1, SeenTyped, FdOffsetTyped
  <2>4. Len(old) \in Nat /\ n \in Nat
    BY <2>3
  <2>5. at = IF "APPEND" \in s.fds[f].flags THEN Len(old) ELSE from
    BY DEF WriteAt
  <2> HIDE DEF old, new, at, n, from
  <2>6. at \in Nat /\ from <= at
    BY <2>1, <2>3, <2>4, <2>5
  <2>7. IsOverwrite(Overwrite(old, at, bytes), old, at, bytes)
    BY <2>3, <2>6, OverwriteIs
  <2>8. Len(new) = Longer(at + n, Len(old))
    BY <2>2, <2>7 DEF IsOverwrite, n
  <2>9. from + n <= Len(new) /\ Len(old) <= Len(new) /\ Len(new) \in Nat
    BY <2>3, <2>4, <2>6, <2>8 DEF Longer
  <2>10. FdsPlaced(t, id)
    <3>1. SUFFICES ASSUME NEW g \in Fds, t.fds[g].open, t.fds[g].obj_id = id
                   PROVE  t.fds[g].fdoffset <= Len(new)
      BY DEF FdsPlaced, new
    <3>2. CASE g = f
      BY <2>2, <2>9, <3>2
    <3>3. CASE g # f
      <4>1. s.fds[g].open /\ s.fds[g].obj_id = id /\ t.fds[g].fdoffset = s.fds[g].fdoffset
        BY <3>1, <3>3 DEF CallDone
      <4>2. s.fds[g].fdoffset <= Len(old)
        BY <2>1, <4>1 DEF FdsPlaced, old
      <4>3. s.fds[g].fdoffset \in Nat
        BY FdOffsetTyped
      <4> QED
        BY <2>4, <2>9, <4>1, <4>2, <4>3
    <3> QED
      BY <3>2, <3>3
  <2> QED
    BY <2>2, <2>10
<1>2. PlacedInv(t)
  BY <1>1, PlacedAfter
<1> QED
  BY <1>1, <1>2

(* ------------------------ the files of module Files ---------------------*)

FilesOf(s) == [id \in DOMAIN s.content |-> IF id \in s.lost THEN Lost ELSE SeenOf(s, id)]
PositionOf(s, f) ==
  [id |-> s.fds[f].obj_id, offset |-> s.fds[f].fdoffset, append |-> "APPEND" \in s.fds[f].flags]
PositionsOf(s) == [f \in {g \in Fds : s.fds[g].open} |-> PositionOf(s, f)]

(* A call leaves the other files and the other descriptors.                *)
SetTo(files, id, bytes) ==
  [j \in DOMAIN files \union {id} |-> IF j = id THEN bytes ELSE files[j]]
OffsetSet(positions, f, offset) == [positions EXCEPT ![f].offset = offset]

FileChanged(s, t, f) ==
  LET id == s.fds[f].obj_id
  IN /\ id \in DOMAIN FilesOf(s) /\ DOMAIN FilesOf(t) = DOMAIN FilesOf(s)
     /\ \A j \in DOMAIN FilesOf(s) \ {id} : FilesOf(t)[j] = FilesOf(s)[j]
     /\ FilesOf(t)[id] = IF id \in t.lost THEN Lost ELSE SeenOf(t, id)
     /\ FilesOf(t) = SetTo(FilesOf(s), id, IF id \in t.lost THEN Lost ELSE SeenOf(t, id))
     /\ PositionsOf(t) = OffsetSet(PositionsOf(s), f, t.fds[f].fdoffset)
     /\ DOMAIN PositionsOf(s) = {g \in Fds : s.fds[g].open}

(* In the terms of Files, a call changes one file and one offset.          *)
LEMMA FilesAfter ==
  ASSUME NEW s, CallInv(s), NEW f \in Fds, s.fds[f].open, NEW t, CallDone(s, t, f)
  PROVE  FileChanged(s, t, f)
<1> DEFINE id == s.fds[f].obj_id
<1>1. id \in DOMAIN s.content
  BY DEF CallInv, OwnedInv
<1>2. DOMAIN t.content = DOMAIN s.content
  BY DEF CallDone
<1>3. DOMAIN FilesOf(s) = DOMAIN s.content /\ DOMAIN FilesOf(t) = DOMAIN s.content
  BY <1>2 DEF FilesOf
<1>4. FilesOf(t)[id] = IF id \in t.lost THEN Lost ELSE SeenOf(t, id)
  BY <1>1, <1>2 DEF FilesOf
<1>5. ASSUME NEW j \in DOMAIN s.content, j # id
      PROVE  FilesOf(t)[j] = FilesOf(s)[j]
  <2>1. SeenOf(t, j) = SeenOf(s, j)
    BY <1>5, OthersAfter
  <2>2. j \in t.lost <=> j \in s.lost
    BY <1>5 DEF CallDone
  <2> QED
    BY <1>2, <1>5, <2>1, <2>2 DEF FilesOf
<1>6. PositionsOf(t) = [PositionsOf(s) EXCEPT ![f].offset = t.fds[f].fdoffset]
  <2> DEFINE F1 == {g \in Fds : s.fds[g].open}
             new == [PositionsOf(s) EXCEPT ![f].offset = t.fds[f].fdoffset]
  <2>1. {g \in Fds : t.fds[g].open} = F1 /\ f \in F1
    BY DEF CallDone
  <2>2. PositionsOf(s) = [g \in F1 |-> PositionOf(s, g)]
    BY DEF PositionsOf
  <2>3. PositionsOf(t) = [g \in F1 |-> PositionOf(t, g)]
    BY <2>1 DEF PositionsOf
  <2>4. \A g \in F1 : g # f => PositionOf(t, g) = PositionOf(s, g)
    BY DEF CallDone, PositionOf
  <2>5. PositionOf(t, f) = [PositionOf(s, f) EXCEPT !.offset = t.fds[f].fdoffset]
    BY DEF CallDone, PositionOf
  <2> HIDE DEF F1
  <2>6. new = [g \in F1 |-> IF g = f THEN [PositionOf(s, f) EXCEPT !.offset = t.fds[f].fdoffset]
                            ELSE PositionOf(s, g)]
    BY <2>1, <2>2
  <2> HIDE DEF new
  <2>7. \A g \in F1 : PositionOf(t, g) = IF g = f THEN [PositionOf(s, f) EXCEPT !.offset = t.fds[f].fdoffset]
                                         ELSE PositionOf(s, g)
    BY <2>4, <2>5
  <2>8. PositionsOf(t) = new
    BY <2>3, <2>6, <2>7
  <2> QED
    BY <2>8 DEF new
<1>7. DOMAIN PositionsOf(s) = {g \in Fds : s.fds[g].open}
  BY DEF PositionsOf
<1> HIDE DEF id
<1>8. FilesOf(t) = SetTo(FilesOf(s), id, IF id \in t.lost THEN Lost ELSE SeenOf(t, id))
  <2> DEFINE new == IF id \in t.lost THEN Lost ELSE SeenOf(t, id)
  <2>1. FilesOf(t)[id] = new
    BY <1>4
  <2>2. FilesOf(t) = [j \in DOMAIN FilesOf(t) |-> FilesOf(t)[j]]
    BY DEF FilesOf
  <2> HIDE DEF new
  <2>3. FilesOf(t) = SetTo(FilesOf(s), id, new)
    BY <1>1, <1>3, <1>5, <2>1, <2>2 DEF SetTo
  <2> QED
    BY <2>3 DEF new
<1> QED
  BY <1>1, <1>3, <1>4, <1>5, <1>6, <1>7, <1>8 DEF FileChanged, OffsetSet, id

(* The file and the descriptor have the state of Files.                    *)
LEMMA KnownSeen ==
  ASSUME NEW s, CallInv(s), NEW f \in Fds, s.fds[f].open
  PROVE  /\ PositionsOf(s)[f] = PositionOf(s, f)
         /\ PositionsOf(s)[f].id = s.fds[f].obj_id /\ PositionsOf(s)[f].offset = s.fds[f].fdoffset
         /\ PositionsOf(s)[f].append <=> "APPEND" \in s.fds[f].flags
         /\ s.fds[f].obj_id \notin s.lost =>
              /\ FilesOf(s)[s.fds[f].obj_id] = SeenOf(s, s.fds[f].obj_id)
              /\ FilesOf(s)[s.fds[f].obj_id] # Lost
         /\ s.fds[f].obj_id \in s.lost => FilesOf(s)[s.fds[f].obj_id] = Lost
<1> DEFINE id == s.fds[f].obj_id
<1>1. PositionsOf(s)[f] = PositionOf(s, f)
  BY DEF PositionsOf
<1>2. id \in DOMAIN s.content
  BY DEF CallInv, OwnedInv
<1>3. FilesOf(s)[id] = IF id \in s.lost THEN Lost ELSE SeenOf(s, id)
  BY <1>2 DEF FilesOf
<1>4. SeenOf(s, id) \in Seq(Nat)
  BY <1>2, SeenTyped
<1>5. /\ PositionOf(s, f).id = id /\ PositionOf(s, f).offset = s.fds[f].fdoffset
      /\ PositionOf(s, f).append <=> "APPEND" \in s.fds[f].flags
  BY DEF PositionOf
<1>6. SeenOf(s, id) # Lost
  <2>1. Lost \notin Seq(Nat)
    BY CacheAssumption
  <2> QED
    BY <1>4, <2>1
<1> HIDE DEF id
<1> QED
  BY <1>1, <1>3, <1>5, <1>6 DEF id

(* Descriptors are closed of which nothing is cached, or none is, and no   *)
(* other file changes.                                                     *)
DescriptorsClosed(s, t, G) ==
  \A g \in Fds : t.fds[g] = IF g \in G THEN Close(s.fds[g]) ELSE s.fds[g]

Without(fun, G) == [x \in DOMAIN fun \ G |-> fun[x]]
PositionsClosed(s, t, G) == PositionsOf(t) = Without(PositionsOf(s), G)

(* A descriptor that is closed is not open.                                *)
LEMMA ClosedNow ==
  ASSUME NEW s, NEW t, NEW G, DescriptorsClosed(s, t, G), NEW g \in Fds, g \in G
  PROVE  ~t.fds[g].open
<1>1. t.fds[g] = Close(s.fds[g])
  BY DEF DescriptorsClosed
<1>2. ~Close(s.fds[g]).open
  BY DEF Close, Closed
<1> QED
  BY <1>1, <1>2

(* In the terms of Files, the descriptors are gone.                        *)
LEMMA ClosedPositions ==
  ASSUME NEW s, NEW t, NEW G, DescriptorsClosed(s, t, G)
  PROVE  PositionsClosed(s, t, G)
<1> DEFINE F1 == {g \in Fds : s.fds[g].open}
           F2 == {g \in Fds : t.fds[g].open}
<1>1. DOMAIN PositionsOf(s) = F1 /\ \A g \in F1 : PositionsOf(s)[g] = PositionOf(s, g)
  BY DEF PositionsOf
<1>2. \A g \in Fds \cap G : ~t.fds[g].open
  BY ClosedNow
<1>3. \A g \in Fds \ G : t.fds[g] = s.fds[g]
  BY DEF DescriptorsClosed
<1>4. F2 = F1 \ G
  BY <1>2, <1>3
<1>5. \A g \in F2 : PositionOf(t, g) = PositionOf(s, g)
  BY <1>3, <1>4 DEF PositionOf
<1>6. PositionsOf(t) = [g \in F2 |-> PositionOf(t, g)]
  BY DEF PositionsOf
<1> HIDE DEF F1, F2
<1> QED
  BY <1>1, <1>4, <1>5, <1>6 DEF PositionsClosed, Without

(* Closing descriptors moves no other offset.                              *)
LEMMA ClosedPlaced ==
  ASSUME NEW s, NEW t, NEW G, DescriptorsClosed(s, t, G), NEW j,
         SeenOf(t, j) = SeenOf(s, j), FdsPlaced(s, j)
  PROVE  FdsPlaced(t, j)
<1>1. SUFFICES ASSUME NEW g \in Fds, t.fds[g].open, t.fds[g].obj_id = j
               PROVE  t.fds[g].fdoffset <= Len(SeenOf(t, j))
  BY DEF FdsPlaced
<1>2. g \notin G
  BY <1>1, ClosedNow
<1>3. t.fds[g] = s.fds[g]
  BY <1>2 DEF DescriptorsClosed
<1> QED
  BY <1>1, <1>3 DEF FdsPlaced

(* SPIFFS_close.                                                           *)
LEMMA ReturnedFiles ==
  ASSUME NEW s, CallInv(s), PlacedInv(s), NEW f \in Fds, s.fds[f].open, s.fds[f].cache_page = NoPage
  PROVE  LET t == Returned(s, f)
         IN /\ PlacedInv(t) /\ FilesOf(t) = FilesOf(s)
            /\ PositionsClosed(s, t, {f})
            /\ t.err_code = s.err_code
<1> DEFINE t == Returned(s, f)
<1>1. /\ CallInv(t) /\ t.c = s.c /\ t.content = s.content /\ t.lost = s.lost
      /\ t.failed = s.failed /\ t.err_code = s.err_code
      /\ \A g \in Fds : t.fds[g] = IF g = f THEN Close(s.fds[f]) ELSE s.fds[g]
  BY ReturnedInv
<1> HIDE DEF t
<1>2. DescriptorsClosed(s, t, {f})
  BY <1>1 DEF DescriptorsClosed
<1>3. \A j : SeenOf(t, j) = SeenOf(s, j) /\ (CachedPlaced(s, j) => CachedPlaced(t, j))
  BY <1>1 DEF SeenOf, CachedPlaced
<1>4. PlacedInv(t)
  BY <1>1, <1>2, <1>3, ClosedPlaced DEF PlacedInv
<1>5. FilesOf(t) = FilesOf(s)
  BY <1>1, <1>3 DEF FilesOf
<1>6. PositionsClosed(s, t, {f})
  BY <1>2, ClosedPositions
<1> QED
  BY <1>1, <1>4, <1>5, <1>6 DEF t

(* SPIFFS_remove and SPIFFS_fremove, of a file of which nothing is cached. *)
OnFile(positions, id) == {g \in DOMAIN positions : positions[g].id = id}

(* In the terms of Files, the file and its descriptors are gone.           *)
LEMMA RemovedFiles ==
  ASSUME NEW s, CallInv(s), NEW id \in Ids,
         \A j \in DOMAIN s.content \ (s.lost \union {id}) : CachedPlaced(s, j) /\ FdsPlaced(s, j),
         \A g \in Fds : s.fds[g].open /\ s.fds[g].obj_id = id => s.fds[g].cache_page = NoPage
  PROVE  LET t == Removed(s, id)
             G == OnFile(PositionsOf(s), id)
         IN /\ PlacedInv(t)
            /\ FilesOf(t) = Without(FilesOf(s), {id})
            /\ PositionsClosed(s, t, G)
            /\ t.err_code = s.err_code /\ t.failed = s.failed
<1> DEFINE t == Removed(s, id)
           G == OnFile(PositionsOf(s), id)
<1>1. /\ CallInv(t) /\ t.c = s.c /\ t.lost = s.lost \ {id}
      /\ t.failed = s.failed /\ t.err_code = s.err_code
      /\ DOMAIN t.content = DOMAIN s.content \ {id}
      /\ \A i \in DOMAIN s.content \ {id} : t.content[i] = s.content[i]
      /\ \A g \in Fds : t.fds[g] = IF s.fds[g].open /\ s.fds[g].obj_id = id
                                   THEN Close(s.fds[g]) ELSE s.fds[g]
  BY RemovedInv
<1> HIDE DEF t
<1>2. G = {g \in Fds : s.fds[g].open /\ s.fds[g].obj_id = id}
  BY DEF PositionsOf, PositionOf, OnFile
<1> HIDE DEF G
<1>3. DescriptorsClosed(s, t, G)
  BY <1>1, <1>2 DEF DescriptorsClosed
<1>4. \A j \in DOMAIN s.content \ {id} :
         SeenOf(t, j) = SeenOf(s, j) /\ (CachedPlaced(s, j) => CachedPlaced(t, j))
  BY <1>1 DEF SeenOf, CachedPlaced
<1>5. PlacedInv(t)
  <2>1. SUFFICES ASSUME NEW j \in DOMAIN t.content \ t.lost
                 PROVE  CachedPlaced(t, j) /\ FdsPlaced(t, j)
    BY DEF PlacedInv
  <2>2. /\ j \in DOMAIN s.content \ {id} /\ CachedPlaced(s, j) /\ FdsPlaced(s, j)
    BY <1>1
  <2> QED
    BY <1>3, <1>4, <2>2, ClosedPlaced
<1>6. FilesOf(t) = Without(FilesOf(s), {id})
  <2>1. DOMAIN FilesOf(s) = DOMAIN s.content
    BY DEF FilesOf
  <2>2. \A j \in DOMAIN s.content \ {id} :
           (IF j \in t.lost THEN Lost ELSE SeenOf(t, j)) = FilesOf(s)[j]
    BY <1>1, <1>4 DEF FilesOf
  <2>3. FilesOf(t) = [j \in DOMAIN s.content \ {id} |-> IF j \in t.lost THEN Lost ELSE SeenOf(t, j)]
    BY <1>1 DEF FilesOf
  <2> QED
    BY <2>1, <2>2, <2>3 DEF Without
<1>7. PositionsClosed(s, t, G)
  BY <1>3, ClosedPositions
<1> QED
  BY <1>1, <1>5, <1>6, <1>7 DEF t, G

(* A change of cache pages is none of the descriptors in Files.            *)
LEMMA SamePositions ==
  ASSUME NEW s, NEW t, SameFds(s, t)
  PROVE  PositionsOf(t) = PositionsOf(s)
<1>1. {g \in Fds : t.fds[g].open} = {g \in Fds : s.fds[g].open}
  BY DEF SameFds
<1>2. \A g \in Fds : PositionOf(t, g) = PositionOf(s, g)
  BY DEF SameFds, PositionOf
<1> QED
  BY <1>1, <1>2 DEF PositionsOf

(* SPIFFS_fremove: the file is gone with what was cached of it, or the     *)
(* cached write is lost, or nothing has happened.                          *)
RefusedFiles(s, t) ==
  PlacedInv(t) /\ FilesOf(t) = FilesOf(s) /\ PositionsOf(t) = PositionsOf(s) /\ t.err_code = "FULL"

FileRemoved(s, t, id) ==
  /\ PlacedInv(t)
  /\ FilesOf(t) = Without(FilesOf(s), {id})
  /\ PositionsClosed(s, t, OnFile(PositionsOf(s), id))
  /\ t.err_code = s.err_code

(* SPIFFS_fremove: removed, refused, or refused after the cached write was *)
(* dropped.                                                                *)
LEMMA RemovedByFiles ==
  ASSUME NEW s, CallInv(s), ~s.failed, PlacedInv(s), NEW f \in Fds, s.fds[f].open,
         \A g \in Fds : s.fds[g].open /\ s.fds[g].obj_id = s.fds[f].obj_id => g = f
  PROVE  LET t == RemovedBy(s, f)
             id == s.fds[f].obj_id
         IN \/ FileRemoved(s, t, id)
            \/ RefusedFiles(s, t)
            \/ CallDone(s, t, f) /\ PlacedInv(t) /\ id \in t.lost
<1> DEFINE i == s.fds[f].cache_page
           id == s.fds[f].obj_id
           t == IF i = NoPage THEN s ELSE cache_fd_release(s, i)
           u == [t EXCEPT !.failed = TRUE, !.lost = IF i = NoPage THEN @ ELSE @ \union {id}]
           r == RemovedBy(s, f)
<1>1. s.content \in ContentType /\ s.c \in CacheType /\ OwnedInv(s.c, s.content, s.fds)
  BY DEF CallInv, CallType
<1>2. id \in Ids
  BY <1>1, ContentTyped DEF OwnedInv
<1>3. r = IF s.good > 0 THEN Removed(t, id) ELSE Report(u)
  BY DEF RemovedBy
<1>4. /\ CallInv(t) /\ SameFds(s, t) /\ t.fds[f].cache_page = NoPage /\ OthersKept(s, t, id)
      /\ t.content = s.content /\ t.lost = s.lost /\ t.failed = s.failed /\ t.err_code = s.err_code
      /\ i = NoPage => t = s
  <2>1. CASE i = NoPage
    BY <2>1 DEF SameFds, OthersKept
  <2>2. CASE i # NoPage
    <3>1. i \in WritePages(s.c) /\ s.c.cpages[i].obj_id = id
      BY <1>1, <2>2 DEF OwnedInv
    <3> DEFINE w == cache_fd_release(s, i)
    <3>2. /\ CallInv(w) /\ SameFds(s, w) /\ w.fds[f].cache_page = NoPage
          /\ w.content = s.content /\ w.lost = s.lost /\ w.failed = s.failed
          /\ w.err_code = s.err_code
          /\ WritePages(w.c) = WritePages(s.c) \ {i}
          /\ \A j \in Slots : j # i => w.c.cpages[j] = s.c.cpages[j]
      <4>1. Released(s, w, i)
        BY <3>1, IsReleased
      <4> HIDE DEF w
      <4>2. \A g \in Fds : g = f => w.fds[g].cache_page = NoPage
        BY <4>1 DEF Released, i
      <4> QED
        BY <4>1, <4>2 DEF Released
    <3>3. \A j \in WritePages(s.c) : j \in Slots
      BY <1>1, PageKinds
    <3> HIDE DEF w
    <3>4. OthersKept(s, w, id)
      BY <3>1, <3>2, <3>3 DEF OthersKept
    <3>5. t = w
      BY <2>2 DEF w
    <3> QED
      BY <2>2, <3>2, <3>4, <3>5
  <2> QED
    BY <2>1, <2>2
<1> HIDE DEF t, r, id, i
<1>5. CallDone(s, t, f)
  BY <1>4 DEF CallDone, SameFds, id
<1>6. CASE s.good > 0
  <2>1. \A g \in Fds : t.fds[g].open /\ t.fds[g].obj_id = id => t.fds[g].cache_page = NoPage
    BY <1>4 DEF SameFds, id
  <2>2. \A j \in DOMAIN t.content \ (t.lost \union {id}) : CachedPlaced(t, j) /\ FdsPlaced(t, j)
    <3>1. SUFFICES ASSUME NEW j \in DOMAIN t.content \ (t.lost \union {id})
                   PROVE  CachedPlaced(t, j) /\ FdsPlaced(t, j)
      OBVIOUS
    <3>2. j \in DOMAIN s.content /\ j \notin s.lost /\ j # s.fds[f].obj_id
      BY <1>4, <3>1 DEF id
    <3>3. CachedPlaced(s, j) /\ FdsPlaced(s, j)
      BY <3>2 DEF PlacedInv
    <3> QED
      BY <1>5, <3>2, <3>3, OthersAfter
  <2>3. r = Removed(t, id)
    BY <1>3, <1>6
  <2>4. FileRemoved(t, r, id)
    BY <1>2, <1>4, <2>1, <2>2, <2>3, RemovedFiles DEF FileRemoved
  <2>5. PositionsOf(t) = PositionsOf(s)
    BY <1>4, SamePositions
  <2>6. /\ DOMAIN FilesOf(t) = DOMAIN FilesOf(s)
        /\ \A j \in DOMAIN FilesOf(s) \ {id} : FilesOf(t)[j] = FilesOf(s)[j]
    <3>1. FileChanged(s, t, f)
      BY <1>5, FilesAfter
    <3> QED
      BY <3>1 DEF FileChanged, id
  <2>7. FilesOf(r) = Without(FilesOf(s), {id})
    <3>1. FilesOf(r) = Without(FilesOf(t), {id})
      BY <2>4 DEF FileRemoved
    <3>2. Without(FilesOf(t), {id}) = Without(FilesOf(s), {id})
      BY <2>6 DEF Without
    <3> QED
      BY <3>1, <3>2
  <2>8. FileRemoved(s, r, id)
    BY <1>4, <2>4, <2>5, <2>7 DEF FileRemoved, PositionsClosed
  <2> QED
    BY <2>8 DEF r, id
<1>7. CASE ~(s.good > 0)
  <2>1. t \in CallType /\ s.lost \in SUBSET Ids
    BY <1>4 DEF CallInv, CallType
  <2>2. /\ u \in CallType /\ u.c = t.c /\ u.content = t.content /\ u.fds = t.fds /\ u.failed
        /\ u.lost = IF i = NoPage THEN s.lost ELSE s.lost \union {id}
    BY <1>2, <1>4, <2>1 DEF CallType
  <2>3. r = Report(u)
    BY <1>3, <1>7
  <2> HIDE DEF u
  <2>4. CallInv(u)
    BY <1>4, <2>2 DEF CallInv
  <2>5. /\ CallInv(r) /\ r.c = t.c /\ r.content = t.content /\ r.fds = t.fds
        /\ r.lost = u.lost /\ r.failed
    BY <2>2, <2>3, <2>4, ReportInv
  <2>6. r.err_code = "FULL"
    BY <2>2, <2>3 DEF Report, CallType
  <2>7. CASE i = NoPage
    <3>1. r.c = s.c /\ r.content = s.content /\ r.fds = s.fds /\ r.lost = s.lost
      BY <1>4, <2>2, <2>5, <2>7
    <3>2. PlacedInv(r)
      BY <3>1 DEF PlacedInv, CachedPlaced, FdsPlaced, SeenOf
    <3>3. FilesOf(r) = FilesOf(s) /\ PositionsOf(r) = PositionsOf(s)
      BY <3>1 DEF FilesOf, SeenOf, PositionsOf, PositionOf
    <3> QED
      BY <2>6, <3>2, <3>3 DEF RefusedFiles, r
  <2>8. CASE i # NoPage
    <3>1. OthersKept(s, r, id)
      BY <1>4, <2>5 DEF OthersKept
    <3>2. r.lost = s.lost \union {id}
      BY <2>2, <2>5, <2>8
    <3>3. CallDone(s, r, f)
      BY <1>4, <2>5, <2>6, <3>1, <3>2 DEF CallDone, SameFds, id
    <3>4. PlacedInv(r)
      BY <3>2, <3>3, PlacedAfter DEF id
    <3> QED
      BY <3>2, <3>3, <3>4 DEF r, id
  <2> QED
    BY <2>7, <2>8
<1> QED
  BY <1>6, <1>7

(* SPIFFS_open.                                                            *)
FileOpened(s, t, f, id, append, empty) ==
  /\ PlacedInv(t)
  /\ FilesOf(t) = IF empty THEN [j \in DOMAIN FilesOf(s) \union {id} |->
                                   IF j = id THEN <<>> ELSE FilesOf(s)[j]]
                  ELSE FilesOf(s)
  /\ PositionsOf(t) = [g \in DOMAIN PositionsOf(s) \union {f} |->
                         IF g = f THEN [id |-> id, offset |-> 0, append |-> append]
                         ELSE PositionsOf(s)[g]]
  /\ t.err_code = s.err_code /\ t.failed = s.failed

(* SPIFFS_open adds a descriptor at offset 0, and an empty file if there   *)
(* is none.                                                                *)
LEMMA OpenedFiles ==
  ASSUME NEW s, CallInv(s), PlacedInv(s), NEW f \in Fds, ~s.fds[f].open, NEW id \in Ids,
         NEW flags \in OpenFlags, NEW empty \in BOOLEAN, empty \/ id \in DOMAIN s.content,
         empty => \A g \in Fds : ~(s.fds[g].open /\ s.fds[g].obj_id = id)
  PROVE  FileOpened(s, Opened(s, f, id, flags, empty), f, id, "APPEND" \in flags, empty)
<1> DEFINE t == Opened(s, f, id, flags, empty)
           opened == [open |-> TRUE, obj_id |-> id, fdoffset |-> 0, flags |-> flags,
                      cache_page |-> NoPage]
<1>0. OpenedAs(s, t, f, id, flags, empty)
  BY OpenedInv
<1>1. /\ CallInv(t) /\ t.c = s.c /\ t.failed = s.failed /\ t.err_code = s.err_code
      /\ t.lost = IF empty THEN s.lost \ {id} ELSE s.lost
      /\ DOMAIN t.content = DOMAIN s.content \union {id}
      /\ \A i \in DOMAIN t.content :
           t.content[i] = IF empty /\ i = id THEN <<>> ELSE s.content[i]
      /\ \A g \in Fds : g # f => t.fds[g] = s.fds[g]
      /\ t.fds[f] = opened
  BY <1>0 DEF OpenedAs
<1>2. /\ opened.open /\ opened.obj_id = id /\ opened.fdoffset = 0 /\ opened.flags = flags
  OBVIOUS
<1> HIDE DEF t, opened
<1>3. \A j \in DOMAIN s.content : ~(empty /\ j = id) =>
         SeenOf(t, j) = SeenOf(s, j) /\ (CachedPlaced(s, j) => CachedPlaced(t, j))
  BY <1>1 DEF SeenOf, CachedPlaced
<1>4. ASSUME empty
      PROVE  SeenOf(t, id) = <<>> /\ CachedPlaced(t, id)
  <2>1. \A i \in WritePages(t.c) : t.c.cpages[i].obj_id # id
    <3>1. SUFFICES ASSUME NEW i \in WritePages(s.c), s.c.cpages[i].obj_id = id
                   PROVE  FALSE
      BY <1>1
    <3>2. s.c \in CacheType /\ OwnedInv(s.c, s.content, s.fds)
      BY DEF CallInv, CallType
    <3>3. PICK g \in Fds : s.fds[g].open /\ s.fds[g].cache_page = i
      BY <3>2 DEF OwnedInv
    <3>4. i # NoPage
      BY <3>2, ByIdKnown DEF OwnedInv
    <3>5. s.fds[g].obj_id = id
      BY <3>1, <3>2, <3>3, <3>4 DEF OwnedInv
    <3> QED
      BY <1>4, <3>3, <3>5
  <2>2. cache_page_get_by_id(t.c, id) = NoPage
    BY <2>1 DEF cache_page_get_by_id
  <2>3. SeenOf(t, id) = t.content[id]
    BY <2>2 DEF SeenOf
  <2>4. t.content[id] = <<>>
    BY <1>1, <1>4
  <2> QED
    BY <2>1, <2>3, <2>4 DEF CachedPlaced
<1>5. \A g \in Fds : g # f /\ t.fds[g].open => s.fds[g].open
  BY <1>1
<1>6. PlacedInv(t)
  <2>1. SUFFICES ASSUME NEW j \in DOMAIN t.content \ t.lost
                 PROVE  CachedPlaced(t, j) /\ FdsPlaced(t, j)
    BY DEF PlacedInv
  <2>2. ASSUME NEW g \in Fds, g # f, t.fds[g].open, t.fds[g].obj_id = j
        PROVE  s.fds[g].open /\ s.fds[g].obj_id = j /\ t.fds[g].fdoffset = s.fds[g].fdoffset
    BY <1>1, <2>2
  <2>3. CASE empty /\ j = id
    <3>1. \A g \in Fds : g # f => ~(t.fds[g].open /\ t.fds[g].obj_id = j)
      BY <1>1, <2>3
    <3>2. FdsPlaced(t, j)
      <4>1. Len(SeenOf(t, j)) = 0
        BY <1>4, <2>3
      <4>2. t.fds[f].fdoffset = 0
        BY <1>1, <1>2
      <4> QED
        BY <3>1, <4>1, <4>2 DEF FdsPlaced
    <3> QED
      BY <1>4, <2>3, <3>2
  <2>4. CASE ~(empty /\ j = id)
    <3>1. j \in DOMAIN s.content /\ j \notin s.lost
      BY <1>1, <2>1, <2>4
    <3>2. /\ SeenOf(t, j) = SeenOf(s, j) /\ CachedPlaced(t, j) /\ FdsPlaced(s, j)
      BY <1>3, <2>4, <3>1 DEF PlacedInv
    <3>3. FdsPlaced(t, j)
      <4>1. SUFFICES ASSUME NEW g \in Fds, t.fds[g].open, t.fds[g].obj_id = j
                     PROVE  t.fds[g].fdoffset <= Len(SeenOf(t, j))
        BY DEF FdsPlaced
      <4>2. CASE g = f
        <5>1. SeenOf(s, j) \in Seq(Nat)
          BY <3>1, SeenTyped
        <5>2. Len(SeenOf(s, j)) \in Nat
          BY <5>1
        <5>3. t.fds[f].fdoffset = 0
          BY <1>1, <1>2
        <5> QED
          BY <3>2, <4>2, <5>2, <5>3
      <4>3. CASE g # f
        BY <2>2, <3>2, <4>1, <4>3 DEF FdsPlaced
      <4> QED
        BY <4>2, <4>3
    <3> QED
      BY <3>2, <3>3
  <2> QED
    BY <2>3, <2>4
<1>7. FilesOf(t) = IF empty THEN [j \in DOMAIN FilesOf(s) \union {id} |->
                                     IF j = id THEN <<>> ELSE FilesOf(s)[j]]
                   ELSE FilesOf(s)
  <2>1. CASE empty
    <3>1. FilesOf(t) = [j \in DOMAIN s.content \union {id} |->
                          IF j \in t.lost THEN Lost ELSE SeenOf(t, j)]
      BY <1>1 DEF FilesOf
    <3>2. DOMAIN FilesOf(s) = DOMAIN s.content
      BY DEF FilesOf
    <3>3. \A j \in DOMAIN s.content \union {id} :
            (IF j \in t.lost THEN Lost ELSE SeenOf(t, j)) = IF j = id THEN <<>> ELSE FilesOf(s)[j]
      BY <1>1, <1>3, <1>4, <2>1 DEF FilesOf
    <3>4. FilesOf(t) = [j \in DOMAIN FilesOf(s) \union {id} |-> IF j = id THEN <<>> ELSE FilesOf(s)[j]]
      BY <3>1, <3>2, <3>3
    <3> QED
      BY <2>1, <3>4
  <2>2. CASE ~empty
    <3>1. DOMAIN t.content = DOMAIN s.content /\ t.lost = s.lost
      BY <1>1, <2>2
    <3>2. \A j \in DOMAIN s.content : SeenOf(t, j) = SeenOf(s, j)
      BY <1>3, <2>2
    <3>3. FilesOf(t) = FilesOf(s)
      BY <3>1, <3>2 DEF FilesOf
    <3> QED
      BY <2>2, <3>3
  <2> QED
    BY <2>1, <2>2
<1>8. PositionsOf(t) = [g \in DOMAIN PositionsOf(s) \union {f} |->
                          IF g = f THEN [id |-> id, offset |-> 0, append |-> "APPEND" \in flags]
                          ELSE PositionsOf(s)[g]]
  <2> DEFINE F1 == {g \in Fds : s.fds[g].open}
             new == [id |-> id, offset |-> 0, append |-> "APPEND" \in flags]
  <2>1. DOMAIN PositionsOf(s) = F1 /\ \A g \in F1 : PositionsOf(s)[g] = PositionOf(s, g)
    BY DEF PositionsOf
  <2>2. {g \in Fds : t.fds[g].open} = F1 \union {f}
    BY <1>1, <1>2
  <2>3. \A g \in F1 : g # f => PositionOf(t, g) = PositionOf(s, g)
    BY <1>1 DEF PositionOf
  <2>4. PositionOf(t, f) = new
    BY <1>1, <1>2 DEF PositionOf
  <2>5. PositionsOf(t) = [g \in F1 \union {f} |-> PositionOf(t, g)]
    BY <2>2 DEF PositionsOf
  <2> HIDE DEF F1, new
  <2>6. PositionsOf(t) = [g \in DOMAIN PositionsOf(s) \union {f} |->
                            IF g = f THEN new ELSE PositionsOf(s)[g]]
    BY <2>1, <2>3, <2>4, <2>5
  <2> QED
    BY <2>6 DEF new
<1> QED
  BY <1>1, <1>6, <1>7, <1>8 DEF FileOpened, t

(* -------------------------- the steps of the system ---------------------*)

Placed == PlacedInv(Current(0))

(* A call starts from the state and ends in the next one.                  *)
Started(s) ==
  /\ CallInv(s) /\ ~s.failed /\ PlacedInv(s)
  /\ s.c = cache /\ s.content = content /\ s.fds = fds /\ s.lost = lost /\ s.err_code = "OK"
  /\ SeenFiles = FilesOf(s) /\ Positions = PositionsOf(s)
Ended(t) ==
  /\ Placed' /\ SeenFiles' = FilesOf(t) /\ Positions' = PositionsOf(t) /\ err_code' = t.err_code

(* What is seen in a call's record is what is seen in its state.           *)
LEMMA SeenInState ==
  ASSUME NEW s, s.c = cache, s.content = content, s.fds = fds, s.lost = lost
  PROVE  /\ \A id : Seen(id) = IF id \in s.lost THEN Lost ELSE SeenOf(s, id)
         /\ SeenFiles = FilesOf(s) /\ Positions = PositionsOf(s)
         /\ PlacedInv(s) <=> Placed
<1>1. \A id : Seen(id) = IF id \in s.lost THEN Lost ELSE SeenOf(s, id)
  BY DEF Seen, SeenOf
<1>2. SeenFiles = FilesOf(s)
  BY <1>1 DEF SeenFiles, FilesOf
<1>3. Positions = PositionsOf(s)
  <2>1. Fds \ FreeFds = {g \in Fds : s.fds[g].open}
    BY DEF FreeFds
  <2> QED
    BY <2>1 DEF Positions, PositionsOf, PositionOf
<1>4. /\ Current(0).c = cache /\ Current(0).content = content /\ Current(0).fds = fds
      /\ Current(0).lost = lost
  BY DEF Current
<1>5. PlacedInv(s) <=> Placed
  BY <1>4 DEF Placed, PlacedInv, CachedPlaced, FdsPlaced, SeenOf
<1> QED
  BY <1>1, <1>2, <1>3, <1>5

(* A call starts from the state with no error.                             *)
LEMMA CallStarted ==
  ASSUME StateInv, Placed, NEW g \in 0 .. 3
  PROVE  Started(Current(g)) /\ Current(g).good = g
BY CallStarts, SeenInState DEF Started

(* A call's record becomes the next state.                                 *)
LEMMA CallEnded ==
  ASSUME NEW t, Keep(t), PlacedInv(t)
  PROVE  Ended(t)
<1>1. /\ cache' = t.c /\ content' = t.content /\ fds' = t.fds /\ lost' = t.lost
      /\ err_code' = t.err_code
  BY DEF Keep
<1>2. \A id : Seen(id)' = IF id \in t.lost THEN Lost ELSE SeenOf(t, id)
  BY <1>1 DEF Seen, SeenOf
<1>3. SeenFiles' = FilesOf(t)
  BY <1>1, <1>2 DEF SeenFiles, FilesOf
<1>4. Positions' = PositionsOf(t)
  <2>1. Fds \ FreeFds' = {g \in Fds : t.fds[g].open}
    BY <1>1 DEF FreeFds
  <2> QED
    BY <1>1, <2>1 DEF Positions, PositionsOf, PositionOf
<1>5. /\ Current(0)'.c = t.c /\ Current(0)'.content = t.content /\ Current(0)'.fds = t.fds
      /\ Current(0)'.lost = t.lost
  BY <1>1 DEF Current
<1>6. Placed'
  BY <1>5 DEF Placed, PlacedInv, CachedPlaced, FdsPlaced, SeenOf
<1> QED
  BY <1>1, <1>3, <1>4, <1>6 DEF Ended

(* Each call is a step of Files.                                           *)
LEMMA FailStep ==
  ASSUME NEW s, Started(s), NEW f \in Fds, s.fds[f].open, NEW t, CallDone(s, t, f),
         s.fds[f].obj_id \in t.lost, Ended(t)
  PROVE  f \in DOMAIN Positions /\ F!Fail(f)
<1> DEFINE id == s.fds[f].obj_id
<1>1. CallInv(s) /\ SeenFiles = FilesOf(s) /\ Positions = PositionsOf(s) /\ s.err_code = "OK"
  BY DEF Started
<1>2. SeenFiles' = FilesOf(t) /\ Positions' = PositionsOf(t) /\ err_code' = t.err_code
  BY DEF Ended
<1>3. FileChanged(s, t, f)
  BY <1>1, FilesAfter
<1>4. /\ id \in DOMAIN SeenFiles /\ SeenFiles' = SetTo(SeenFiles, id, Lost)
      /\ Positions' = OffsetSet(Positions, f, t.fds[f].fdoffset)
      /\ DOMAIN Positions = {g \in Fds : s.fds[g].open}
  BY <1>1, <1>2, <1>3 DEF FileChanged
<1>5. f \in DOMAIN Positions
  BY <1>4
<1>6. Positions[f].id = id
  BY <1>1, KnownSeen
<1>7. SeenFiles[id] # Lost => err_code' # "OK"
  <2>1. id \in s.lost => SeenFiles[id] = Lost
    BY <1>1, KnownSeen
  <2>2. id \notin s.lost => t.failed
    BY DEF CallDone
  <2>3. t.failed => t.err_code = "FULL"
    BY DEF CallDone
  <2> QED
    BY <1>2, <2>1, <2>2, <2>3
<1> HIDE DEF id
<1>8. F!SetFile(Positions[f].id, Lost) = SetTo(SeenFiles, id, Lost)
  BY <1>6 DEF F!SetFile, SetTo
<1>9. DOMAIN Positions' = DOMAIN Positions /\ \A g \in DOMAIN Positions \ {f} : Positions'[g] = Positions[g]
  BY <1>4 DEF OffsetSet
<1> QED
  BY <1>4, <1>5, <1>6, <1>7, <1>8, <1>9 DEF F!Fail, F!Known, F!Content

(* A call that changes no byte and works.                                  *)
LEMMA MoveStep ==
  ASSUME NEW s, Started(s), NEW f \in Fds, s.fds[f].open, NEW t, CallDone(s, t, f), Moved(s, t, f),
         s.fds[f].obj_id \notin t.lost, Ended(t)
  PROVE  f \in DOMAIN Positions /\ F!Move(f)
<1> DEFINE id == s.fds[f].obj_id
           bytes == SeenOf(s, id)
           offset == t.fds[f].fdoffset
<1>1. /\ CallInv(s) /\ PlacedInv(s) /\ SeenFiles = FilesOf(s) /\ Positions = PositionsOf(s)
      /\ s.err_code = "OK"
  BY DEF Started
<1>2. SeenFiles' = FilesOf(t) /\ Positions' = PositionsOf(t) /\ err_code' = t.err_code
  BY DEF Ended
<1>3. FileChanged(s, t, f)
  BY <1>1, FilesAfter
<1>4. SeenOf(t, id) = bytes /\ offset <= Len(bytes)
  BY <1>1, MovedPlaced
<1>5. ~t.failed /\ id \notin s.lost /\ id \in DOMAIN s.content
  BY <1>1, OwnPlaced
<1>6. t.err_code = "OK" /\ CallInv(t)
  BY <1>1, <1>5 DEF CallDone
<1>7. offset \in Nat /\ bytes \in Seq(Nat)
  BY <1>1, <1>5, <1>6, FdOffsetTyped, SeenTyped
<1>8. Positions[f].id = id /\ SeenFiles[id] = bytes /\ SeenFiles[id] # Lost
  BY <1>1, <1>5, KnownSeen
<1>9. /\ DOMAIN SeenFiles' = DOMAIN SeenFiles /\ id \in DOMAIN SeenFiles
      /\ \A j \in DOMAIN SeenFiles \ {id} : SeenFiles'[j] = SeenFiles[j]
      /\ SeenFiles'[id] = SeenOf(t, id)
      /\ Positions' = OffsetSet(Positions, f, offset)
      /\ DOMAIN Positions = {g \in Fds : s.fds[g].open}
  BY <1>1, <1>2, <1>3 DEF FileChanged
<1>10. SeenFiles' = SeenFiles
  <2>1. SeenFiles' = [j \in DOMAIN SeenFiles' |-> SeenFiles'[j]] /\ SeenFiles = [j \in DOMAIN SeenFiles |-> SeenFiles[j]]
    BY DEF SeenFiles
  <2> HIDE DEF id, bytes
  <2> QED
    BY <1>4, <1>8, <1>9, <2>1
<1> HIDE DEF id, bytes, offset
<1>11. offset \in 0 .. Len(bytes)
  BY <1>4, <1>7
<1>12. F!Known(f) /\ F!Content(f) = bytes
  BY <1>8 DEF F!Known, F!Content
<1>13. Positions' = [Positions EXCEPT ![f].offset = offset]
  BY <1>9 DEF OffsetSet
<1>14. f \in DOMAIN Positions
  BY <1>9
<1> QED
  BY <1>2, <1>6, <1>10, <1>11, <1>12, <1>13, <1>14 DEF F!Move

(* A write that works.                                                     *)
LEMMA WriteStep ==
  ASSUME NEW s, Started(s), NEW f \in Fds, s.fds[f].open, NEW bytes, bytes \in Seq(Nat),
         NEW t, CallDone(s, t, f), Extended(s, t, f, bytes),
         s.fds[f].obj_id \notin t.lost, Ended(t)
  PROVE  f \in DOMAIN Positions /\ F!Write(f, bytes)
<1> DEFINE id == s.fds[f].obj_id
           old == SeenOf(s, id)
           at == WriteAt(s, f)
           offset == s.fds[f].fdoffset
<1>1. /\ CallInv(s) /\ PlacedInv(s) /\ SeenFiles = FilesOf(s) /\ Positions = PositionsOf(s)
      /\ s.err_code = "OK"
  BY DEF Started
<1>2. SeenFiles' = FilesOf(t) /\ Positions' = PositionsOf(t) /\ err_code' = t.err_code
  BY DEF Ended
<1>3. FileChanged(s, t, f)
  BY <1>1, FilesAfter
<1>4. SeenOf(t, id) = Overwrite(old, at, bytes) /\ t.fds[f].fdoffset = offset + Len(bytes)
  BY <1>1, ExtendedPlaced
<1>5. ~t.failed /\ id \notin s.lost /\ id \in DOMAIN s.content
  BY <1>1, OwnPlaced
<1>6. t.err_code = "OK"
  BY <1>1, <1>5 DEF CallDone
<1>7. /\ Positions[f].id = id /\ Positions[f].offset = offset
      /\ Positions[f].append <=> "APPEND" \in s.fds[f].flags
      /\ SeenFiles[id] = old /\ SeenFiles[id] # Lost
  BY <1>1, <1>5, KnownSeen
<1>8. /\ SeenFiles' = SetTo(SeenFiles, id, Overwrite(old, at, bytes))
      /\ Positions' = OffsetSet(Positions, f, offset + Len(bytes))
      /\ DOMAIN Positions = {g \in Fds : s.fds[g].open}
  BY <1>1, <1>2, <1>3, <1>4 DEF FileChanged
<1>9. at = IF Positions[f].append THEN Len(old) ELSE Positions[f].offset
  BY <1>7 DEF WriteAt
<1>10. f \in DOMAIN Positions
  BY <1>8
<1> HIDE DEF id, old, at, offset
<1>11. F!Known(f) /\ F!Content(f) = old
  BY <1>7 DEF F!Known, F!Content
<1>12. F!SetFile(Positions[f].id, Overwrite(old, at, bytes)) = SetTo(SeenFiles, id, Overwrite(old, at, bytes))
  BY <1>7 DEF F!SetFile, SetTo
<1>13. OffsetSet(Positions, f, offset + Len(bytes)) = [Positions EXCEPT ![f].offset = @ + Len(bytes)]
  BY <1>7, <1>10 DEF OffsetSet
<1>14. F!Overwrite(old, at, bytes) = Overwrite(old, at, bytes)
  BY DEF F!Overwrite, Overwrite, F!Longer, Longer
<1> QED
  BY <1>2, <1>6, <1>8, <1>9, <1>10, <1>11, <1>12, <1>13, <1>14 DEF F!Write

(* A close, whose flush may fail.                                          *)
LEMMA CloseStep ==
  ASSUME NEW s, Started(s), NEW f \in Fds, s.fds[f].open,
         NEW t, t = Returned(fflush_cache(s, f), f), Ended(t)
  PROVE  f \in DOMAIN Positions /\ (F!CloseOne(f) \/ F!Fail(f))
<1> DEFINE id == s.fds[f].obj_id
           u == fflush_cache(s, f)
<1>1. /\ CallInv(s) /\ ~s.failed /\ PlacedInv(s) /\ SeenFiles = FilesOf(s)
      /\ Positions = PositionsOf(s) /\ s.err_code = "OK"
  BY DEF Started
<1>2. SeenFiles' = FilesOf(t) /\ Positions' = PositionsOf(t) /\ err_code' = t.err_code
  BY DEF Ended
<1>3. CallDone(s, u, f) /\ Moved(s, u, f) /\ u.fds[f].open /\ u.fds[f].cache_page = NoPage
  BY <1>1, FflushMoves
<1>4. t = Returned(u, f)
  OBVIOUS
<1> HIDE DEF u
<1>5. CallInv(u) /\ PlacedInv(u)
  BY <1>1, <1>3, MovedPlaced DEF CallDone
<1>6. FilesOf(t) = FilesOf(u) /\ PositionsClosed(u, t, {f}) /\ t.err_code = u.err_code
  BY <1>3, <1>4, <1>5, ReturnedFiles
<1>7. FileChanged(s, u, f)
  BY <1>1, <1>3, FilesAfter
<1>8. /\ PositionsOf(u) = OffsetSet(Positions, f, u.fds[f].fdoffset)
      /\ DOMAIN Positions = {g \in Fds : s.fds[g].open}
      /\ id \in DOMAIN SeenFiles /\ DOMAIN FilesOf(u) = DOMAIN SeenFiles
      /\ \A j \in DOMAIN SeenFiles \ {id} : FilesOf(u)[j] = SeenFiles[j]
      /\ FilesOf(u)[id] = IF id \in u.lost THEN Lost ELSE SeenOf(u, id)
      /\ FilesOf(u) = SetTo(SeenFiles, id, IF id \in u.lost THEN Lost ELSE SeenOf(u, id))
  BY <1>1, <1>7 DEF FileChanged
<1>9. f \in DOMAIN Positions
  BY <1>8
<1>10. Positions' = Without(Positions, {f})
  BY <1>2, <1>6, <1>8 DEF PositionsClosed, Without, OffsetSet
<1>11. CASE id \notin u.lost
  <2>1. SeenOf(u, id) = SeenOf(s, id) /\ ~u.failed /\ id \notin s.lost
    BY <1>1, <1>3, <1>11, MovedPlaced, OwnPlaced
  <2>2. SeenFiles[id] = SeenOf(s, id)
    BY <1>1, <2>1, KnownSeen
  <2>3. /\ FilesOf(u) = [j \in DOMAIN FilesOf(u) |-> FilesOf(u)[j]]
        /\ SeenFiles = [j \in DOMAIN SeenFiles |-> SeenFiles[j]]
    BY DEF SeenFiles, FilesOf
  <2> HIDE DEF id
  <2>4. FilesOf(u) = SeenFiles
    BY <1>8, <1>11, <2>1, <2>2, <2>3
  <2>5. err_code' = "OK"
    BY <1>1, <1>2, <1>3, <1>6, <2>1 DEF CallDone
  <2> QED
    BY <1>2, <1>6, <1>9, <1>10, <2>4, <2>5 DEF F!CloseOne, F!Close, Without
<1>12. CASE id \in u.lost
  <2>1. Positions[f].id = id /\ (id \in s.lost => SeenFiles[id] = Lost)
    BY <1>1, KnownSeen
  <2>2. id \notin s.lost => u.err_code = "FULL"
    BY <1>3, <1>12 DEF CallDone
  <2>3. SeenFiles[id] # Lost => err_code' # "OK"
    BY <1>2, <1>6, <2>1, <2>2
  <2> HIDE DEF id
  <2>4. SeenFiles' = F!SetFile(Positions[f].id, Lost)
    BY <1>2, <1>6, <1>8, <1>12, <2>1 DEF F!SetFile, SetTo
  <2>5. /\ DOMAIN Positions' = DOMAIN Positions \ {f}
        /\ \A g \in DOMAIN Positions \ {f} : Positions'[g] = Positions[g]
    BY <1>10 DEF Without
  <2> QED
    BY <1>9, <2>1, <2>3, <2>4, <2>5 DEF F!Fail, F!Known, F!Content
<1> QED
  BY <1>11, <1>12

(* An open, of a file that is emptied, new or as it was.                   *)
LEMMA OpenStep ==
  ASSUME NEW s, Started(s), NEW f \in Fds, ~s.fds[f].open, NEW id \in Ids, NEW append, NEW empty,
         empty \/ id \in DOMAIN s.content,
         NEW t, FileOpened(s, t, f, id, append, empty), Ended(t)
  PROVE  F!Open(f, id, append)
<1>1. SeenFiles = FilesOf(s) /\ Positions = PositionsOf(s) /\ s.err_code = "OK"
  BY DEF Started
<1>2. SeenFiles' = FilesOf(t) /\ Positions' = PositionsOf(t) /\ err_code' = t.err_code
  BY DEF Ended
<1>3. f \notin DOMAIN Positions /\ DOMAIN SeenFiles = DOMAIN s.content
  BY <1>1 DEF PositionsOf, FilesOf
<1>4. SeenFiles' = IF empty THEN F!SetFile(id, <<>>) ELSE SeenFiles
  BY <1>1, <1>2 DEF FileOpened, F!SetFile
<1>5. Positions' = [g \in DOMAIN Positions \union {f} |->
                      IF g = f THEN [id |-> id, offset |-> 0, append |-> append] ELSE Positions[g]]
  BY <1>1, <1>2 DEF FileOpened
<1>6. err_code' = "OK"
  BY <1>1, <1>2 DEF FileOpened
<1> QED
  BY <1>3, <1>4, <1>5, <1>6 DEF F!Open

(* A file is removed.                                                      *)
LEMMA RemoveStep ==
  ASSUME NEW s, Started(s), NEW id, NEW t, FileRemoved(s, t, id), Ended(t)
  PROVE  F!Remove(id)
<1>1. SeenFiles = FilesOf(s) /\ Positions = PositionsOf(s) /\ s.err_code = "OK"
  BY DEF Started
<1>2. SeenFiles' = FilesOf(t) /\ Positions' = PositionsOf(t) /\ err_code' = t.err_code
  BY DEF Ended
<1>3. SeenFiles' = Without(SeenFiles, {id}) /\ err_code' = "OK"
  BY <1>1, <1>2 DEF FileRemoved
<1>4. Positions' = Without(Positions, OnFile(Positions, id))
  BY <1>1, <1>2 DEF FileRemoved, PositionsClosed
<1>5. F!OpenOn(id) = OnFile(Positions, id)
  BY DEF F!OpenOn, OnFile
<1> QED
  BY <1>3, <1>4, <1>5 DEF F!Remove, F!Close, Without

(* A removal that is refused.                                              *)
LEMMA RefusedStep ==
  ASSUME NEW s, Started(s), NEW t, RefusedFiles(s, t), Ended(t)
  PROVE  F!Unseen
BY DEF Started, Ended, RefusedFiles, F!Unseen

(* There is one empty function.                                            *)
LEMMA NothingIs ==
  ASSUME NEW fun, fun = [x \in DOMAIN fun |-> fun[x]], DOMAIN fun = {}
  PROVE  fun = <<>>
<1>1. DOMAIN <<>> = {} /\ <<>> = [x \in DOMAIN <<>> |-> <<>>[x]]
  OBVIOUS
<1> QED
  BY <1>1

(* After a mount no descriptor is open.                                    *)
LEMMA NothingOpen ==
  ASSUME fds = NoFds
  PROVE  Positions = <<>>
<1>1. Fds \ FreeFds = {}
  BY NoFdsTyped DEF FreeFds
<1>2. DOMAIN Positions = {} /\ Positions = [x \in DOMAIN Positions |-> Positions[x]]
  BY <1>1 DEF Positions
<1> QED
  BY <1>2, NothingIs

(* A reset: only what is cached is lost, and that is of an open file.      *)
LEMMA MountStep ==
  ASSUME StateInv, Placed, SPIFFS_mount
  PROVE  Placed' /\ F!Mount
<1> DEFINE unwritten == {cache.cpages[i].obj_id : i \in WritePages(cache)}
<1>1. /\ cache' = cache_init /\ fds' = NoFds /\ content' = content /\ err_code' = "OK"
      /\ lost' = lost \union unwritten
  BY DEF SPIFFS_mount, Keep, Current
<1>2. cache \in CacheType /\ content \in ContentType /\ OwnedInv(cache, content, fds)
  BY StateTyped
<1>3. \A id : cache_page_get_by_id(cache_init, id) = NoPage
  BY EmptyCache DEF cache_page_get_by_id
<1>4. \A id : Seen(id)' = IF id \in lost' THEN Lost ELSE content[id]
  BY <1>1, <1>3 DEF Seen
<1>5. DOMAIN SeenFiles = DOMAIN content /\ DOMAIN SeenFiles' = DOMAIN content
  BY <1>1 DEF SeenFiles
<1>6. \A id \in DOMAIN content : SeenFiles[id] = Seen(id) /\ SeenFiles'[id] = Seen(id)'
  BY <1>1 DEF SeenFiles
<1>7. ASSUME NEW id \in DOMAIN content
      PROVE  SeenFiles'[id] = SeenFiles[id] \/ (F!OpenOn(id) # {} /\ SeenFiles'[id] = Lost)
  <2>1. CASE id \in lost
    BY <1>1, <1>4, <1>6, <1>7, <2>1 DEF Seen
  <2>2. CASE id \notin lost /\ id \in unwritten
    <3>1. PICK i \in WritePages(cache) : cache.cpages[i].obj_id = id
      BY <2>2
    <3>2. PICK g \in Fds : fds[g].open /\ fds[g].cache_page = i
      BY <1>2 DEF OwnedInv
    <3>3. i # NoPage
      BY <1>2, ByIdKnown DEF OwnedInv
    <3>4. fds[g].obj_id = id
      BY <1>2, <3>1, <3>2, <3>3 DEF OwnedInv
    <3>5. g \in Fds \ FreeFds
      BY <3>2 DEF FreeFds
    <3>6. g \in DOMAIN Positions /\ Positions[g].id = id
      BY <3>4, <3>5 DEF Positions
    <3>7. F!OpenOn(id) # {}
      BY <3>6 DEF F!OpenOn
    <3> QED
      BY <1>1, <1>4, <1>6, <1>7, <2>2, <3>7
  <2>3. CASE id \notin lost /\ id \notin unwritten
    <3>1. cache_page_get_by_id(cache, id) = NoPage
      BY <2>3 DEF cache_page_get_by_id
    <3>2. Seen(id) = content[id]
      BY <2>3, <3>1 DEF Seen
    <3> QED
      BY <1>1, <1>4, <1>6, <1>7, <2>3, <3>2
  <2> QED
    BY <2>1, <2>2, <2>3
<1>8. Positions' = <<>>
  <2>1. (fds = NoFds)'
    BY <1>1
  <2>2. (Fds \ FreeFds = {})'
    BY <1>1, NoFdsTyped DEF FreeFds
  <2>3. DOMAIN Positions' = {} /\ Positions' = [x \in DOMAIN Positions' |-> Positions'[x]]
    BY <2>2 DEF Positions
  <2> QED
    BY <2>3, NothingIs
<1>9. Placed'
  <2>1. /\ (Current(0).c)' = cache_init /\ (Current(0).fds)' = NoFds
    BY <1>1 DEF Current
  <2> QED
    BY <2>1, EmptyCache, NoFdsTyped DEF Placed, PlacedInv, CachedPlaced, FdsPlaced
<1> QED
  BY <1>1, <1>5, <1>7, <1>8, <1>9 DEF F!Mount

(* A step of the flash changes no file.                                    *)
LEMMA FlashSeen ==
  ASSUME StateInv, Placed, CacheInv(cache'), SameWrites(cache, cache'),
         UNCHANGED <<content, fds, err_code, lost>>
  PROVE  Placed' /\ UNCHANGED <<SeenFiles, Positions, err_code>>
<1>1. cache \in CacheType /\ cache' \in CacheType
  BY StateTyped DEF CacheInv
<1>2. /\ WritePages(cache) = {i \in Slots : cache.cpages[i].type = "WR"}
      /\ WritePages(cache') = {i \in Slots : cache'.cpages[i].type = "WR"}
  BY <1>1, PageKinds
<1>3. /\ WritePages(cache') = WritePages(cache)
      /\ \A i \in WritePages(cache) : cache'.cpages[i] = cache.cpages[i]
  BY <1>2 DEF SameWrites
<1>4. \A id : cache_page_get_by_id(cache', id) = cache_page_get_by_id(cache, id)
  <2>1. SUFFICES ASSUME NEW id
                 PROVE  cache_page_get_by_id(cache', id) = cache_page_get_by_id(cache, id)
    OBVIOUS
  <2>2. {i \in WritePages(cache') : cache'.cpages[i].obj_id = id} = {i \in WritePages(cache) : cache.cpages[i].obj_id = id}
    BY <1>3
  <2> QED
    BY <2>2 DEF cache_page_get_by_id
<1>5. \A id : cache_page_get_by_id(cache, id) = NoPage \/ cache_page_get_by_id(cache, id) \in WritePages(cache)
  BY <1>1, StateTyped, ByIdKnown DEF OwnedInv
<1>6. \A id : Seen(id)' = Seen(id)
  BY <1>3, <1>4, <1>5 DEF Seen
<1>7. SeenFiles' = SeenFiles
  BY <1>6 DEF SeenFiles
<1>8. Positions' = Positions
  BY DEF Positions, FreeFds
<1>9. Placed'
  <2> DEFINE s == Current(0)
  <2>1. /\ s.c = cache /\ s.content = content /\ s.fds = fds /\ s.lost = lost
        /\ s'.c = cache' /\ s'.content = content /\ s'.fds = fds /\ s'.lost = lost
    BY DEF Current
  <2> HIDE DEF s
  <2>2. \A id : SeenOf(s', id) = SeenOf(s, id)
    BY <1>3, <1>4, <1>5, <2>1 DEF SeenOf
  <2>3. PlacedInv(s)
    BY DEF Placed, s
  <2>4. PlacedInv(s')
    BY <1>3, <2>1, <2>2, <2>3 DEF PlacedInv, CachedPlaced, FdsPlaced
  <2> QED
    BY <2>4 DEF Placed, s
<1> QED
  BY <1>7, <1>8, <1>9

(* The invariant: bytes have no gap below what is cached, and no offset is *)
(* behind the end of its file, unless a call has failed on the file.       *)
FilesInv == StateInv /\ Placed

(* There is no file and no descriptor at the start.                        *)
LEMMA InitFiles ==
  Init => FilesInv /\ F!Init
<1> SUFFICES ASSUME Init
             PROVE  FilesInv /\ F!Init
  OBVIOUS
<1>1. cache = cache_init /\ fds = NoFds /\ content = <<>> /\ err_code = "OK" /\ lost = {}
  BY DEF Init
<1>2. DOMAIN content = {}
  BY <1>1
<1>3. SeenFiles = <<>>
  <2>1. DOMAIN SeenFiles = {} /\ SeenFiles = [x \in DOMAIN SeenFiles |-> SeenFiles[x]]
    BY <1>2 DEF SeenFiles
  <2> QED
    BY <2>1, NothingIs
<1>4. Positions = <<>>
  BY <1>1, NothingOpen
<1>5. Placed
  <2>1. Current(0).content = content
    BY DEF Current
  <2> QED
    BY <1>2, <2>1 DEF Placed, PlacedInv
<1> QED
  BY <1>1, <1>3, <1>4, <1>5, InitState DEF FilesInv, F!Init

(* SPIFFS_open.                                                            *)
LEMMA OpenMaps ==
  ASSUME Exclusive, FilesInv, NEW id \in Ids, NEW flags \in OpenFlags, NEW trunc \in BOOLEAN,
         SPIFFS_open(id, flags, trunc)
  PROVE  Placed' /\ F!Next
<1> DEFINE f == Min(FreeFds)
           empty == trunc \/ id \notin DOMAIN content
<1>1. f \in Fds /\ ~fds[f].open
  BY FreeFdFound DEF SPIFFS_open
<1>2. PICK good \in 0 .. 3 : Keep(Opened(Current(good), f, id, flags, empty))
  BY DEF SPIFFS_open, Call
<1>3. Started(Current(good))
  BY CallStarted DEF FilesInv
<1>4. /\ CallInv(Current(good)) /\ PlacedInv(Current(good)) /\ Current(good).fds = fds
      /\ Current(good).content = content
  BY <1>3 DEF Started
<1>5. empty \in BOOLEAN /\ (empty \/ id \in DOMAIN content)
  OBVIOUS
<1>6. empty => \A g \in Fds : ~(fds[g].open /\ fds[g].obj_id = id)
  <2>1. trunc => \A g \in Fds : ~(fds[g].open /\ fds[g].obj_id = id)
    BY DEF SPIFFS_open, OpenOn
  <2>2. \A g \in Fds : fds[g].open => fds[g].obj_id \in DOMAIN content
    BY <1>4 DEF CallInv, OwnedInv
  <2> QED
    BY <2>1, <2>2
<1> DEFINE t == Opened(Current(good), f, id, flags, empty)
<1> HIDE DEF f, empty
<1>7. FileOpened(Current(good), t, f, id, "APPEND" \in flags, empty)
  BY <1>1, <1>4, <1>5, <1>6, OpenedFiles
<1> HIDE DEF t
<1>8. Ended(t)
  BY <1>2, <1>7, CallEnded DEF FileOpened, t
<1>9. F!Open(f, id, "APPEND" \in flags)
  BY <1>1, <1>3, <1>4, <1>5, <1>7, <1>8, OpenStep
<1>10. ("APPEND" \in flags) \in BOOLEAN
  OBVIOUS
<1> QED
  BY <1>1, <1>8, <1>9, <1>10 DEF F!Next, Ended

(* SPIFFS_write.                                                           *)
LEMMA WriteMaps ==
  ASSUME FilesInv, NEW f \in Fds, NEW bytes \in Writes, SPIFFS_write(f, bytes)
  PROVE  Placed' /\ F!Next
<1>1. fds[f].open /\ bytes \in Seq(Nat)
  BY CacheAssumption DEF SPIFFS_write
<1>2. PICK good \in 0 .. 3 : Keep(Written(Current(good), f, bytes))
  BY DEF SPIFFS_write, Call
<1>3. Started(Current(good))
  BY CallStarted DEF FilesInv
<1>4. /\ CallInv(Current(good)) /\ ~Current(good).failed /\ PlacedInv(Current(good))
      /\ Current(good).fds = fds
  BY <1>3 DEF Started
<1> DEFINE t == Written(Current(good), f, bytes)
<1>5. CallDone(Current(good), t, f) /\ Extended(Current(good), t, f, bytes)
  BY <1>1, <1>4, WrittenWrites
<1> HIDE DEF t
<1>6. PlacedInv(t)
  BY <1>1, <1>4, <1>5, ExtendedPlaced
<1>7. Ended(t)
  BY <1>2, <1>6, CallEnded DEF t
<1>8. CASE fds[f].obj_id \in t.lost
  <2>1. f \in DOMAIN Positions /\ F!Fail(f)
    BY <1>1, <1>3, <1>4, <1>5, <1>7, <1>8, FailStep
  <2> QED
    BY <1>7, <2>1 DEF F!Next, Ended
<1>9. CASE fds[f].obj_id \notin t.lost
  <2>1. f \in DOMAIN Positions /\ F!Write(f, bytes)
    BY <1>1, <1>3, <1>4, <1>5, <1>7, <1>9, WriteStep
  <2> QED
    BY <1>7, <2>1 DEF F!Next, Ended
<1> QED
  BY <1>8, <1>9

(* SPIFFS_read, SPIFFS_lseek and SPIFFS_fflush change no byte.             *)
LEMMA MovedMaps ==
  ASSUME NEW s, Started(s), NEW f \in Fds, s.fds[f].open, NEW t, Keep(t), CallDone(s, t, f),
         Moved(s, t, f)
  PROVE  Placed' /\ F!Next
<1>1. PlacedInv(t)
  BY MovedPlaced DEF Started
<1>2. Ended(t)
  BY <1>1, CallEnded
<1>3. CASE s.fds[f].obj_id \in t.lost
  <2>1. f \in DOMAIN Positions /\ F!Fail(f)
    BY <1>2, <1>3, FailStep
  <2> QED
    BY <1>2, <2>1 DEF F!Next, Ended
<1>4. CASE s.fds[f].obj_id \notin t.lost
  <2>1. f \in DOMAIN Positions /\ F!Move(f)
    BY <1>2, <1>4, MoveStep
  <2> QED
    BY <1>2, <2>1 DEF F!Next, Ended
<1> QED
  BY <1>3, <1>4

(* SPIFFS_read.                                                            *)
LEMMA ReadMaps ==
  ASSUME FilesInv, NEW f \in Fds, NEW n \in Lengths, SPIFFS_read(f, n)
  PROVE  Placed' /\ F!Next
<1>1. fds[f].open /\ n \in Nat
  BY CacheAssumption DEF SPIFFS_read
<1>2. PICK good \in 0 .. 3 : Keep(ReadFlushed(Current(good), f, n))
  BY DEF SPIFFS_read, Call
<1>3. Started(Current(good))
  BY CallStarted DEF FilesInv
<1>4. CallInv(Current(good)) /\ ~Current(good).failed /\ Current(good).fds = fds
  BY <1>3 DEF Started
<1>5. /\ CallDone(Current(good), ReadFlushed(Current(good), f, n), f)
      /\ Moved(Current(good), ReadFlushed(Current(good), f, n), f)
  BY <1>1, <1>4, ReadMoves
<1> QED
  BY <1>1, <1>2, <1>3, <1>4, <1>5, MovedMaps

(* SPIFFS_lseek.                                                           *)
LEMMA SeekMaps ==
  ASSUME FilesInv, NEW f \in Fds, NEW n \in Lengths, SPIFFS_lseek(f, n)
  PROVE  Placed' /\ F!Next
<1>1. fds[f].open /\ n \in Nat
  BY CacheAssumption DEF SPIFFS_lseek
<1>2. PICK good \in 0 .. 3 : Keep(Sought(Current(good), f, n))
  BY DEF SPIFFS_lseek, Call
<1>3. Started(Current(good))
  BY CallStarted DEF FilesInv
<1>4. CallInv(Current(good)) /\ ~Current(good).failed /\ Current(good).fds = fds
  BY <1>3 DEF Started
<1>5. /\ CallDone(Current(good), Sought(Current(good), f, n), f)
      /\ Moved(Current(good), Sought(Current(good), f, n), f)
  BY <1>1, <1>4, SeekMoves
<1> QED
  BY <1>1, <1>2, <1>3, <1>4, <1>5, MovedMaps

(* SPIFFS_fflush.                                                          *)
LEMMA FflushMaps ==
  ASSUME FilesInv, NEW f \in Fds, SPIFFS_fflush(f)
  PROVE  Placed' /\ F!Next
<1>1. fds[f].open
  BY DEF SPIFFS_fflush
<1>2. PICK good \in 0 .. 3 : Keep(fflush_cache(Current(good), f))
  BY DEF SPIFFS_fflush, Call
<1>3. Started(Current(good))
  BY CallStarted DEF FilesInv
<1>4. CallInv(Current(good)) /\ ~Current(good).failed /\ Current(good).fds = fds
  BY <1>3 DEF Started
<1>5. /\ CallDone(Current(good), fflush_cache(Current(good), f), f)
      /\ Moved(Current(good), fflush_cache(Current(good), f), f)
  BY <1>1, <1>4, FflushMoves
<1> QED
  BY <1>1, <1>2, <1>3, <1>4, <1>5, MovedMaps

(* SPIFFS_close.                                                           *)
LEMMA CloseMaps ==
  ASSUME FilesInv, NEW f \in Fds, SPIFFS_close(f)
  PROVE  Placed' /\ F!Next
<1>1. fds[f].open
  BY DEF SPIFFS_close
<1>2. PICK good \in 0 .. 3 : Keep(Returned(fflush_cache(Current(good), f), f))
  BY DEF SPIFFS_close, Call
<1>3. Started(Current(good))
  BY CallStarted DEF FilesInv
<1>4. /\ CallInv(Current(good)) /\ ~Current(good).failed /\ Current(good).fds = fds
      /\ PlacedInv(Current(good))
  BY <1>3 DEF Started
<1> DEFINE u == fflush_cache(Current(good), f)
           t == Returned(u, f)
<1>5. /\ CallDone(Current(good), u, f) /\ Moved(Current(good), u, f)
      /\ u.fds[f].open /\ u.fds[f].cache_page = NoPage
  BY <1>1, <1>4, FflushMoves
<1> HIDE DEF u
<1>6. CallInv(u) /\ PlacedInv(u)
  BY <1>1, <1>4, <1>5, MovedPlaced DEF CallDone
<1>7. PlacedInv(t)
  BY <1>5, <1>6, ReturnedFiles
<1>8. Ended(t)
  BY <1>2, <1>7, CallEnded DEF u
<1>9. t = Returned(fflush_cache(Current(good), f), f)
  BY DEF u
<1> HIDE DEF t
<1>10. f \in DOMAIN Positions /\ (F!CloseOne(f) \/ F!Fail(f))
  BY <1>1, <1>3, <1>4, <1>8, <1>9, CloseStep
<1> QED
  BY <1>8, <1>10 DEF F!Next, Ended

(* SPIFFS_fremove and SPIFFS_remove.                                       *)
LEMMA RemovedMaps ==
  ASSUME NEW s, Started(s), NEW id \in DOMAIN s.content, NEW t, Keep(t), FileRemoved(s, t, id)
  PROVE  Placed' /\ F!Next
<1>1. Ended(t)
  BY CallEnded DEF FileRemoved
<1>2. F!Remove(id)
  BY <1>1, RemoveStep
<1>3. id \in DOMAIN SeenFiles
  BY DEF Started, FilesOf
<1> QED
  BY <1>1, <1>2, <1>3 DEF F!Next, Ended

(* SPIFFS_fremove, through the only descriptor of the file.                *)
LEMMA RemovedByMaps ==
  ASSUME Exclusive, FilesInv, NEW f \in Fds, SPIFFS_fremove(f)
  PROVE  Placed' /\ F!Next
<1>1. fds[f].open /\ OpenOn(fds[f].obj_id) = {f}
  BY DEF SPIFFS_fremove
<1>2. PICK good \in 0 .. 3 : Keep(RemovedBy(Current(good), f))
  BY DEF SPIFFS_fremove, Call
<1>3. Started(Current(good))
  BY CallStarted DEF FilesInv
<1>4. /\ CallInv(Current(good)) /\ ~Current(good).failed /\ Current(good).fds = fds
      /\ PlacedInv(Current(good))
  BY <1>3 DEF Started
<1>5. \A g \in Fds : fds[g].open /\ fds[g].obj_id = fds[f].obj_id => g = f
  BY <1>1 DEF OpenOn
<1>6. fds[f].obj_id \in DOMAIN Current(good).content
  BY <1>1, <1>4 DEF CallInv, OwnedInv
<1> DEFINE t == RemovedBy(Current(good), f)
<1>7. \/ FileRemoved(Current(good), t, fds[f].obj_id)
      \/ RefusedFiles(Current(good), t)
      \/ CallDone(Current(good), t, f) /\ PlacedInv(t) /\ fds[f].obj_id \in t.lost
  BY <1>1, <1>4, <1>5, RemovedByFiles
<1>8. Keep(t)
  BY <1>2
<1> HIDE DEF t
<1>9. CASE FileRemoved(Current(good), t, fds[f].obj_id)
  BY <1>3, <1>6, <1>8, <1>9, RemovedMaps
<1>10. CASE RefusedFiles(Current(good), t)
  <2>1. Ended(t)
    BY <1>8, <1>10, CallEnded DEF RefusedFiles
  <2>2. F!Unseen
    BY <1>3, <1>10, <2>1, RefusedStep
  <2> QED
    BY <2>1, <2>2 DEF F!Next, Ended
<1>11. CASE CallDone(Current(good), t, f) /\ PlacedInv(t) /\ fds[f].obj_id \in t.lost
  <2>1. Ended(t)
    BY <1>8, <1>11, CallEnded
  <2>2. f \in DOMAIN Positions /\ F!Fail(f)
    BY <1>1, <1>3, <1>4, <1>11, <2>1, FailStep
  <2> QED
    BY <2>1, <2>2 DEF F!Next, Ended
<1> QED
  BY <1>7, <1>9, <1>10, <1>11

(* SPIFFS_remove, of a file that is not open.                              *)
LEMMA RemoveMaps ==
  ASSUME Exclusive, FilesInv, NEW id \in Ids, SPIFFS_remove(id)
  PROVE  Placed' /\ F!Next
<1>1. id \in DOMAIN content /\ \A g \in Fds : ~(fds[g].open /\ fds[g].obj_id = id)
  BY DEF SPIFFS_remove, OpenOn
<1>2. PICK good \in 0 .. 3 : Keep(Removed(Current(good), id))
  BY DEF SPIFFS_remove, Call
<1>3. Started(Current(good))
  BY CallStarted DEF FilesInv
<1>4. /\ CallInv(Current(good)) /\ Current(good).fds = fds /\ Current(good).content = content
      /\ PlacedInv(Current(good))
  BY <1>3 DEF Started
<1> DEFINE t == Removed(Current(good), id)
<1>5. \A j \in DOMAIN Current(good).content \ (Current(good).lost \union {id}) :
        CachedPlaced(Current(good), j) /\ FdsPlaced(Current(good), j)
  BY <1>4 DEF PlacedInv
<1>6. FileRemoved(Current(good), t, id)
  BY <1>1, <1>4, <1>5, RemovedFiles DEF FileRemoved
<1>7. Keep(t)
  BY <1>2
<1> HIDE DEF t
<1> QED
  BY <1>1, <1>3, <1>4, <1>6, <1>7, RemovedMaps

(* Every step of the system is a step of Files, or changes nothing there.  *)
LEMMA NextMaps ==
  ASSUME Exclusive, FilesInv, [Next]_vars
  PROVE  Placed' /\ [F!Next]_(F!vars)
<1>1. StateInv /\ Placed
  BY DEF FilesInv
<1>2. ASSUME NEW p \in Pages, NEW lu2 \in BOOLEAN, phys_rd(p, lu2)
      PROVE  Placed' /\ [F!Next]_(F!vars)
  BY <1>1, <1>2, StateTyped, ReadKeeps, FlashSeen DEF phys_rd, F!vars
<1>3. ASSUME NEW p \in Pages, NEW d \in BOOLEAN, phys_wr(p, d)
      PROVE  Placed' /\ [F!Next]_(F!vars)
  <2> DEFINE c == Outdate(cache, {p})
  <2>1. /\ CacheInv(c) /\ SameWrites(cache, c)
        /\ \A i \in ReadPages(c) : c.cpages[i].pix \notin {p} => c.cpages[i].current
    BY <1>1, StateTyped, OutdateInv
  <2>2. cache' = Copy(c, p, d) /\ UNCHANGED <<content, fds, err_code, lost>>
    BY <1>3 DEF phys_wr
  <2> HIDE DEF c
  <2>3. CacheInv(cache') /\ SameWrites(c, cache')
    BY <2>1, <2>2, CopyKeeps
  <2>4. SameWrites(cache, cache')
    BY <2>1, <2>3, SameWritesTransitive
  <2> QED
    BY <1>1, <2>2, <2>3, <2>4, FlashSeen DEF F!vars
<1>4. ASSUME NEW b, gc_erase_block(b)
      PROVE  Placed' /\ [F!Next]_(F!vars)
  BY <1>1, <1>4, StateTyped, EraseKeeps, FlashSeen DEF gc_erase_block, F!vars
<1>5. CASE SPIFFS_mount
  BY <1>1, <1>5, MountStep DEF F!Next
<1>6. CASE UNCHANGED vars
  <2>1. /\ cache' = cache /\ content' = content /\ fds' = fds /\ err_code' = err_code
        /\ lost' = lost
    BY <1>6 DEF vars
  <2>2. SameWrites(cache, cache')
    BY <2>1 DEF SameWrites
  <2> QED
    BY <1>1, <2>1, <2>2, StateTyped, FlashSeen DEF F!vars
<1>7. ASSUME Placed' /\ F!Next
      PROVE  Placed' /\ [F!Next]_(F!vars)
  BY <1>7
<1> QED
  BY <1>2, <1>3, <1>4, <1>5, <1>6, <1>7, OpenMaps, WriteMaps, ReadMaps, SeekMaps, FflushMaps,
     CloseMaps, RemovedByMaps, RemoveMaps DEF Next

(* What is cached of a file begins inside it, and every descriptor's offset *)
(* is inside what the file holds with it, unless a call has failed on it:  *)
(* spiffs_hydro_write and spiffs_fflush_cache never meet a gap.            *)
THEOREM OffsetsInFiles ==
  ASSUME Exclusive
  PROVE  Spec => []FilesInv
<1>1. Init => FilesInv
  BY InitFiles
<1>2. FilesInv /\ [Next]_vars => FilesInv'
  BY NextState, NextMaps DEF FilesInv
<1> QED
  BY <1>1, <1>2, PTL DEF Spec

(* A read returns what is seen, where the invariant holds.                 *)
LEMMA StateReads ==
  ASSUME FilesInv
  PROVE  ReadsSeeWrites
<1>1. SUFFICES ASSUME NEW f \in Fds, NEW len \in Lengths, fds[f].open, fds[f].obj_id \notin lost
               PROVE  ReadFlushed(Current(1), f, len).got = ReadBytes(Seen(fds[f].obj_id), fds[f].fdoffset, len)
  BY DEF ReadsSeeWrites, ReadBytes
<1> DEFINE s == Current(1)
           id == fds[f].obj_id
<1>2. /\ Started(s) /\ s.good = 1
  BY CallStarted DEF FilesInv
<1>3. /\ CallInv(s) /\ ~s.failed /\ PlacedInv(s) /\ s.c = cache /\ s.content = content
      /\ s.fds = fds /\ s.lost = lost
  BY <1>2 DEF Started
<1> HIDE DEF s
<1>4. Seen(id) = SeenOf(s, id)
  BY <1>1, <1>3, SeenInState
<1>5. id \in DOMAIN s.content
  BY <1>1, <1>3 DEF CallInv, OwnedInv
<1>6. CachedPlaced(s, id)
  BY <1>1, <1>3, <1>5 DEF PlacedInv
<1>7. len \in Nat
  BY CacheAssumption
<1>8. ReadFlushed(s, f, len).got = ReadBytes(SeenOf(s, id), s.fds[f].fdoffset, len)
  BY <1>1, <1>2, <1>3, <1>6, <1>7, ReadMoves
<1> QED
  BY <1>3, <1>4, <1>8 DEF s

(* SPIFFS_read through any descriptor returns the bytes that were written  *)
(* through all descriptors of the file, cached or not.                     *)
THEOREM ReadsAreCurrent ==
  ASSUME Exclusive
  PROVE  Spec => []ReadsSeeWrites
BY OffsetsInFiles, StateReads, PTL

(* The file calls with the cache implement module Files, where a write is  *)
(* in the file when the call returns and a failing call leaves an error.   *)
THEOREM PromisesKept ==
  ASSUME Exclusive
  PROVE  Spec => KeepsPromises
<1>1. Init => F!Init
  BY InitFiles
<1>2. FilesInv /\ [Next]_vars => [F!Next]_(F!vars)
  BY NextMaps
<1>3. Spec => F!Spec
  BY <1>1, <1>2, OffsetsInFiles, PTL DEF Spec, F!Spec
<1> QED
  BY <1>3 DEF KeepsPromises

================================================================================
