-------------------------------- MODULE Feed --------------------------------
(***************************************************************************)
(* The endless product grid of the home page (InfiniteProductFeed.tsx) and *)
(* the route that feeds it (GET /api/products).                            *)
(*                                                                         *)
(* A page is asked for when the sentinel below the grid comes near the     *)
(* screen.  Its answer is rearranged so that one shop does not follow      *)
(* itself three times, and shown row by row as the images arrive.  React   *)
(* keeps two versions of the grid: `next`, what the setters were given,    *)
(* and `shown`, what was rendered and what the running loadNextPage        *)
(* closes over; Render brings the second up to the first.  Opening a       *)
(* product unmounts the grid, and feedCache gives it back on return.       *)
(***************************************************************************)
EXTENDS Integers, FiniteSets, SequencesExt

CONSTANTS
    MaxId,          \* rows of catalog-svc.products are 1 .. MaxId
    langOf,         \* the language of each row
    vendorOf,       \* its shop, or NoVendor
    Langs,
    NoVendor,
    PerPage,
    Columns,        \* widths the screen may have: currentColumnCount
    MaxClicks,      \* bound: moves of the customer that are not scrolling
    MaxEdits,       \* bound: products put on or off sale
    MaxPage         \* bound: pages that other visitors ask for

Products == 1 .. MaxId

ASSUME FeedAssumption ==
    /\ MaxId \in Nat
    /\ langOf \in [Products -> Langs]
    /\ PerPage \in Nat \ {0}
    /\ Columns \subseteq Nat \ {0}
    /\ MaxClicks \in Nat
    /\ MaxEdits \in Nat
    /\ MaxPage \in Nat

VARIABLES
    active,         \* products whose status is 'active'
    kept,           \* last good answer per page and language: CDN and KV
    language,       \* the language prop
    mounted,        \* the grid is on the screen
    next,           \* products, page and hasMore as the setters left them
    shown,          \* the same as rendered, and the language it was under
    asks,           \* the language loadNextPage closes over
    loading,        \* loadingRef
    failed,         \* the state `error`: the retry button is there
    call,           \* the running loadNextPage
    feedCache,      \* module-level: the list under "home-fr", "home-en"
    clicks, edits   \* count what the customer and the shops did

server == <<active, kept, edits>>
grid == <<next, shown, asks, loading, failed, call>>
feedVars == <<server, language, mounted, grid, feedCache, clicks>>

Start == [products |-> <<>>, page |-> 0, hasMore |-> TRUE]
ListOf(s) == [products |-> s.products, page |-> s.page, hasMore |-> s.hasMore]
Rendered(list, lang) == [products |-> list.products, page |-> list.page,
                         hasMore |-> list.hasMore, lang |-> lang]
Idle == [stage |-> "idle"]
-----------------------------------------------------------------------------
(* Spreading the shops out. *)

MaxConsecutive == 2

LastOf(s) == SubSeq(s, Len(s) - MaxConsecutive + 1, Len(s))

\* The last MAX_CONSECUTIVE cards of `history` are all of this shop.
Crowded(history, vendor) ==
    /\ vendor # NoVendor
    /\ Len(history) >= MaxConsecutive
    /\ \A k \in DOMAIN LastOf(history) : vendorOf[LastOf(history)[k]] = vendor

Swap(s, i, j) == [s EXCEPT ![i] = s[j], ![j] = s[i]]

\* A crowded card at place i changes places with the first later one of a
\* shop that is not in `barred` and not its own.
Place(head, out, i, barred) ==
    LET mine == vendorOf[out[i]]
        later == {j \in (i + 1) .. Len(out) :
                    vendorOf[out[j]] \notin barred \cup {mine}}
    IN  IF Crowded(head \o SubSeq(out, 1, i - 1), mine) /\ later # {}
        THEN Swap(out, i, Min(later))
        ELSE out

\* Place after place.
Spread(head, batch, barred) ==
    LET Placed[i \in 0 .. Len(batch)] ==
          IF i = 0 THEN batch ELSE Place(head, Placed[i - 1], i, barred)
    IN  Placed[Len(batch)]

\* Mutant: rearranges without looking at the end of the grid.
HeadIgnored(prevTail, batch) == Spread(<<>>, batch, {NoVendor})

declusterNewBatch(prevTail, batch) == Spread(prevTail, batch, {NoVendor})
declusterByVendor(batch) == Spread(<<>>, batch, {})

\* The end of a list that declusterNewBatch looks at.
Tail2(products) ==
    IF Len(products) <= MaxConsecutive THEN products ELSE LastOf(products)
-----------------------------------------------------------------------------
(* catalog-svc and the route. *)

\* One product is put on sale or taken off.
Edit(p) ==
    /\ edits < MaxEdits
    /\ active' = (active \ {p}) \cup ({p} \ active)
    /\ edits' = edits + 1
    /\ UNCHANGED <<kept, language, mounted, grid, feedCache, clicks>>

\* WHERE lang AND status = 'active' ORDER BY id.
Rows(lang) ==
    LET UpTo[id \in 0 .. MaxId] ==
          IF id = 0 THEN <<>>
          ELSE IF id \in active /\ langOf[id] = lang
               THEN Append(UpTo[id - 1], id)
               ELSE UpTo[id - 1]
    IN  UpTo[MaxId]

\* LIMIT OFFSET.
listProducts(page, lang) ==
    SubSeq(Rows(lang), (page - 1) * PerPage + 1,
           IF page * PerPage < Len(Rows(lang)) THEN page * PerPage
                                               ELSE Len(Rows(lang)))

Remember(k, batch) ==
    kept' = [q \in DOMAIN kept \cup {k} |-> IF q = k THEN batch ELSE kept[q]]

\* catalog-svc answers a page, and the CDN and catalogCacheSet keep it.
Reply(page, lang) == declusterByVendor(listProducts(page, lang))

\* Somebody else asks for a page.
OtherVisitor(page, lang) ==
    /\ \E batch \in {Reply(page, lang)} : Remember(<<page, lang>>, batch)
    /\ UNCHANGED <<active, edits, language, mounted, grid, feedCache, clicks>>
-----------------------------------------------------------------------------
(* loadNextPage. *)

\* The rendered grid is behind the setters.
Behind == ListOf(shown) # next

\* The sentinel comes near the screen, or the retry button is clicked.  The
\* loadNextPage that runs is the one of the last rendering: it may be asked
\* for once more in the moment before a rendering, which counts as a click.
LoadNextPage ==
    /\ mounted
    /\ ~loading
    /\ shown.hasMore
    /\ Behind => clicks < MaxClicks
    /\ clicks' = IF Behind THEN clicks + 1 ELSE clicks
    /\ loading' = TRUE
    /\ failed' = FALSE
    /\ call' = [stage |-> "asked", page |-> shown.page + 1, lang |-> asks,
                tail |-> Tail2(shown.products), early |-> Behind]
    /\ UNCHANGED <<server, language, mounted, next, shown, asks, feedCache>>

\* The grid has `batch`, which it will show in rows as wide as the screen is
\* at this moment.
Answered(batch) ==
    /\ \E cols \in Columns :
          call' = [stage |-> "rows", page |-> call.page, early |-> call.early,
                   coming |-> declusterNewBatch(call.tail, batch),
                   before |-> Len(next.products),
                   full |-> Len(batch) >= PerPage, cols |-> cols]
    /\ UNCHANGED <<active, edits, language, mounted, next, shown, asks,
                   loading, failed, feedCache, clicks>>

\* catalog-svc answers, and the answer is kept.
FreshAnswer ==
    /\ call.stage = "asked"
    /\ \E batch \in {Reply(call.page, call.lang)} :
          Answered(batch) /\ Remember(<<call.page, call.lang>>, batch)

\* An answer given before: the CDN while it revalidates, or the KV copy
\* when catalog-svc cannot be reached.
KeptAnswer ==
    /\ call.stage = "asked"
    /\ <<call.page, call.lang>> \in DOMAIN kept
    /\ Answered(kept[<<call.page, call.lang>>])
    /\ UNCHANGED kept

\* A 5xx of catalog-svc, or no answer and no copy: the route answers 503
\* with a JSON body that has no products, and the grid reads data.products.
EmptyAnswer ==
    /\ call.stage = "asked"
    /\ Answered(<<>>)
    /\ UNCHANGED kept

\* Mutant: no finally: the reference stays set.
RefStaysSet ==
    /\ loading' = loading
    /\ call' = Idle

\* finally: loadingRef and the spinner.
Finish ==
    /\ loading' = FALSE
    /\ call' = Idle

\* fetch or res.json() throws.
LoadFailed ==
    /\ call.stage = "asked"
    /\ failed' = TRUE
    /\ Finish
    /\ UNCHANGED <<server, language, mounted, next, shown, asks, feedCache,
                   clicks>>

RowsDone == Len(next.products) - call.before
RowEnd == RowsDone + call.cols

\* Mutant: loadingRef is released with the first row.
RowReleases ==
    /\ call.stage = "rows"
    /\ RowEnd < Len(call.coming)
    /\ next' = [next EXCEPT
                  !.products = @ \o SubSeq(call.coming, RowsDone + 1, RowEnd)]
    /\ loading' = FALSE
    /\ UNCHANGED <<server, language, mounted, shown, asks, failed, call,
                   feedCache, clicks>>

\* The images of a row are there, or were waited for long enough.
ShowRow ==
    /\ call.stage = "rows"
    /\ RowEnd < Len(call.coming)
    /\ next' = [next EXCEPT
                  !.products = @ \o SubSeq(call.coming, RowsDone + 1, RowEnd)]
    /\ UNCHANGED <<server, language, mounted, shown, asks, loading, failed,
                   call, feedCache, clicks>>

\* Mutant: the whole list is rearranged when a page is complete.
ListRearranged ==
    /\ call.stage = "rows"
    /\ RowEnd >= Len(call.coming)
    /\ next' = [products |-> declusterNewBatch(<<>>,
                   next.products \o
                     SubSeq(call.coming, RowsDone + 1, Len(call.coming))),
                page |-> call.page,
                hasMore |-> next.hasMore /\ call.full]
    /\ Finish
    /\ UNCHANGED <<server, language, mounted, shown, asks, failed, feedCache,
                   clicks>>

\* With the last row the page is done; a short page is the end of the list.
ShowLastRow ==
    /\ call.stage = "rows"
    /\ RowEnd >= Len(call.coming)
    /\ next' = [products |-> next.products \o
                   SubSeq(call.coming, RowsDone + 1, Len(call.coming)),
                page |-> call.page,
                hasMore |-> next.hasMore /\ call.full]
    /\ Finish
    /\ UNCHANGED <<server, language, mounted, shown, asks, failed, feedCache,
                   clicks>>

\* feedCache.set and feedCache.get under the language of the moment.
Keep(lang, list) ==
    [l \in DOMAIN feedCache \cup {lang} |->
       IF l = lang THEN list ELSE feedCache[l]]

Cached == IF language \in DOMAIN feedCache THEN feedCache[language] ELSE Start

\* Mutant: the effect that writes feedCache depends on the page only.
RenderCachesPages ==
    /\ mounted
    /\ Behind \/ shown.lang # language
    /\ shown' = Rendered(next, language)
    /\ asks' = IF Behind THEN language ELSE asks
    /\ feedCache' = IF next.page = shown.page /\ shown.lang = language
                    THEN feedCache
                    ELSE Keep(language, next)
    /\ UNCHANGED <<server, language, mounted, next, loading, failed, call,
                   clicks>>

\* React renders the grid; its effects write feedCache under the language of
\* the moment.  loadNextPage is made anew when the page, hasMore or the
\* products changed: a change of language alone leaves the old one.
Render ==
    /\ mounted
    /\ Behind \/ shown.lang # language
    /\ shown' = Rendered(next, language)
    /\ asks' = IF Behind THEN language ELSE asks
    /\ feedCache' = Keep(language, next)
    /\ UNCHANGED <<server, language, mounted, next, loading, failed, call,
                   clicks>>
-----------------------------------------------------------------------------
(* The customer. *)

Click ==
    /\ clicks < MaxClicks
    /\ clicks' = clicks + 1

\* A product is opened: the grid is unmounted, and what its setters were
\* given since the last rendering is lost with the call that runs.
Leave ==
    /\ mounted
    /\ Click
    /\ mounted' = FALSE
    /\ next' = ListOf(shown)
    /\ failed' = FALSE
    /\ Finish
    /\ UNCHANGED <<server, language, shown, asks, feedCache>>

\* The home page is opened again: the grid starts from feedCache.
Return ==
    /\ ~mounted
    /\ Click
    /\ mounted' = TRUE
    /\ next' = Cached
    /\ shown' = Rendered(Cached, language)
    /\ feedCache' = Keep(language, Cached)
    /\ asks' = language
    /\ UNCHANGED <<server, language, loading, failed, call>>

\* On the home page the grid stays mounted: only its prop changes.  While the
\* grid is away, this stands for going back to a home entry whose address has
\* the other language.
handleLanguageChange(lang) ==
    /\ lang # language
    /\ Click
    /\ language' = lang
    /\ UNCHANGED <<server, mounted, grid, feedCache>>
-----------------------------------------------------------------------------
FeedInit ==
    /\ active = Products
    /\ kept = <<>>
    /\ language \in Langs
    /\ mounted = TRUE
    /\ next = Start
    /\ shown = Rendered(Start, language)
    /\ asks = language
    /\ loading = FALSE
    /\ failed = FALSE
    /\ call = Idle
    /\ feedCache = [l \in {language} |-> Start]
    /\ clicks = 0
    /\ edits = 0

FeedNext ==
    \/ \E p \in Products : Edit(p)
    \/ \E page \in 1 .. MaxPage, lang \in Langs : OtherVisitor(page, lang)
    \/ LoadNextPage \/ FreshAnswer \/ KeptAnswer \/ EmptyAnswer \/ LoadFailed
    \/ ShowRow \/ ShowLastRow \/ Render
    \/ Leave \/ Return
    \/ \E lang \in Langs : handleLanguageChange(lang)

FeedSpec == FeedInit /\ [][FeedNext]_feedVars

\* The browser renders and shows the rows it has; the customer scrolls on and
\* retries; catalog-svc is not down, nor the network, every time.
FairFeed ==
    /\ FeedSpec
    /\ WF_feedVars(Render)
    /\ WF_feedVars(LoadNextPage)
    /\ WF_feedVars(ShowRow \/ ShowLastRow)
    /\ SF_feedVars(FreshAnswer)
-----------------------------------------------------------------------------
(* Properties. *)

Lists == [products : Seq(Products), page : Nat, hasMore : BOOLEAN]

Calls ==
    {Idle}
    \cup [stage : {"asked"}, page : Nat \ {0}, lang : Langs,
          tail : Seq(Products), early : BOOLEAN]
    \cup [stage : {"rows"}, page : Nat \ {0}, early : BOOLEAN,
          coming : Seq(Products), before : Nat, full : BOOLEAN, cols : Columns]

\* Type invariant; a load runs exactly while loadingRef is set, only in a
\* mounted grid, and what is rendered is never ahead of the setters.
FeedTypeOK ==
    /\ active \subseteq Products
    /\ \A k \in DOMAIN kept : kept[k] \in Seq(Products)
    /\ language \in Langs /\ asks \in Langs
    /\ mounted \in BOOLEAN /\ failed \in BOOLEAN
    /\ next \in Lists
    /\ ListOf(shown) \in Lists /\ shown.lang \in Langs
    /\ call \in Calls
    /\ loading = (call # Idle)
    /\ loading => mounted
    /\ IsPrefix(shown.products, next.products)
    /\ DOMAIN feedCache \subseteq Langs
    /\ \A l \in DOMAIN feedCache : feedCache[l] \in Lists

\* Cards already on the screen are never moved or taken away while the grid
\* stays: new ones only come after them (InfiniteProductFeed.tsx:19-22).
NeverReordered ==
    [][mounted /\ mounted' => IsPrefix(shown.products, shown'.products)]_feedVars

\* Wherever three cards of one shop follow each other, on the screen or in
\* the rows to come, the rest of the page has no card of another shop that
\* could have come between: also where two pages meet, unless the page was
\* asked for in the moment before a rendering.
SpreadOut ==
    call.stage = "rows" /\ ~call.early =>
      LET head == Tail2(SubSeq(next.products, 1, call.before))
          row == head \o call.coming
          shop(k) == vendorOf[row[k]]
      IN  \A k \in (Len(head) + 1) .. Len(row) :
            Crowded(SubSeq(row, 1, k - 1), shop(k)) =>
              \A j \in (k + 1) .. Len(row) : shop(j) \in {shop(k), NoVendor}

\* Coming back from a product in the language it was opened in, the customer
\* finds the grid as it was left, down to the last row that was rendered
\* (InfiniteProductFeed.tsx:97-109).
RestoredAsLeft ==
    [][~mounted /\ mounted' /\ language = shown.lang
         => ListOf(shown') = ListOf(shown)]_feedVars

\* A customer who stays and scrolls reaches the end of the grid.
EndIsReached == mounted ~> ~mounted \/ ~shown.hasMore

\* "La langue fait partie de la clé de cache : sans ça, basculer FR/EN sur le
\* même feed ('home') mélangerait des produits des deux langues dans la même
\* liste" (InfiniteProductFeed.tsx:129-131): no cached list has both.
OneLanguage ==
    \A l \in DOMAIN feedCache :
      \A k \in DOMAIN feedCache[l].products :
        langOf[feedCache[l].products[k]] = l
=============================================================================
