----------------------------- MODULE Navigation -----------------------------
(***************************************************************************)
(* Which page the storefront shows (MiadMarketClient.tsx): the view and    *)
(* the selected product or shop in React, the entries of the browser's     *)
(* history, and navStack, the pages to come back to.                       *)
(*                                                                         *)
(* A click changes the view at once and asks the router for a new entry,   *)
(* which exists when its answer is there (RouterDone); an effect compares  *)
(* the address with what is selected and fetches what is missing; another  *)
(* effect leaves a page that has nothing to show.  The back and forward    *)
(* buttons both pop navStack.                                              *)
(***************************************************************************)
EXTENDS Integers, SequencesExt

CONSTANTS
    Items,          \* products and shops that have an address, /?v=..&slug=..
    kindOf,         \* the view that shows each: "product" or "store"
    InMemory,       \* those in allProducts or stores once SWR has loaded them
    Missable,       \* those a fetch may end without: gone, or the API failed
    Pages,          \* views without an address: cart, category, dashboards
    None,
    MaxClicks       \* bound: what the customer does

Kinds == {"product", "store"}
Home == "/"
Addresses == {Home} \cup Items

ASSUME NavigationAssumption ==
    /\ kindOf \in [Items -> Kinds]
    /\ InMemory \subseteq Items /\ Missable \subseteq Items
    /\ Home \notin Items /\ None \notin Items
    /\ Pages \cap (Kinds \cup {"home"}) = {}
    /\ MaxClicks \in Nat

VARIABLES
    hist, at,       \* the history entries and the one the address bar shows
    routing,        \* the router.push or router.replace that is not done
    view, selected, \* currentView; selectedProduct and selectedVendor
    navStack,       \* snapshots of the pages that were left
    known,          \* what allProducts and stores hold
    urlFetch,       \* urlFetchInFlightRef
    fetchPending,   \* pendingProductFetch and pendingVendorFetch
    settled,        \* productFetchSettled and vendorFetchSettled
    settledMoved,   \* ... one of them changed
    fetches,        \* fetches of the address effect, per item
    forced,         \* the item the direct-link effect fetches
    aborted,        \* its fetches whose end has not been noticed
    urlMoved,       \* deps of the address effect changed
    forcedMoved,    \* ... of the direct-link effect
    guardMoved,     \* ... of the effect against endless skeletons
    clicks

page == <<view, selected>>
moved == <<urlMoved, forcedMoved, guardMoved>>
history == <<hist, at>>
fetching == <<urlFetch, fetchPending, settled, settledMoved, fetches, forced,
              aborted>>
navVars == <<history, routing, page, navStack, known, fetching, moved, clicks>>

address == hist[at]
Views == {"home"} \cup Kinds \cup Pages
Selections == [Kinds -> Items \cup {None}]
NoRoute == [op |-> "none"]
-----------------------------------------------------------------------------
(* Setting the state. *)

\* The selection changes for the kind of item that the address names.
Reselected(sel) ==
    /\ address \in Items
    /\ sel[kindOf[address]] # selected[kindOf[address]]

\* setCurrentView and setSelected..., with what their effects depend on;
\* `readdressed` tells that searchParams changed as well.
Show(v, sel, readdressed) ==
    /\ view' = v
    /\ selected' = sel
    /\ urlMoved' = (urlMoved \/ readdressed \/ v # view \/ sel # selected)
    /\ forcedMoved' = (forcedMoved \/ readdressed \/ Reselected(sel))
    /\ guardMoved' = (guardMoved \/ v # view \/ sel # selected)

\* React has run the effects of a rendering before it renders again.
Rendered == ~urlMoved /\ ~forcedMoved /\ ~guardMoved /\ ~settledMoved

Click ==
    /\ Rendered
    /\ clicks < MaxClicks
    /\ clicks' = clicks + 1

\* Mutant: the selection is left out of the snapshot.
ViewOnly == [view |-> view]

\* A page to come back to.
Snapshot == [view |-> view, selected |-> selected]

\* A new entry behind the current one; those ahead of it are gone.
NewEntry(url) ==
    /\ hist' = Append(SubSeq(hist, 1, at), url)
    /\ at' = at + 1

\* router.push: a navigation that is not done is given up for this one.
RouterPush(url) ==
    /\ routing' = [op |-> "push", url |-> url]
    /\ UNCHANGED history

\* history.pushState of the current address: the entry is there at once, and
\* gives up a navigation that is not done as well.
PushState ==
    /\ NewEntry(address)
    /\ routing' = NoRoute

\* The router has its answer: the address changes.  A push of the address
\* that is there adds no entry.
RouterDone ==
    /\ Rendered
    /\ routing # NoRoute
    /\ routing' = NoRoute
    /\ IF routing.url = address
       THEN UNCHANGED history
       ELSE IF routing.op = "push"
            THEN NewEntry(routing.url)
            ELSE hist' = [hist EXCEPT ![at] = routing.url] /\ UNCHANGED at
    /\ Show(view, selected, routing.url # address)
    /\ UNCHANGED <<navStack, known, fetching, clicks>>
-----------------------------------------------------------------------------
(* Going somewhere. *)

\* navigateTo, called with the selection that its caller has set.
navigateTo(v, sel, url) ==
    /\ Show(v, sel, FALSE)
    /\ IF v = view
       THEN UNCHANGED <<navStack, history, routing>>
       ELSE /\ navStack' = Append(navStack, Snapshot)
            /\ IF url # address THEN RouterPush(url) ELSE PushState

\* From one product to another, or from a shop to any shop.
Replaced(v, sel, url) ==
    /\ Show(v, sel, FALSE)
    /\ navStack' = Append(navStack, Snapshot)
    /\ RouterPush(url)

handleProductClick(i) ==
    /\ kindOf[i] = "product"
    /\ Click
    /\ LET sel == [selected EXCEPT !["product"] = i]
       IN  IF view = "product" /\ sel # selected
           THEN Replaced("product", sel, i)
           ELSE navigateTo("product", sel, i)
    /\ UNCHANGED <<known, fetching>>

handleVendorClick(i) ==
    /\ kindOf[i] = "store"
    /\ Click
    /\ LET sel == [selected EXCEPT !["store"] = i]
       IN  IF view = "store"
           THEN Replaced("store", sel, i)
           ELSE navigateTo("store", sel, i)
    /\ UNCHANGED <<known, fetching>>

\* The cart, a category, a dashboard...: no address of their own.
OpenPage(p) ==
    /\ p # view
    /\ Click
    /\ navigateTo(p, selected, address)
    /\ UNCHANGED <<known, fetching>>

onHomeClick ==
    /\ view # "home"
    /\ Click
    /\ navigateTo("home", selected, Home)
    /\ UNCHANGED <<known, fetching>>

\* The pages before a paid order cannot be come back to.
onOrderComplete(p) ==
    /\ view \in Pages \ {p}
    /\ Click
    /\ Show(p, selected, FALSE)
    /\ navStack' = <<Snapshot>>
    /\ PushState
    /\ UNCHANGED <<known, fetching>>
-----------------------------------------------------------------------------
(* Coming back. *)

\* popstate: the router follows the browser in the same rendering.  With an
\* empty stack the address decides, through its effect.
handlePopState(to) ==
    /\ at' = to
    /\ UNCHANGED hist
    /\ LET readdressed == hist[to] # address
       IN  \/ /\ navStack # <<>>
              /\ navStack' = Front(navStack)
              /\ Show(Last(navStack).view, Last(navStack).selected, readdressed)
              /\ routing' = NoRoute
           \/ /\ navStack = <<>>
              /\ hist[to] \in Items
              /\ Show(view, selected, readdressed)
              /\ routing' = [op |-> "replace", url |-> hist[to]]
              /\ UNCHANGED navStack
           \/ /\ navStack = <<>>
              /\ hist[to] = Home
              /\ Show("home", selected, readdressed)
              /\ routing' = NoRoute
              /\ UNCHANGED navStack

\* The back button of the browser, or that of the page when navStack is not
\* empty.  Behind the first entry is another site.
Back ==
    /\ at > 1
    /\ Click
    /\ handlePopState(at - 1)
    /\ UNCHANGED <<known, fetching>>

Forward ==
    /\ at < Len(hist)
    /\ Click
    /\ handlePopState(at + 1)
    /\ UNCHANGED <<known, fetching>>

\* The back button of the page, with nothing to come back to.
navigateBack ==
    /\ navStack = <<>>
    /\ view # "home"
    /\ Click
    /\ Show("home", selected, FALSE)
    /\ UNCHANGED <<history, routing, navStack, known, fetching>>
-----------------------------------------------------------------------------
(* The effects of a rendering and the fetches they start. *)

\* SWR has the first products and shops.
Loaded ==
    /\ Rendered
    /\ known # InMemory
    /\ known' = InMemory
    /\ urlMoved' = TRUE
    /\ UNCHANGED <<history, routing, page, navStack, fetching, forcedMoved,
                   guardMoved, clicks>>

\* The item the address names, when it is not the one selected.
Missing == address \in Items /\ selected[kindOf[address]] # address

\* Mutant: the guard outlives the address it was set for.
NotReleased == urlFetch

\* The guard against refetching lasts as long as the address names the item.
Released == IF urlFetch = address THEN urlFetch ELSE None

Found == urlMoved /\ Missing /\ address \in known
Asks == urlMoved /\ Missing /\ address \notin known /\ Released = None

\* What the direct-link effect wants to be fetching.
Wanted == IF address \in Items /\ selected[kindOf[address]] = None
          THEN address ELSE None

\* It aborts its fetch when its deps change.
ForcedEffect ==
    IF forcedMoved /\ Wanted # forced
    THEN /\ forced' = Wanted
         /\ aborted' = IF forced = None THEN aborted
                       ELSE aborted \cup {kindOf[forced]}
    ELSE UNCHANGED <<forced, aborted>>

OnSkeleton == view \in Kinds /\ selected[view] = None

\* Mutant: the view is left out of the effect's deps.
SkeletonSettled ==
    /\ settledMoved
    /\ OnSkeleton
    /\ ~fetchPending'[view]

\* Nothing to show and nothing on its way.
Skeleton ==
    /\ guardMoved \/ settledMoved
    /\ OnSkeleton
    /\ ~fetchPending'[view]

\* The effects of one rendering, in their order; each sees the rendered
\* state, but the references as the effects before it left them.
RunEffects ==
    /\ urlMoved \/ forcedMoved \/ guardMoved \/ settledMoved
    /\ ForcedEffect
    /\ urlFetch' = IF ~urlMoved THEN urlFetch
                   ELSE IF Asks THEN address
                   ELSE IF Missing /\ ~Found THEN Released ELSE None
    /\ fetches' = IF Asks THEN [fetches EXCEPT ![address] = @ + 1] ELSE fetches
    /\ fetchPending' = IF Asks
                       THEN [fetchPending EXCEPT ![kindOf[address]] = TRUE]
                       ELSE fetchPending
    /\ selected' = IF Found THEN [selected EXCEPT ![kindOf[address]] = address]
                   ELSE selected
    /\ view' = IF Skeleton THEN "home"
               ELSE IF Found THEN kindOf[address] ELSE view
    /\ urlMoved' = (page' # page)
    /\ forcedMoved' = (selected' # selected)
    /\ guardMoved' = (page' # page)
    /\ settledMoved' = FALSE
    /\ UNCHANGED <<history, routing, navStack, known, settled, clicks>>

\* The `finally` of a fetch.
Settle(k, s) ==
    /\ fetchPending' = [fetchPending EXCEPT ![k] = FALSE]
    /\ settled' = [settled EXCEPT ![k] = s]
    /\ settledMoved' = (settledMoved \/ s # settled[k])

\* A fetch of the address effect finds its item.  The searchParams it tests
\* are those the effect closed over: they always name the item.
UrlFetched(i) ==
    /\ urlFetch' = None
    /\ Show(kindOf[i], [selected EXCEPT ![kindOf[i]] = i], FALSE)
    /\ UNCHANGED routing

\* It does not, or fails.
UrlNotFound(i) ==
    /\ i \in Missable
    /\ Show("home", [selected EXCEPT ![kindOf[i]] = None], FALSE)
    /\ routing' = [op |-> "replace", url |-> Home]
    /\ UNCHANGED urlFetch

UrlAnswer(i) ==
    /\ Rendered
    /\ fetches[i] > 0
    /\ fetches' = [fetches EXCEPT ![i] = @ - 1]
    /\ UrlFetched(i) \/ UrlNotFound(i)
    /\ Settle(kindOf[i], ~settled[kindOf[i]])
    /\ UNCHANGED <<history, navStack, known, forced, aborted, clicks>>

\* The fetch of the direct-link effect ends.
ForcedAnswer ==
    /\ Rendered
    /\ forced # None
    /\ forced' = None
    /\ \/ Show(view, [selected EXCEPT ![kindOf[forced]] = forced], FALSE)
       \/ forced \in Missable /\ Show(view, selected, FALSE)
    /\ Settle(kindOf[forced], TRUE)
    /\ UNCHANGED <<history, routing, navStack, known, urlFetch, fetches,
                   aborted, clicks>>

Aborted(k) ==
    /\ Rendered
    /\ k \in aborted
    /\ aborted' = aborted \ {k}
    /\ Settle(k, TRUE)
    /\ UNCHANGED <<history, routing, page, navStack, known, urlFetch, fetches,
                   forced, moved, clicks>>
-----------------------------------------------------------------------------
\* A direct link, or the home page with the view the tab had last.
NavInit ==
    /\ \E u \in Addresses : hist = <<u>>
    /\ at = 1
    /\ routing = NoRoute
    /\ IF address \in Items THEN view = kindOf[address]
       ELSE view \in {"home"} \cup Pages
    /\ selected = [k \in Kinds |-> None]
    /\ navStack = <<>>
    /\ known = {}
    /\ urlFetch = None
    /\ fetchPending =
         [k \in Kinds |-> address \in Items /\ kindOf[address] = k]
    /\ settled = [k \in Kinds |-> FALSE]
    /\ settledMoved = FALSE
    /\ fetches = [i \in Items |-> 0]
    /\ forced = None
    /\ aborted = {}
    /\ urlMoved = TRUE /\ forcedMoved = TRUE /\ guardMoved = TRUE
    /\ clicks = 0

NavNext ==
    \/ RunEffects \/ RouterDone \/ Loaded \/ ForcedAnswer
    \/ \E i \in Items : UrlAnswer(i)
    \/ \E k \in Kinds : Aborted(k)
    \/ \E i \in Items : handleProductClick(i) \/ handleVendorClick(i)
    \/ \E p \in Pages : OpenPage(p) \/ onOrderComplete(p)
    \/ onHomeClick \/ navigateBack \/ Back \/ Forward

NavSpec == NavInit /\ [][NavNext]_navVars

\* React runs its effects, the router ends its navigations and every fetch
\* ends, with an item, without one, or with an error.
FairNav ==
    /\ NavSpec
    /\ WF_navVars(RunEffects)
    /\ WF_navVars(RouterDone)
    /\ WF_navVars(ForcedAnswer)
    /\ \A i \in Items : WF_navVars(UrlAnswer(i))
    /\ \A k \in Kinds : WF_navVars(Aborted(k))
-----------------------------------------------------------------------------
(* Properties. *)

NavTypeOK ==
    /\ hist \in Seq(Addresses) /\ at \in DOMAIN hist
    /\ routing \in {NoRoute} \cup [op : {"push", "replace"}, url : Addresses]
    /\ view \in Views /\ selected \in Selections
    /\ navStack \in Seq([view : Views, selected : Selections])
    /\ known \in {{}, InMemory}
    /\ urlFetch \in Items \cup {None}
    /\ fetchPending \in [Kinds -> BOOLEAN]
    /\ settled \in [Kinds -> BOOLEAN]
    /\ fetches \in [Items -> Nat]
    /\ forced \in Items \cup {None}
    /\ aborted \subseteq Kinds

\* Once React has rendered, what the address names is what is selected, unless
\* it is being fetched or cannot be had: no page is left for good under the
\* address of another product or shop, whatever answers came late.
NamedIsShown ==
    Rendered /\ address \in Items \ Missable =>
        selected[kindOf[address]] = address \/ fetches[address] > 0

\* A product or shop page without a product or shop gets one or is left, also
\* when two fetches share the flag that keeps the page open.
NoEndlessSkeleton == OnSkeleton ~> ~OnSkeleton

\* MiadMarketClient.tsx:1462, "URL déjà changée": a fetch that ends when the
\* address names something else changes nothing of the page.
LateAnswerIgnored ==
    [][\A i \in Items :
         fetches'[i] < fetches[i] /\ address # i => UNCHANGED page]_navVars
=============================================================================
