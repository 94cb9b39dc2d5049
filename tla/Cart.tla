-------------------------------- MODULE Cart --------------------------------
(***************************************************************************)
(* The cart of the storefront (MiadMarketClient.tsx, cart-store.ts,        *)
(* api/cart): one copy in the memory of every tab, one in localStorage,    *)
(* which the tabs of a browser share, and one per account in catalog-svc.  *)
(*                                                                         *)
(* A handler changes the copy of its tab at once; React runs the effects   *)
(* of the change later (RunEffects): they write localStorage, which tells  *)
(* the other tabs, and send the lines to the server without waiting for an *)
(* answer.  A cart is a function from lines to quantities, 0 for a line    *)
(* that is not there; a line is a product with one of its variations.      *)
(***************************************************************************)
EXTENDS Integers, FiniteSets

CONSTANTS
    Tabs,           \* tabs of one browser
    Lines,          \* cart keys, "productId" or "productId-variationId"
    productOf,      \* the product of each line
    Accounts,
    Nobody,         \* no miad_token
    Unread,         \* GET /api/cart sent, catalog-svc not asked yet
    Baskets,        \* carts of earlier orders and of shared links
    MaxQty,         \* bound: units of one line
    MaxClicks       \* bound: actions of the customer

Carts == [Lines -> 0 .. MaxQty]

ASSUME CartAssumption ==
    /\ Nobody \notin Accounts
    /\ Unread \notin Carts
    /\ Baskets \subseteq Carts
    /\ MaxQty \in Nat
    /\ MaxClicks \in Nat

VARIABLES
    stored,         \* localStorage.miad_cart
    token,          \* localStorage.miad_token
    open,           \* tabs that show MiadMarketClient
    cart,           \* its state: cart ...
    signedIn,       \* ... and isLoggedIn
    cartMoved,      \* the effects of a setCart have not run
    loginMoved,     \* the effects of a setIsLoggedIn have not run
    synced,         \* cartSyncedRef
    prevKeys,       \* prevCartKeysRef
    events,         \* 'storage' events a tab has not handled
    requests,       \* PUT and DELETE /api/cart/{id} in flight
    answers,        \* GET /api/cart in flight
    server,         \* cart_items of catalog-svc
    asked,          \* history: the most the customer asked of a line
    dropped,        \* history: lines the customer removed or paid
    clicks          \* counts what the customer did

tabVars == <<open, cart, signedIn, cartMoved, loginMoved, synced, prevKeys>>
netVars == <<requests, answers, server>>
cartVars == <<stored, token, tabVars, events, netVars, asked, dropped, clicks>>

Empty == [l \in Lines |-> 0]
Keys(c) == {l \in Lines : c[l] > 0}
SameProduct(l) == {k \in Lines : productOf[k] = productOf[l]}

Request == [op : {"put", "delete"}, account : Accounts, line : Lines,
            qty : 0 .. MaxQty]
Answer == [tab : Tabs, account : Accounts, lines : Carts \cup {Unread}]

CartTypeOK ==
    /\ stored \in Carts
    /\ token \in Accounts \cup {Nobody}
    /\ open \in [Tabs -> BOOLEAN]
    /\ cart \in [Tabs -> Carts]
    /\ signedIn \in [Tabs -> BOOLEAN]
    /\ cartMoved \in [Tabs -> BOOLEAN]
    /\ loginMoved \in [Tabs -> BOOLEAN]
    /\ synced \in [Tabs -> BOOLEAN]
    /\ prevKeys \in [Tabs -> SUBSET Lines]
    /\ events \in [Tabs -> Nat]
    /\ requests \subseteq Request
    /\ answers \subseteq Answer
    /\ server \in [Accounts -> Carts]
    /\ asked \in Carts
    /\ dropped \subseteq Lines
    /\ clicks \in 0 .. MaxClicks

\* Some tabs may be open already, with nothing in the cart.
CartInit ==
    /\ stored = Empty
    /\ token = Nobody
    /\ open \in [Tabs -> BOOLEAN]
    /\ cart = [t \in Tabs |-> Empty]
    /\ signedIn = [t \in Tabs |-> FALSE]
    /\ cartMoved = [t \in Tabs |-> FALSE]
    /\ loginMoved = [t \in Tabs |-> FALSE]
    /\ synced = [t \in Tabs |-> FALSE]
    /\ prevKeys = [t \in Tabs |-> {}]
    /\ events = [t \in Tabs |-> 0]
    /\ requests = {}
    /\ answers = {}
    /\ server = [a \in Accounts |-> Empty]
    /\ asked = Empty
    /\ dropped = {}
    /\ clicks = 0

-----------------------------------------------------------------------------
(* Helpers.                                                                *)

\* The larger quantity of each line.
Larger(c, d) == [l \in Lines |-> IF c[l] > d[l] THEN c[l] ELSE d[l]]

\* The customer wants c, and does not want the lines D any more.
Wants(c, D) ==
    /\ clicks < MaxClicks
    /\ clicks' = clicks + 1
    /\ asked' = Larger(asked, c)
    /\ dropped' = dropped \cup D

\* The browser tells the other tabs, not the one that wrote.
Tell(t) == events' = [u \in Tabs |-> IF u # t /\ open[u] THEN events[u] + 1
                                     ELSE events[u]]

\* Mutant: a write the other tabs do not hear of.
StoreQuietly(t, c) == stored' = c /\ UNCHANGED events

\* localStorage.setItem: an event goes out only if the value changes.
Store(t, c) ==
    /\ stored' = c
    /\ IF c = stored THEN UNCHANGED events ELSE Tell(t)

\* setCart: the new value is there at once, its effects are not.
setCart(t, c) ==
    /\ cart' = [cart EXCEPT ![t] = c]
    /\ cartMoved' = [cartMoved EXCEPT ![t] = TRUE]

-----------------------------------------------------------------------------
(* What the customer does.                                                 *)

\* The tab mounts MiadMarketClient.  One flush runs the effects of the first
\* render: the cart is read, the session restored, and the effect that
\* persists the cart, still the empty one of the first render, overwrites
\* what was read.  The saved cart is rendered next.
OpenTab(t) ==
    /\ ~open[t]
    /\ open' = [open EXCEPT ![t] = TRUE]
    /\ setCart(t, stored)
    /\ Store(t, Empty)
    /\ signedIn' = [signedIn EXCEPT ![t] = token # Nobody]
    /\ loginMoved' = [loginMoved EXCEPT ![t] = token # Nobody]
    /\ Wants(Empty, {})
    /\ UNCHANGED <<token, synced, prevKeys, netVars>>

\* The tab is closed, reloaded or leaves for another page: its state, its
\* refs and the answers it waits for are gone.
CloseTab(t) ==
    /\ open[t]
    /\ open' = [open EXCEPT ![t] = FALSE]
    /\ cart' = [cart EXCEPT ![t] = Empty]
    /\ cartMoved' = [cartMoved EXCEPT ![t] = FALSE]
    /\ signedIn' = [signedIn EXCEPT ![t] = FALSE]
    /\ loginMoved' = [loginMoved EXCEPT ![t] = FALSE]
    /\ synced' = [synced EXCEPT ![t] = FALSE]
    /\ prevKeys' = [prevKeys EXCEPT ![t] = {}]
    /\ events' = [events EXCEPT ![t] = 0]
    /\ answers' = {f \in answers : f.tab # t}
    /\ Wants(Empty, {})
    /\ UNCHANGED <<stored, token, requests, server>>

\* A handler of an open tab that only calls setCart.
Handler(t, c, D) ==
    /\ open[t]
    /\ setCart(t, c)
    /\ UNCHANGED <<stored, token, open, signedIn, loginMoved, synced, prevKeys,
                   events, netVars>>

addToCart(t, l) ==
    /\ cart[t][l] < MaxQty
    /\ LET c == [cart[t] EXCEPT ![l] = @ + 1]
       IN Handler(t, c, {}) /\ Wants(c, {})

\* The page of the cart knows products, not lines: the new quantity goes to
\* every variation of the product, and zero removes them all.
updateCartQuantity(t, l, q) ==
    LET lines == SameProduct(l) \cap Keys(cart[t])
        c == [k \in Lines |-> IF k \in lines THEN q ELSE cart[t][k]]
    IN /\ l \in Keys(cart[t])
       /\ Handler(t, c, {})
       /\ Wants(c, IF q = 0 THEN lines ELSE {})

removeFromCart(t, l) == updateCartQuantity(t, l, 0)

\* handleReorder, and the restoration of a shared cart: the cart is replaced.
ReplaceCart(t, c) ==
    /\ Handler(t, c, {})
    /\ Wants(c, Keys(cart[t]) \ Keys(c))

\* addItemToCart of lib/cart-store.ts, from a section of the home page that
\* is mounted apart or, in a tab that is not open here, from the page of a
\* product.  It works on localStorage; an open tab then reloads it.
addItemToCart(t, l) ==
    LET c == [stored EXCEPT ![l] = @ + 1]
    IN /\ stored[l] < MaxQty
       /\ Store(t, c)
       /\ IF open[t] THEN setCart(t, c) ELSE UNCHANGED <<cart, cartMoved>>
       /\ Wants(c, {})
       /\ UNCHANGED <<token, open, signedIn, loginMoved, synced, prevKeys,
                      netVars>>

\* LoginPage stores the token and calls handleLoginSuccess.
handleLoginSuccess(t, a) ==
    /\ open[t] /\ ~signedIn[t]
    /\ token' = a
    /\ Tell(t)
    /\ signedIn' = [signedIn EXCEPT ![t] = TRUE]
    /\ loginMoved' = [loginMoved EXCEPT ![t] = TRUE]
    /\ Wants(Empty, {})
    /\ UNCHANGED <<stored, open, cart, cartMoved, synced, prevKeys, netVars>>

\* By choice, or since a request was answered 401.  The refs stay as they are.
handleLogout(t) ==
    /\ open[t] /\ signedIn[t]
    /\ token' = Nobody
    /\ stored' = Empty
    /\ Tell(t)
    /\ setCart(t, Empty)
    /\ signedIn' = [signedIn EXCEPT ![t] = FALSE]
    /\ loginMoved' = [loginMoved EXCEPT ![t] = TRUE]
    /\ Wants(Empty, {})
    /\ UNCHANGED <<open, synced, prevKeys, netVars>>

\* The checkout of this tab succeeded.
onOrderComplete(t) ==
    /\ Handler(t, Empty, {})
    /\ Wants(Empty, Keys(cart[t]))

\* The page order-received, in a tab that shows it, saw the order paid.
OrderReceived(t) ==
    /\ ~open[t]
    /\ Store(t, Empty)
    /\ Wants(Empty, Keys(stored))
    /\ UNCHANGED <<token, tabVars, netVars>>

\* Another browser of the customer changes the account's cart.
OtherDevice(a, l, q) ==
    /\ server' = [server EXCEPT ![a][l] = q]
    /\ Wants([Empty EXCEPT ![l] = q], IF q = 0 THEN {l} ELSE {})
    /\ UNCHANGED <<stored, token, tabVars, events, requests, answers>>

-----------------------------------------------------------------------------
(* What the browser does by itself.                                        *)

\* Live: the tab believes it is signed in, and a token is there.
Live(t) == signedIn[t] /\ token # Nobody

FetchCart(t) ==
    answers' = IF loginMoved[t] /\ Live(t)
               THEN answers \cup {[tab |-> t, account |-> token,
                                   lines |-> Unread]}
               ELSE answers

Put(l, q) == [op |-> "put", account |-> token, line |-> l, qty |-> q]
Delete(l) == [op |-> "delete", account |-> token, line |-> l, qty |-> 0]

\* Every line of the cart is sent; what was there the last time and is not
\* any more is deleted.  The first pass of a mount is skipped.
SyncCart(t) ==
    IF ~Live(t) THEN UNCHANGED <<requests, synced, prevKeys>>
    ELSE /\ synced' = [synced EXCEPT ![t] = TRUE]
         /\ IF ~synced[t] THEN UNCHANGED <<requests, prevKeys>>
            ELSE /\ requests' = requests
                        \cup {Put(l, cart[t][l]) : l \in Keys(cart[t])}
                        \cup {Delete(l) : l \in prevKeys[t] \ Keys(cart[t])}
                 /\ prevKeys' = [prevKeys EXCEPT ![t] = Keys(cart[t])]

PersistCart(t) ==
    IF cartMoved[t] THEN Store(t, cart[t]) ELSE UNCHANGED <<stored, events>>

\* React runs the effects of the last render.
RunEffects(t) ==
    /\ cartMoved[t] \/ loginMoved[t]
    /\ FetchCart(t)
    /\ SyncCart(t)
    /\ PersistCart(t)
    /\ cartMoved' = [cartMoved EXCEPT ![t] = FALSE]
    /\ loginMoved' = [loginMoved EXCEPT ![t] = FALSE]
    /\ UNCHANGED <<token, open, cart, signedIn, server, asked, dropped, clicks>>

\* reload, on a 'storage' event of any key: the cart is read again, whatever
\* the tab had not persisted yet.
Reload(t) ==
    /\ events[t] > 0
    /\ events' = [events EXCEPT ![t] = @ - 1]
    /\ setCart(t, stored)
    /\ UNCHANGED <<stored, token, open, signedIn, loginMoved, synced, prevKeys,
                   netVars, asked, dropped, clicks>>

-----------------------------------------------------------------------------
(* The network and catalog-svc.  Requests are independent: they arrive in  *)
(* any order, or never.                                                    *)

\* Mutant: an upsert that adds to the quantity that is there.
AddedTo(old, q) == IF old + q > MaxQty THEN MaxQty ELSE old + q

\* upsertCartItem replaces the quantity.
upserted(old, q) == q

Deliver(r) ==
    /\ requests' = requests \ {r}
    /\ server' = [server EXCEPT ![r.account][r.line] =
                      IF r.op = "put" THEN upserted(@, r.qty) ELSE 0]
    /\ UNCHANGED <<stored, token, tabVars, events, answers, asked, dropped,
                   clicks>>

Lose(r) ==
    /\ requests' = requests \ {r}
    /\ UNCHANGED <<stored, token, tabVars, events, answers, server, asked,
                   dropped, clicks>>

listCart(f) ==
    /\ f.lines = Unread
    /\ answers' = (answers \ {f}) \cup {[f EXCEPT !.lines = server[f.account]]}
    /\ UNCHANGED <<stored, token, tabVars, events, requests, server, asked,
                   dropped, clicks>>

\* Mutant: merging two carts adds their quantities.
Together(c, d) == [l \in Lines |-> c[l] + d[l]]

\* The merge of the server's lines with those of the tab.
Merged(c, d) == Larger(c, d)

\* The answer to GET /api/cart; nothing happens if it has no line.
MergeCart(f) ==
    /\ f.lines # Unread
    /\ answers' = answers \ {f}
    /\ IF f.lines = Empty THEN UNCHANGED <<cart, cartMoved>>
       ELSE setCart(f.tab, Merged(cart[f.tab], f.lines))
    /\ UNCHANGED <<stored, token, open, signedIn, loginMoved, synced, prevKeys,
                   events, requests, server, asked, dropped, clicks>>

LoseAnswer(f) ==
    /\ answers' = answers \ {f}
    /\ UNCHANGED <<stored, token, tabVars, events, requests, server, asked,
                   dropped, clicks>>

-----------------------------------------------------------------------------
Customer(t) ==
    \/ OpenTab(t)
    \/ CloseTab(t)
    \/ \E l \in Lines : addToCart(t, l)
    \/ \E l \in Lines, q \in 1 .. MaxQty : updateCartQuantity(t, l, q)
    \/ \E l \in Lines : removeFromCart(t, l)
    \/ \E c \in Baskets : ReplaceCart(t, c)
    \/ \E l \in Lines : addItemToCart(t, l)
    \/ \E a \in Accounts : handleLoginSuccess(t, a)
    \/ handleLogout(t)
    \/ onOrderComplete(t)
    \/ OrderReceived(t)

Network ==
    \/ \E r \in requests : Deliver(r) \/ Lose(r)
    \/ \E f \in answers : listCart(f) \/ MergeCart(f) \/ LoseAnswer(f)

CartNext ==
    \/ \E t \in Tabs : Customer(t) \/ RunEffects(t) \/ Reload(t)
    \/ \E a \in Accounts, l \in Lines, q \in 0 .. MaxQty : OtherDevice(a, l, q)
    \/ Network

CartSpec == CartInit /\ [][CartNext]_cartVars

\* React runs every effect and the browser delivers every event.
FairCart ==
    /\ CartSpec
    /\ \A t \in Tabs : WF_cartVars(RunEffects(t)) /\ WF_cartVars(Reload(t))

-----------------------------------------------------------------------------
(* Properties.                                                             *)

\* No copy of the cart, in a tab, in localStorage or on the server, ever
\* shows more of a line than the customer asked for: quantities are copied
\* and merged by the larger one, and requests carry quantities and not
\* increments, so that a repeated, late or reordered one cannot add up.
NeverInflated ==
    \A l \in Lines :
        /\ stored[l] <= asked[l]
        /\ \A t \in Tabs : cart[t][l] <= asked[l]
        /\ \A a \in Accounts : server[a][l] <= asked[l]

\* A tab with nothing left to run or to hear shows what localStorage holds:
\* writes of several tabs may overwrite one another, but none is unnoticed.
CopiesAgree ==
    \A t \in Tabs : open[t] /\ ~cartMoved[t] /\ events[t] = 0
                        => cart[t] = stored

\* Once the customer stops, the tabs end up with one cart, the one that is
\* stored: a tab that hears of a write and writes itself does not start an
\* endless exchange.
TabsSettle == <>[](\A t \in Tabs : open[t] => cart[t] = stored)

\* "on ne perd jamais silencieusement un article": a line leaves the account's
\* cart only if the customer removed or paid it.
NothingLostSilently ==
    [][\A a \in Accounts, l \in Lines :
           server[a][l] > 0 /\ server'[a][l] = 0 => l \in dropped']_cartVars
=============================================================================
