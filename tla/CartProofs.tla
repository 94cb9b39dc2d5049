----------------------------- MODULE CartProofs -----------------------------
(***************************************************************************)
(* What the copies of the cart promise for every number of tabs, accounts, *)
(* lines and clicks.                                                       *)
(***************************************************************************)
EXTENDS Cart, TLAPS

-----------------------------------------------------------------------------
(* The inductive invariant *)

\* What is in flight shows no more of a line than the customer asked for.
FlightBounded ==
    /\ \A r \in requests : r.qty <= asked[r.line]
    /\ \A f \in answers : f.lines # Unread =>
                             \A l \in Lines : f.lines[l] <= asked[l]

Bounded == NeverInflated /\ FlightBounded

CartInv == CartTypeOK /\ Bounded /\ CopiesAgree

-----------------------------------------------------------------------------
(* Carts *)

LEMMA ZeroQuantity == 0 \in 0 .. MaxQty /\ \A q \in 1 .. MaxQty : q \in 0 .. MaxQty
  BY CartAssumption

LEMMA EmptyTyped == Empty \in Carts /\ \A l \in Lines : Empty[l] = 0
  BY ZeroQuantity DEF Empty, Carts

LEMMA LargerTyped ==
    ASSUME NEW c \in Carts, NEW d \in Carts
    PROVE  /\ Larger(c, d) \in Carts
           /\ \A l \in Lines : c[l] <= Larger(c, d)[l] /\ d[l] <= Larger(c, d)[l]
           /\ \A l \in Lines : Larger(c, d)[l] \in {c[l], d[l]}
  BY CartAssumption DEF Larger, Carts

\* A cart with the quantity of one line changed.
LEMMA ChangedTyped ==
    ASSUME NEW c \in Carts, NEW l \in Lines, NEW q \in 0 .. MaxQty
    PROVE  [c EXCEPT ![l] = q] \in Carts
  BY DEF Carts

\* What is wanted is typed, and no less than before.
LEMMA WantsTyped ==
    ASSUME CartTypeOK, NEW c \in Carts, NEW D \in SUBSET Lines, Wants(c, D)
    PROVE  /\ asked' \in Carts /\ dropped' \subseteq Lines
           /\ clicks' \in 0 .. MaxClicks
           /\ \A l \in Lines : asked[l] <= asked'[l] /\ c[l] <= asked'[l]
  BY LargerTyped, CartAssumption DEF CartTypeOK, Wants

LEMMA TellTyped ==
    ASSUME CartTypeOK, NEW t \in Tabs, Tell(t)
    PROVE  /\ events' \in [Tabs -> Nat]
           /\ \A u \in Tabs : u # t /\ open[u] => events'[u] > 0
           /\ \A u \in Tabs : events'[u] = 0 => events[u] = 0
  BY DEF Tell, CartTypeOK

LEMMA StoreTyped ==
    ASSUME CartTypeOK, NEW t \in Tabs, NEW c, Store(t, c)
    PROVE  /\ events' \in [Tabs -> Nat]
           /\ stored' = c
           /\ \A u \in Tabs : u # t /\ open[u] /\ events'[u] = 0
                               => stored' = stored /\ events[u] = 0
           /\ \A u \in Tabs : events'[u] = 0 => events[u] = 0
  BY TellTyped DEF Store, CartTypeOK

-----------------------------------------------------------------------------
(* Types *)

LEMMA CartTypeStep == CartTypeOK /\ [CartNext]_cartVars => CartTypeOK'
<1> SUFFICES ASSUME CartTypeOK, [CartNext]_cartVars
             PROVE  CartTypeOK'
  OBVIOUS
<1> USE DEF CartTypeOK, tabVars, netVars
<1>1. ASSUME NEW t \in Tabs, OpenTab(t)
      PROVE  CartTypeOK'
  <2>1. Wants(Empty, {}) /\ Empty \in Carts /\ {} \subseteq Lines
    BY <1>1, EmptyTyped DEF OpenTab
  <2>2. asked' \in Carts /\ dropped' \subseteq Lines /\ clicks' \in 0 .. MaxClicks
    BY <2>1, WantsTyped
  <2>3. events' \in [Tabs -> Nat] /\ stored' \in Carts
    BY <1>1, StoreTyped, EmptyTyped DEF OpenTab
  <2>4. signedIn' \in [Tabs -> BOOLEAN] /\ loginMoved' \in [Tabs -> BOOLEAN]
    BY <1>1 DEF OpenTab
  <2>5. QED BY <1>1, <2>2, <2>3, <2>4 DEF OpenTab, setCart
<1>2. ASSUME NEW t \in Tabs, CloseTab(t)
      PROVE  CartTypeOK'
  <2>1. Wants(Empty, {}) /\ Empty \in Carts /\ {} \subseteq Lines
    BY <1>2, EmptyTyped DEF CloseTab
  <2>2. asked' \in Carts /\ dropped' \subseteq Lines /\ clicks' \in 0 .. MaxClicks
    BY <2>1, WantsTyped
  <2>3. cart' \in [Tabs -> Carts] /\ events' \in [Tabs -> Nat]
    BY <1>2, EmptyTyped DEF CloseTab
  <2>4. QED BY <1>2, <2>2, <2>3 DEF CloseTab
<1>3. ASSUME NEW t \in Tabs, NEW l \in Lines, addToCart(t, l)
      PROVE  CartTypeOK'
  <2> DEFINE c == [cart[t] EXCEPT ![l] = @ + 1]
  <2>1. c \in Carts
    BY <1>3, CartAssumption DEF addToCart, Carts
  <2>2. Handler(t, c, {}) /\ Wants(c, {})
    BY <1>3 DEF addToCart
  <2> HIDE DEF c
  <2>3. asked' \in Carts /\ dropped' \subseteq Lines /\ clicks' \in 0 .. MaxClicks
    BY <2>1, <2>2, WantsTyped
  <2>4. QED BY <2>1, <2>2, <2>3 DEF Handler, setCart
<1>4. ASSUME NEW t \in Tabs, NEW l \in Lines, NEW q \in 0 .. MaxQty,
             updateCartQuantity(t, l, q)
      PROVE  CartTypeOK'
  <2> DEFINE lines == SameProduct(l) \cap Keys(cart[t])
             c == [k \in Lines |-> IF k \in lines THEN q ELSE cart[t][k]]
             D == IF q = 0 THEN lines ELSE {}
  <2>1. c \in Carts /\ D \subseteq Lines
    BY DEF Carts, Keys
  <2>2. Handler(t, c, {}) /\ Wants(c, D)
    BY <1>4 DEF updateCartQuantity
  <2> HIDE DEF lines, c, D
  <2>3. asked' \in Carts /\ dropped' \subseteq Lines /\ clicks' \in 0 .. MaxClicks
    BY <2>1, <2>2, WantsTyped
  <2>4. QED BY <2>1, <2>2, <2>3 DEF Handler, setCart
<1>5. ASSUME NEW t \in Tabs, NEW c \in Baskets, ReplaceCart(t, c)
      PROVE  CartTypeOK'
  <2>1. Wants(c, Keys(cart[t]) \ Keys(c)) /\ c \in Carts
        /\ Keys(cart[t]) \ Keys(c) \subseteq Lines
    BY <1>5, CartAssumption DEF ReplaceCart, Keys
  <2>2. asked' \in Carts /\ dropped' \subseteq Lines /\ clicks' \in 0 .. MaxClicks
    BY <2>1, WantsTyped
  <2>3. QED BY <1>5, <2>1, <2>2 DEF ReplaceCart, Handler, setCart
<1>6. ASSUME NEW t \in Tabs, NEW l \in Lines, addItemToCart(t, l)
      PROVE  CartTypeOK'
  <2> DEFINE c == [stored EXCEPT ![l] = @ + 1]
  <2>1. c \in Carts
    BY <1>6, CartAssumption DEF addItemToCart, Carts
  <2>2. Store(t, c) /\ Wants(c, {})
    BY <1>6 DEF addItemToCart
  <2>3. IF open[t] THEN setCart(t, c) ELSE UNCHANGED <<cart, cartMoved>>
    BY <1>6 DEF addItemToCart
  <2> HIDE DEF c
  <2>4. asked' \in Carts /\ dropped' \subseteq Lines /\ clicks' \in 0 .. MaxClicks
    BY <2>1, <2>2, WantsTyped
  <2>5. stored' \in Carts /\ events' \in [Tabs -> Nat]
    BY <2>1, <2>2, StoreTyped
  <2>6. QED BY <1>6, <2>1, <2>3, <2>4, <2>5 DEF addItemToCart, setCart
<1>7. ASSUME NEW t \in Tabs, NEW a \in Accounts, handleLoginSuccess(t, a)
      PROVE  CartTypeOK'
  <2>1. Wants(Empty, {}) /\ Empty \in Carts /\ {} \subseteq Lines
    BY <1>7, EmptyTyped DEF handleLoginSuccess
  <2>2. asked' \in Carts /\ dropped' \subseteq Lines /\ clicks' \in 0 .. MaxClicks
    BY <2>1, WantsTyped
  <2>3. events' \in [Tabs -> Nat]
    BY <1>7, TellTyped DEF handleLoginSuccess
  <2>4. QED BY <1>7, <2>2, <2>3 DEF handleLoginSuccess
<1>8. ASSUME NEW t \in Tabs, handleLogout(t)
      PROVE  CartTypeOK'
  <2>1. Wants(Empty, {}) /\ Empty \in Carts /\ {} \subseteq Lines
    BY <1>8, EmptyTyped DEF handleLogout
  <2>2. asked' \in Carts /\ dropped' \subseteq Lines /\ clicks' \in 0 .. MaxClicks
    BY <2>1, WantsTyped
  <2>3. events' \in [Tabs -> Nat]
    BY <1>8, TellTyped DEF handleLogout
  <2>4. QED BY <1>8, <2>2, <2>3, EmptyTyped DEF handleLogout, setCart
<1>9. ASSUME NEW t \in Tabs, onOrderComplete(t)
      PROVE  CartTypeOK'
  <2>1. Wants(Empty, Keys(cart[t])) /\ Empty \in Carts /\ Keys(cart[t]) \subseteq Lines
    BY <1>9, EmptyTyped DEF onOrderComplete, Keys
  <2>2. asked' \in Carts /\ dropped' \subseteq Lines /\ clicks' \in 0 .. MaxClicks
    BY <2>1, WantsTyped
  <2>3. QED BY <1>9, <2>2, EmptyTyped DEF onOrderComplete, Handler, setCart
<1>10. ASSUME NEW t \in Tabs, OrderReceived(t)
      PROVE  CartTypeOK'
  <2>1. Wants(Empty, Keys(stored)) /\ Empty \in Carts /\ Keys(stored) \subseteq Lines
    BY <1>10, EmptyTyped DEF OrderReceived, Keys
  <2>2. asked' \in Carts /\ dropped' \subseteq Lines /\ clicks' \in 0 .. MaxClicks
    BY <2>1, WantsTyped
  <2>3. stored' \in Carts /\ events' \in [Tabs -> Nat]
    BY <1>10, StoreTyped, EmptyTyped DEF OrderReceived
  <2>4. QED BY <1>10, <2>2, <2>3 DEF OrderReceived
<1>11. ASSUME NEW a \in Accounts, NEW l \in Lines, NEW q \in 0 .. MaxQty,
             OtherDevice(a, l, q)
      PROVE  CartTypeOK'
  <2> DEFINE c == [Empty EXCEPT ![l] = q]
             D == IF q = 0 THEN {l} ELSE {}
  <2>1. c \in Carts /\ D \subseteq Lines
    BY EmptyTyped, ChangedTyped
  <2>2. Wants(c, D)
    BY <1>11 DEF OtherDevice
  <2> HIDE DEF c, D
  <2>3. asked' \in Carts /\ dropped' \subseteq Lines /\ clicks' \in 0 .. MaxClicks
    BY <2>1, <2>2, WantsTyped
  <2>4. server' \in [Accounts -> Carts]
    BY <1>11 DEF OtherDevice, Carts
  <2>5. QED BY <1>11, <2>3, <2>4 DEF OtherDevice
<1>12. ASSUME NEW t \in Tabs, RunEffects(t)
      PROVE  CartTypeOK'
  <2>1. answers' \subseteq Answer
    BY <1>12 DEF RunEffects, FetchCart, Live, Answer
  <2>2. requests' \subseteq Request /\ synced' \in [Tabs -> BOOLEAN]
        /\ prevKeys' \in [Tabs -> SUBSET Lines]
    <3>1. CASE ~Live(t)
      BY <1>12, <3>1 DEF RunEffects, SyncCart
    <3>2. CASE Live(t)
      <4>1. token \in Accounts
        BY <3>2 DEF Live
      <4>2. \A l \in Lines : Put(l, cart[t][l]) \in Request /\ Delete(l) \in Request
        BY <4>1, ZeroQuantity DEF Put, Delete, Request, Carts
      <4>3. Keys(cart[t]) \subseteq Lines
        BY DEF Keys
      <4>4. synced' \in [Tabs -> BOOLEAN] /\ prevKeys' \in [Tabs -> SUBSET Lines]
        BY <1>12, <3>2, <4>3 DEF RunEffects, SyncCart
      <4>5. requests' \subseteq Request
        BY <1>12, <3>2, <4>2, <4>3 DEF RunEffects, SyncCart
      <4>6. QED BY <4>4, <4>5
    <3>3. QED BY <3>1, <3>2
  <2>3. stored' \in Carts /\ events' \in [Tabs -> Nat]
    BY <1>12, StoreTyped DEF RunEffects, PersistCart
  <2>4. QED BY <1>12, <2>1, <2>2, <2>3 DEF RunEffects
<1>13. ASSUME NEW t \in Tabs, Reload(t)
      PROVE  CartTypeOK'
  BY <1>13 DEF Reload, setCart
<1>14. ASSUME NEW r \in requests, Deliver(r)
      PROVE  CartTypeOK'
  <2>1. r.account \in Accounts /\ r.line \in Lines /\ r.qty \in 0 .. MaxQty
    BY <1>14 DEF Request
  <2>2. server' \in [Accounts -> Carts]
    BY <1>14, <2>1, ZeroQuantity DEF Deliver, upserted, Carts
  <2>3. QED BY <1>14, <2>2 DEF Deliver
<1>15. ASSUME NEW r \in requests, Lose(r)
      PROVE  CartTypeOK'
  BY <1>15 DEF Lose
<1>16. ASSUME NEW f \in answers, listCart(f)
      PROVE  CartTypeOK'
  <2>1. [f EXCEPT !.lines = server[f.account]] \in Answer
    BY <1>16 DEF Answer
  <2>2. QED BY <1>16, <2>1 DEF listCart
<1>17. ASSUME NEW f \in answers, MergeCart(f)
      PROVE  CartTypeOK'
  <2>1. f.tab \in Tabs /\ f.lines \in Carts
    BY <1>17 DEF MergeCart, Answer
  <2>2. Merged(cart[f.tab], f.lines) \in Carts
    BY <2>1, LargerTyped DEF Merged
  <2>3. QED BY <1>17, <2>1, <2>2 DEF MergeCart, setCart
<1>18. ASSUME NEW f \in answers, LoseAnswer(f)
      PROVE  CartTypeOK'
  BY <1>18 DEF LoseAnswer
<1>19. CASE UNCHANGED cartVars
  BY <1>19 DEF cartVars
<1>20. QED
  BY <1>1, <1>2, <1>3, <1>4, <1>5, <1>6, <1>7, <1>8, <1>9, <1>10, <1>11, <1>12, <1>13, <1>14, <1>15, <1>16, <1>17, <1>18, <1>19, ZeroQuantity
     DEF CartNext, Customer, Network, removeFromCart

LEMMA CopiesStep == CartTypeOK /\ CopiesAgree /\ [CartNext]_cartVars => CopiesAgree'
<1> SUFFICES ASSUME CartTypeOK /\ CopiesAgree, [CartNext]_cartVars
             PROVE  CopiesAgree'
  OBVIOUS
<1> USE DEF CartTypeOK, CopiesAgree, tabVars, netVars
<1>1. ASSUME NEW t \in Tabs, OpenTab(t)
      PROVE  CopiesAgree'
  BY <1>1 DEF OpenTab, setCart, Store, Tell, Wants
<1>2. ASSUME NEW t \in Tabs, CloseTab(t)
      PROVE  CopiesAgree'
  BY <1>2 DEF CloseTab, Wants
<1>3. ASSUME NEW t \in Tabs, NEW l \in Lines, addToCart(t, l)
      PROVE  CopiesAgree'
  BY <1>3 DEF addToCart, Handler, setCart, Wants
<1>4. ASSUME NEW t \in Tabs, NEW l \in Lines, NEW q \in 0 .. MaxQty,
             updateCartQuantity(t, l, q)
      PROVE  CopiesAgree'
  BY <1>4 DEF updateCartQuantity, Handler, setCart, Wants
<1>5. ASSUME NEW t \in Tabs, NEW c \in Baskets, ReplaceCart(t, c)
      PROVE  CopiesAgree'
  BY <1>5 DEF ReplaceCart, Handler, setCart, Wants
<1>6. ASSUME NEW t \in Tabs, NEW l \in Lines, addItemToCart(t, l)
      PROVE  CopiesAgree'
  <2>1. PICK c : /\ Store(t, c)
                 /\ IF open[t] THEN setCart(t, c) ELSE UNCHANGED <<cart, cartMoved>>
    BY <1>6 DEF addItemToCart
  <2>2. QED BY <1>6, <2>1, StoreTyped DEF addItemToCart, setCart
<1>7. ASSUME NEW t \in Tabs, NEW a \in Accounts, handleLoginSuccess(t, a)
      PROVE  CopiesAgree'
  BY <1>7 DEF handleLoginSuccess, Tell, Wants
<1>8. ASSUME NEW t \in Tabs, handleLogout(t)
      PROVE  CopiesAgree'
  BY <1>8 DEF handleLogout, setCart, Tell, Wants
<1>9. ASSUME NEW t \in Tabs, onOrderComplete(t)
      PROVE  CopiesAgree'
  BY <1>9 DEF onOrderComplete, Handler, setCart, Wants
<1>10. ASSUME NEW t \in Tabs, OrderReceived(t)
      PROVE  CopiesAgree'
  BY <1>10 DEF OrderReceived, Store, Tell, Wants
<1>11. ASSUME NEW a \in Accounts, NEW l \in Lines, NEW q \in 0 .. MaxQty,
             OtherDevice(a, l, q)
      PROVE  CopiesAgree'
  BY <1>11 DEF OtherDevice, Wants
<1>12. ASSUME NEW t \in Tabs, RunEffects(t)
      PROVE  CopiesAgree'
  BY <1>12 DEF RunEffects, FetchCart, SyncCart, PersistCart, Store, Tell
<1>13. ASSUME NEW t \in Tabs, Reload(t)
      PROVE  CopiesAgree'
  BY <1>13 DEF Reload, setCart
<1>14. ASSUME NEW r \in requests, Deliver(r)
      PROVE  CopiesAgree'
  BY <1>14 DEF Deliver
<1>15. ASSUME NEW r \in requests, Lose(r)
      PROVE  CopiesAgree'
  BY <1>15 DEF Lose
<1>16. ASSUME NEW f \in answers, listCart(f)
      PROVE  CopiesAgree'
  BY <1>16 DEF listCart
<1>17. ASSUME NEW f \in answers, MergeCart(f)
      PROVE  CopiesAgree'
  BY <1>17 DEF MergeCart, setCart
<1>18. ASSUME NEW f \in answers, LoseAnswer(f)
      PROVE  CopiesAgree'
  BY <1>18 DEF LoseAnswer
<1>19. CASE UNCHANGED cartVars
  BY <1>19 DEF cartVars
<1>20. QED
  BY <1>1, <1>2, <1>3, <1>4, <1>5, <1>6, <1>7, <1>8, <1>9, <1>10, <1>11, <1>12, <1>13, <1>14, <1>15, <1>16, <1>17, <1>18, <1>19, ZeroQuantity
     DEF CartNext, Customer, Network, removeFromCart

-----------------------------------------------------------------------------
(* Quantities *)

\* What stays bounded when the customer asks for more and nothing new is sent.
LEMMA BoundedKept ==
    ASSUME CartTypeOK, CartTypeOK', Bounded,
           \A l \in Lines : asked[l] <= asked'[l],
           stored' = stored \/ (\A l \in Lines : stored'[l] <= asked'[l]),
           \A t \in Tabs : \/ cart'[t] = cart[t]
                           \/ \A l \in Lines : cart'[t][l] <= asked'[l],
           \A a \in Accounts, l \in Lines : \/ server'[a][l] = server[a][l]
                                            \/ server'[a][l] <= asked'[l],
           requests' \subseteq requests, answers' \subseteq answers
    PROVE  Bounded'
<1> USE DEF CartTypeOK, Carts, Bounded, NeverInflated, FlightBounded
<1>1. \A l \in Lines : asked[l] \in Int /\ asked'[l] \in Int /\ stored[l] \in Int
                       /\ stored'[l] \in Int
  BY CartAssumption
<1>2. \A t \in Tabs, l \in Lines : cart[t][l] \in Int /\ cart'[t][l] \in Int
  BY CartAssumption
<1>3. \A a \in Accounts, l \in Lines : server[a][l] \in Int /\ server'[a][l] \in Int
  BY CartAssumption
<1>4. NeverInflated'
  <2>1. \A l \in Lines : stored'[l] <= asked'[l]
    BY <1>1
  <2>2. ASSUME NEW l \in Lines, NEW t \in Tabs
        PROVE  cart'[t][l] <= asked'[l]
    <3>1. cart[t][l] <= asked[l] /\ asked[l] <= asked'[l]
      OBVIOUS
    <3>2. cart'[t] = cart[t] \/ cart'[t][l] <= asked'[l]
      OBVIOUS
    <3>3. QED BY <1>1, <1>2, <3>1, <3>2
  <2>3. \A l \in Lines, a \in Accounts : server'[a][l] <= asked'[l]
    BY <1>1, <1>3
  <2>4. QED BY <2>1, <2>2, <2>3
<1>5. \A r \in requests' : r.qty <= asked'[r.line]
  BY <1>1, CartAssumption DEF Request
<1>6. \A f \in answers' : f.lines # Unread => \A l \in Lines : f.lines[l] <= asked'[l]
  <2>1. SUFFICES ASSUME NEW f \in answers, f.lines # Unread, NEW l \in Lines
                 PROVE  f.lines[l] <= asked'[l]
    OBVIOUS
  <2>2. f.lines[l] \in Int /\ f.lines[l] <= asked[l]
    BY <2>1, CartAssumption DEF Answer
  <2>3. QED BY <1>1, <2>2
<1>7. QED BY <1>4, <1>5, <1>6

LEMMA BoundedStep == CartTypeOK /\ CartTypeOK' /\ Bounded /\ [CartNext]_cartVars => Bounded'
<1> SUFFICES ASSUME CartTypeOK, CartTypeOK', Bounded, [CartNext]_cartVars
             PROVE  Bounded'
  OBVIOUS
<1> USE DEF tabVars, netVars
<1>0. \A l \in Lines : asked[l] <= asked[l] /\ asked[l] \in Int /\ 0 <= asked'[l]
  BY CartAssumption DEF CartTypeOK, Carts
<1>1. ASSUME NEW t \in Tabs, OpenTab(t)
      PROVE  Bounded'
  <2>1. Wants(Empty, {})
    BY <1>1 DEF OpenTab
  <2>2. \A l \in Lines : asked[l] <= asked'[l]
    BY <2>1, WantsTyped, EmptyTyped
  <2>3. stored' = Empty /\ UNCHANGED netVars
    BY <1>1, StoreTyped DEF OpenTab
  <2>4. cart' = [cart EXCEPT ![t] = stored]
    BY <1>1 DEF OpenTab, setCart
  <2>5. \A l \in Lines : stored[l] <= asked'[l]
    BY <2>2, CartAssumption DEF CartTypeOK, Carts, Bounded, NeverInflated
  <2>6. \A u \in Tabs : cart'[u] = cart[u] \/ cart'[u] = stored
    BY <2>4 DEF CartTypeOK
  <2>7. \A l \in Lines : stored'[l] <= asked'[l]
    BY <1>0, <2>3, EmptyTyped
  <2>8. QED BY <2>2, <2>3, <2>5, <2>6, <2>7, BoundedKept
<1>2. ASSUME NEW t \in Tabs, CloseTab(t)
      PROVE  Bounded'
  <2>1. Wants(Empty, {})
    BY <1>2 DEF CloseTab
  <2>2. \A l \in Lines : asked[l] <= asked'[l]
    BY <2>1, WantsTyped, EmptyTyped
  <2>3. \A u \in Tabs : cart'[u] = cart[u] \/ cart'[u] = Empty
    BY <1>2 DEF CloseTab, CartTypeOK
  <2>4. \A l \in Lines : Empty[l] <= asked'[l]
    BY <1>0, EmptyTyped
  <2>5. QED BY <1>2, <2>2, <2>3, <2>4, BoundedKept DEF CloseTab
<1>3. ASSUME NEW t \in Tabs, NEW l \in Lines, addToCart(t, l)
      PROVE  Bounded'
  <2> DEFINE c == [cart[t] EXCEPT ![l] = @ + 1]
  <2>1. c \in Carts
    BY <1>3, CartAssumption DEF addToCart, Carts, CartTypeOK
  <2>2. Handler(t, c, {}) /\ Wants(c, {})
    BY <1>3 DEF addToCart
  <2> HIDE DEF c
  <2>3. \A k \in Lines : asked[k] <= asked'[k] /\ c[k] <= asked'[k]
    BY <2>1, <2>2, WantsTyped
  <2>4. \A u \in Tabs : cart'[u] = cart[u] \/ cart'[u] = c
    BY <2>2 DEF Handler, setCart, CartTypeOK
  <2>5. QED BY <2>2, <2>3, <2>4, BoundedKept DEF Handler
<1>4. ASSUME NEW t \in Tabs, NEW l \in Lines, NEW q \in 0 .. MaxQty,
             updateCartQuantity(t, l, q)
      PROVE  Bounded'
  <2> DEFINE lines == SameProduct(l) \cap Keys(cart[t])
             c == [k \in Lines |-> IF k \in lines THEN q ELSE cart[t][k]]
             D == IF q = 0 THEN lines ELSE {}
  <2>1. c \in Carts /\ D \subseteq Lines
    BY DEF Carts, Keys, CartTypeOK
  <2>2. Handler(t, c, {}) /\ Wants(c, D)
    BY <1>4 DEF updateCartQuantity
  <2> HIDE DEF lines, c, D
  <2>3. \A k \in Lines : asked[k] <= asked'[k] /\ c[k] <= asked'[k]
    BY <2>1, <2>2, WantsTyped
  <2>4. \A u \in Tabs : cart'[u] = cart[u] \/ cart'[u] = c
    BY <2>2 DEF Handler, setCart, CartTypeOK
  <2>5. QED BY <2>2, <2>3, <2>4, BoundedKept DEF Handler
<1>5. ASSUME NEW t \in Tabs, NEW c \in Baskets, ReplaceCart(t, c)
      PROVE  Bounded'
  <2>1. Wants(c, Keys(cart[t]) \ Keys(c)) /\ c \in Carts
        /\ Keys(cart[t]) \ Keys(c) \subseteq Lines
    BY <1>5, CartAssumption DEF ReplaceCart, Keys
  <2>2. \A k \in Lines : asked[k] <= asked'[k] /\ c[k] <= asked'[k]
    BY <2>1, WantsTyped
  <2>3. Handler(t, c, {})
    BY <1>5 DEF ReplaceCart
  <2>4. \A u \in Tabs : cart'[u] = cart[u] \/ cart'[u] = c
    BY <2>3 DEF Handler, setCart, CartTypeOK
  <2>5. QED BY <2>2, <2>3, <2>4, BoundedKept DEF Handler
<1>6. ASSUME NEW t \in Tabs, NEW l \in Lines, addItemToCart(t, l)
      PROVE  Bounded'
  <2> DEFINE c == [stored EXCEPT ![l] = @ + 1]
  <2>1. c \in Carts
    BY <1>6, CartAssumption DEF addItemToCart, Carts, CartTypeOK
  <2>2. Store(t, c) /\ Wants(c, {})
    BY <1>6 DEF addItemToCart
  <2>3. IF open[t] THEN setCart(t, c) ELSE UNCHANGED <<cart, cartMoved>>
    BY <1>6 DEF addItemToCart
  <2> HIDE DEF c
  <2>4. \A k \in Lines : asked[k] <= asked'[k] /\ c[k] <= asked'[k]
    BY <2>1, <2>2, WantsTyped
  <2>5. \A u \in Tabs : cart'[u] = cart[u] \/ cart'[u] = c
    BY <2>3 DEF setCart, CartTypeOK
  <2>6. stored' = c
    BY <2>2, StoreTyped
  <2>7. QED BY <1>6, <2>4, <2>5, <2>6, BoundedKept DEF addItemToCart
<1>7. ASSUME NEW t \in Tabs, NEW a \in Accounts, handleLoginSuccess(t, a)
      PROVE  Bounded'
  <2>1. Wants(Empty, {})
    BY <1>7 DEF handleLoginSuccess
  <2>2. \A l \in Lines : asked[l] <= asked'[l]
    BY <2>1, WantsTyped, EmptyTyped
  <2>3. QED BY <1>7, <2>2, BoundedKept DEF handleLoginSuccess
<1>8. ASSUME NEW t \in Tabs, handleLogout(t)
      PROVE  Bounded'
  <2>1. Wants(Empty, {})
    BY <1>8 DEF handleLogout
  <2>2. \A l \in Lines : asked[l] <= asked'[l]
    BY <2>1, WantsTyped, EmptyTyped
  <2>3. \A u \in Tabs : cart'[u] = cart[u] \/ cart'[u] = Empty
    BY <1>8 DEF handleLogout, setCart, CartTypeOK
  <2>4. \A l \in Lines : Empty[l] <= asked'[l]
    BY <1>0, EmptyTyped
  <2>5. QED BY <1>8, <2>2, <2>3, <2>4, BoundedKept DEF handleLogout
<1>9. ASSUME NEW t \in Tabs, onOrderComplete(t)
      PROVE  Bounded'
  <2>1. Wants(Empty, Keys(cart[t])) /\ Keys(cart[t]) \subseteq Lines
    BY <1>9 DEF onOrderComplete, Keys
  <2>2. \A l \in Lines : asked[l] <= asked'[l]
    BY <2>1, WantsTyped, EmptyTyped
  <2>3. \A u \in Tabs : cart'[u] = cart[u] \/ cart'[u] = Empty
    BY <1>9 DEF onOrderComplete, Handler, setCart, CartTypeOK
  <2>4. \A l \in Lines : Empty[l] <= asked'[l]
    BY <1>0, EmptyTyped
  <2>5. QED BY <1>9, <2>2, <2>3, <2>4, BoundedKept DEF onOrderComplete, Handler
<1>10. ASSUME NEW t \in Tabs, OrderReceived(t)
      PROVE  Bounded'
  <2>1. Wants(Empty, Keys(stored)) /\ Keys(stored) \subseteq Lines
    BY <1>10 DEF OrderReceived, Keys
  <2>2. \A l \in Lines : asked[l] <= asked'[l]
    BY <2>1, WantsTyped, EmptyTyped
  <2>3. stored' = Empty
    BY <1>10, StoreTyped DEF OrderReceived
  <2>4. \A l \in Lines : stored'[l] <= asked'[l]
    BY <1>0, <2>3, EmptyTyped
  <2>5. QED BY <1>10, <2>2, <2>4, BoundedKept DEF OrderReceived
<1>11. ASSUME NEW a \in Accounts, NEW l \in Lines, NEW q \in 0 .. MaxQty,
             OtherDevice(a, l, q)
      PROVE  Bounded'
  <2> DEFINE c == [Empty EXCEPT ![l] = q]
             D == IF q = 0 THEN {l} ELSE {}
  <2>1. c \in Carts /\ D \subseteq Lines /\ c[l] = q
    BY EmptyTyped, ChangedTyped DEF Carts
  <2>2. Wants(c, D)
    BY <1>11 DEF OtherDevice
  <2> HIDE DEF c, D
  <2>3. \A k \in Lines : asked[k] <= asked'[k] /\ c[k] <= asked'[k]
    BY <2>1, <2>2, WantsTyped
  <2>4. \A b \in Accounts, k \in Lines : \/ server'[b][k] = server[b][k]
                                         \/ k = l /\ server'[b][k] = q
    <3>1. server \in [Accounts -> [Lines -> 0 .. MaxQty]]
      BY DEF CartTypeOK, Carts
    <3>2. server' = [server EXCEPT ![a][l] = q]
      BY <1>11 DEF OtherDevice
    <3>3. QED BY <3>1, <3>2
  <2>5. \A b \in Accounts, k \in Lines : \/ server'[b][k] = server[b][k]
                                         \/ server'[b][k] <= asked'[k]
    BY <2>1, <2>3, <2>4
  <2>6. QED BY <1>11, <2>3, <2>5, BoundedKept DEF OtherDevice
<1>12. ASSUME NEW t \in Tabs, RunEffects(t)
      PROVE  Bounded'
  <2> USE DEF CartTypeOK
  <2>1. UNCHANGED <<asked, cart, server>>
    BY <1>12 DEF RunEffects
  <2>2. stored' = stored \/ stored' = cart[t]
    BY <1>12, StoreTyped DEF RunEffects, PersistCart
  <2>3. \A l \in Lines : cart[t][l] <= asked[l]
    BY DEF Bounded, NeverInflated
  <2>4. NeverInflated'
    BY <2>1, <2>2, <2>3 DEF Bounded, NeverInflated
  <2>5. \A r \in requests' : r.qty <= asked'[r.line]
    <3>1. CASE ~(Live(t) /\ synced[t])
      BY <1>12, <2>1, <3>1 DEF RunEffects, SyncCart, Bounded, FlightBounded
    <3>2. CASE Live(t) /\ synced[t]
      <4>1. requests' = requests \cup {Put(l, cart[t][l]) : l \in Keys(cart[t])}
                        \cup {Delete(l) : l \in prevKeys[t] \ Keys(cart[t])}
        BY <1>12, <3>2 DEF RunEffects, SyncCart
      <4>2. \A l \in Keys(cart[t]) : Put(l, cart[t][l]).qty <= asked[Put(l, cart[t][l]).line]
        BY <2>3 DEF Put, Keys
      <4>3. \A l \in Lines : Delete(l).qty <= asked[Delete(l).line]
        BY CartAssumption DEF Delete, Carts
      <4>4. QED BY <2>1, <4>1, <4>2, <4>3 DEF Bounded, FlightBounded
    <3>3. QED BY <3>1, <3>2
  <2>6. \A f \in answers' : f.lines # Unread => f \in answers
    BY <1>12 DEF RunEffects, FetchCart
  <2>7. QED BY <2>1, <2>4, <2>5, <2>6 DEF Bounded, FlightBounded
<1>13. ASSUME NEW t \in Tabs, Reload(t)
      PROVE  Bounded'
  <2>1. \A u \in Tabs : cart'[u] = cart[u] \/ cart'[u] = stored
    BY <1>13 DEF Reload, setCart, CartTypeOK
  <2>2. QED BY <1>13, <2>1 DEF Reload, Bounded, NeverInflated, FlightBounded
<1>14. ASSUME NEW r \in requests, Deliver(r)
      PROVE  Bounded'
  <2>1. r.line \in Lines /\ r.qty <= asked[r.line]
    BY <1>14 DEF CartTypeOK, Request, Bounded, FlightBounded
  <2>2. \A a \in Accounts, l \in Lines : \/ server'[a][l] = server[a][l]
                                         \/ l = r.line /\ server'[a][l] \in {0, r.qty}
    <3>1. server \in [Accounts -> [Lines -> 0 .. MaxQty]] /\ r.account \in Accounts
      BY <1>14 DEF CartTypeOK, Carts, Request
    <3>2. \E q \in {0, r.qty} : server' = [server EXCEPT ![r.account][r.line] = q]
      BY <1>14, <3>1, <2>1 DEF Deliver, upserted
    <3>3. QED BY <3>1, <3>2, <2>1
  <2>3. \A l \in Lines : 0 <= asked[l]
    BY CartAssumption DEF CartTypeOK, Carts
  <2>4. QED BY <1>14, <2>1, <2>2, <2>3 DEF Deliver, Bounded, NeverInflated, FlightBounded
<1>15. ASSUME NEW r \in requests, Lose(r)
      PROVE  Bounded'
  BY <1>15 DEF Lose, Bounded, NeverInflated, FlightBounded
<1>16. ASSUME NEW f \in answers, listCart(f)
      PROVE  Bounded'
  <2>1. f.account \in Accounts
    BY <1>16 DEF CartTypeOK, Answer
  <2>2. \A l \in Lines : server[f.account][l] <= asked[l]
    BY <2>1 DEF Bounded, NeverInflated
  <2>3. QED BY <1>16, <2>2 DEF listCart, Bounded, NeverInflated, FlightBounded,
                               CartTypeOK, Answer
<1>17. ASSUME NEW f \in answers, MergeCart(f)
      PROVE  Bounded'
  <2>1. f.tab \in Tabs /\ f.lines \in Carts
    BY <1>17 DEF MergeCart, CartTypeOK, Answer
  <2> DEFINE c == Merged(cart[f.tab], f.lines)
  <2>2. \A l \in Lines : c[l] <= asked[l]
    BY <1>17, <2>1, LargerTyped DEF Merged, MergeCart, CartTypeOK, Bounded,
                                    NeverInflated, FlightBounded
  <2>3. \A u \in Tabs : cart'[u] = cart[u] \/ cart'[u] = c
    BY <1>17 DEF MergeCart, setCart, CartTypeOK
  <2> HIDE DEF c
  <2>4. QED BY <1>17, <2>2, <2>3 DEF MergeCart, Bounded, NeverInflated, FlightBounded
<1>18. ASSUME NEW f \in answers, LoseAnswer(f)
      PROVE  Bounded'
  BY <1>18 DEF LoseAnswer, Bounded, NeverInflated, FlightBounded
<1>19. CASE UNCHANGED cartVars
  BY <1>19, <1>0, BoundedKept DEF cartVars
<1>20. QED
  BY <1>1, <1>2, <1>3, <1>4, <1>5, <1>6, <1>7, <1>8, <1>9, <1>10, <1>11, <1>12, <1>13, <1>14, <1>15, <1>16, <1>17, <1>18, <1>19, ZeroQuantity
     DEF CartNext, Customer, Network, removeFromCart

-----------------------------------------------------------------------------
(* The invariant and the theorems *)

LEMMA CartInitInv == CartInit => CartInv
<1> SUFFICES ASSUME CartInit
             PROVE  CartInv
  OBVIOUS
<1> USE EmptyTyped, CartAssumption DEF CartInit
<1>1. CartTypeOK
  BY DEF CartTypeOK
<1>2. Bounded
  BY DEF Bounded, NeverInflated, FlightBounded
<1>3. CopiesAgree
  BY DEF CopiesAgree
<1>4. QED BY <1>1, <1>2, <1>3 DEF CartInv

LEMMA CartInvStep == CartInv /\ [CartNext]_cartVars => CartInv'
  BY CartTypeStep, BoundedStep, CopiesStep DEF CartInv

\* The carts of the tabs, of localStorage and of the accounts, and what is in
\* flight between them, keep their shape in every interleaving.
THEOREM CartTypeCorrect == CartSpec => []CartTypeOK
<1>1. CartInv => CartTypeOK
  BY DEF CartInv
<1>2. QED BY <1>1, CartInitInv, CartInvStep, PTL DEF CartSpec

\* For every number of tabs, accounts and lines: no copy of the cart shows more
\* of a line than the customer asked for, however the requests and answers of
\* the tabs are delayed, lost or reordered.
THEOREM CartNeverInflated == CartSpec => []NeverInflated
<1>1. CartInv => NeverInflated
  BY DEF CartInv, Bounded
<1>2. QED BY <1>1, CartInitInv, CartInvStep, PTL DEF CartSpec

\* A tab that has nothing left to run or to hear shows the stored cart.
THEOREM CartCopiesAgree == CartSpec => []CopiesAgree
<1>1. CartInv => CopiesAgree
  BY DEF CartInv
<1>2. QED BY <1>1, CartInitInv, CartInvStep, PTL DEF CartSpec

=============================================================================
