-------------------------- MODULE NavigationProofs --------------------------
(***************************************************************************)
(* The storefront's navigation keeps its shape for every set of products,  *)
(* shops and pages and every number of clicks: the address bar is always   *)
(* on an entry of the history, whose entries are all addresses, and every  *)
(* snapshot to come back to is a view with its selection.  What the        *)
(* address names is shown, or being fetched, once the effects have run.    *)
(***************************************************************************)
EXTENDS Navigation, SequenceTheorems, TLAPS

-----------------------------------------------------------------------------
(* Lemmas on the state that actions set together *)

LEMMA SnapshotTyped ==
    ASSUME NavTypeOK
    PROVE  Snapshot \in [view : Views, selected : Selections]
  BY DEF NavTypeOK, Snapshot

LEMMA AddressTyped ==
    ASSUME NavTypeOK
    PROVE  address \in Addresses
  BY DEF NavTypeOK, address

LEMMA KindTyped ==
    ASSUME NEW i \in Items
    PROVE  kindOf[i] \in Kinds
  BY NavigationAssumption DEF NavigationAssumption

LEMMA SelectTyped ==
    ASSUME NEW s \in Selections, NEW k \in Kinds, NEW i \in Items \cup {None}
    PROVE  [s EXCEPT ![k] = i] \in Selections
  BY DEF Selections

LEMMA NewEntryTyped ==
    ASSUME NavTypeOK, NEW u \in Addresses, NewEntry(u)
    PROVE  hist' \in Seq(Addresses) /\ at' \in DOMAIN hist'
  <1>1. at \in 1..Len(hist) /\ hist \in Seq(Addresses)
    BY DEF NavTypeOK
  <1>2. /\ SubSeq(hist, 1, at) \in Seq(Addresses)
        /\ Len(SubSeq(hist, 1, at)) = at
    BY <1>1
  <1> QED
    BY <1>1, <1>2 DEF NewEntry

LEMMA StackTyped ==
    ASSUME NavTypeOK
    PROVE  Append(navStack, Snapshot) \in
             Seq([view : Views, selected : Selections])
  BY SnapshotTyped DEF NavTypeOK

\* What is left of a stack, and what was on its top.
LEMMA StackTop ==
    ASSUME NEW S, NEW q \in Seq(S), q # <<>>
    PROVE  Front(q) \in Seq(S) /\ Last(q) \in S
  <1>1. Len(q) \in Nat /\ Len(q) # 0
    BY EmptySeq
  <1>2. Len(q) \in 1..Len(q)
    BY <1>1
  <1>3. q[Len(q)] \in S
    BY <1>2, ElementOfSeq
  <1>4. SubSeq(q, 1, Len(q) - 1) \in Seq(S)
    BY <1>1
  <1> QED
    BY <1>3, <1>4 DEF Front, Last

LEMMA PopTyped ==
    ASSUME NavTypeOK, navStack # <<>>
    PROVE  /\ Front(navStack) \in Seq([view : Views, selected : Selections])
           /\ Last(navStack).view \in Views
           /\ Last(navStack).selected \in Selections
  <1>1. /\ Front(navStack) \in Seq([view : Views, selected : Selections])
        /\ Last(navStack) \in [view : Views, selected : Selections]
    BY StackTop DEF NavTypeOK
  <1> QED
    BY <1>1

\* Going to a page with an entry of its own, or pushing the current address.
LEMMA PushTyped ==
    ASSUME NavTypeOK, NEW u \in Addresses, RouterPush(u) \/ PushState
    PROVE  /\ hist' \in Seq(Addresses) /\ at' \in DOMAIN hist'
           /\ routing' \in {NoRoute} \cup
                           [op : {"push", "replace"}, url : Addresses]
  <1>1. CASE RouterPush(u)
    BY <1>1 DEF RouterPush, NavTypeOK, history
  <1>2. CASE PushState
    BY <1>2, NewEntryTyped, AddressTyped DEF PushState
  <1> QED
    BY <1>1, <1>2

LEMMA navigateToTyped ==
    ASSUME NavTypeOK, NEW v \in Views, NEW s \in Selections,
           NEW u \in Addresses, navigateTo(v, s, u)
    PROVE  /\ hist' \in Seq(Addresses) /\ at' \in DOMAIN hist'
           /\ routing' \in {NoRoute} \cup
                           [op : {"push", "replace"}, url : Addresses]
           /\ view' \in Views /\ selected' \in Selections
           /\ navStack' \in Seq([view : Views, selected : Selections])
  <1>1. view' \in Views /\ selected' \in Selections
    BY DEF navigateTo, Show
  <1>2. CASE v = view
    BY <1>1, <1>2 DEF navigateTo, history, NavTypeOK
  <1>3. CASE v # view
    <2>1. RouterPush(u) \/ PushState
      BY <1>3 DEF navigateTo
    <2>2. navStack' = Append(navStack, Snapshot)
      BY <1>3 DEF navigateTo
    <2> QED
      BY <1>1, <2>1, <2>2, PushTyped, StackTyped
  <1> QED
    BY <1>2, <1>3

LEMMA ReplacedTyped ==
    ASSUME NavTypeOK, NEW v \in Views, NEW s \in Selections,
           NEW u \in Addresses, Replaced(v, s, u)
    PROVE  /\ hist' \in Seq(Addresses) /\ at' \in DOMAIN hist'
           /\ routing' \in {NoRoute} \cup
                           [op : {"push", "replace"}, url : Addresses]
           /\ view' \in Views /\ selected' \in Selections
           /\ navStack' \in Seq([view : Views, selected : Selections])
  BY PushTyped, StackTyped DEF Replaced, Show

LEMMA handlePopStateTyped ==
    ASSUME NavTypeOK, NEW to \in DOMAIN hist, handlePopState(to)
    PROVE  /\ hist' \in Seq(Addresses) /\ at' \in DOMAIN hist'
           /\ routing' \in {NoRoute} \cup
                           [op : {"push", "replace"}, url : Addresses]
           /\ view' \in Views /\ selected' \in Selections
           /\ navStack' \in Seq([view : Views, selected : Selections])
  <1> DEFINE r == hist[to] # address
  <1>1. hist' \in Seq(Addresses) /\ at' \in DOMAIN hist'
    BY DEF handlePopState, NavTypeOK
  <1>2. hist[to] \in Addresses
    BY DEF NavTypeOK
  <1>3. CASE /\ navStack # <<>>
             /\ navStack' = Front(navStack)
             /\ Show(Last(navStack).view, Last(navStack).selected, r)
             /\ routing' = NoRoute
    BY <1>1, <1>3, PopTyped DEF Show
  <1>4. CASE /\ Show(view, selected, r)
             /\ routing' = [op |-> "replace", url |-> hist[to]]
             /\ UNCHANGED navStack
    BY <1>1, <1>2, <1>4 DEF Show, NavTypeOK
  <1>5. CASE /\ Show("home", selected, r)
             /\ routing' = NoRoute
             /\ UNCHANGED navStack
    BY <1>1, <1>5 DEF Show, NavTypeOK, Views
  <1> QED
    BY <1>3, <1>4, <1>5 DEF handlePopState

-----------------------------------------------------------------------------
(* Each action keeps the shape *)

\* What the customer's actions leave alone.
LEMMA ClickTyped ==
    ASSUME NavTypeOK, UNCHANGED <<known, fetching>>,
           hist' \in Seq(Addresses), at' \in DOMAIN hist',
           routing' \in {NoRoute} \cup
                        [op : {"push", "replace"}, url : Addresses],
           view' \in Views, selected' \in Selections,
           navStack' \in Seq([view : Views, selected : Selections])
    PROVE  NavTypeOK'
  BY DEF NavTypeOK, fetching

LEMMA ProductTyped ==
    ASSUME NavTypeOK, NEW i \in Items, handleProductClick(i)
    PROVE  NavTypeOK'
  <1> DEFINE s == [selected EXCEPT !["product"] = i]
  <1>1. s \in Selections
    BY SelectTyped DEF NavTypeOK, Kinds
  <1>2. i \in Addresses /\ "product" \in Views
    BY DEF Addresses, Views, Kinds
  <1>3. CASE Replaced("product", s, i)
    BY <1>1, <1>2, <1>3, ReplacedTyped, ClickTyped DEF handleProductClick
  <1>4. CASE navigateTo("product", s, i)
    BY <1>1, <1>2, <1>4, navigateToTyped, ClickTyped DEF handleProductClick
  <1> QED
    BY <1>3, <1>4 DEF handleProductClick

LEMMA VendorTyped ==
    ASSUME NavTypeOK, NEW i \in Items, handleVendorClick(i)
    PROVE  NavTypeOK'
  <1> DEFINE s == [selected EXCEPT !["store"] = i]
  <1>1. s \in Selections
    BY SelectTyped DEF NavTypeOK, Kinds
  <1>2. i \in Addresses /\ "store" \in Views
    BY DEF Addresses, Views, Kinds
  <1>3. CASE Replaced("store", s, i)
    BY <1>1, <1>2, <1>3, ReplacedTyped, ClickTyped DEF handleVendorClick
  <1>4. CASE navigateTo("store", s, i)
    BY <1>1, <1>2, <1>4, navigateToTyped, ClickTyped DEF handleVendorClick
  <1> QED
    BY <1>3, <1>4 DEF handleVendorClick

LEMMA OpenTyped ==
    ASSUME NavTypeOK, NEW p \in Pages, OpenPage(p)
    PROVE  NavTypeOK'
  <1>1. p \in Views /\ selected \in Selections
    BY DEF NavTypeOK, Views
  <1> QED
    BY <1>1, AddressTyped, navigateToTyped, ClickTyped DEF OpenPage

LEMMA HomeTyped ==
    ASSUME NavTypeOK, onHomeClick
    PROVE  NavTypeOK'
  <1>1. "home" \in Views /\ selected \in Selections /\ Home \in Addresses
    BY DEF NavTypeOK, Views, Addresses
  <1> QED
    BY <1>1, navigateToTyped, ClickTyped DEF onHomeClick

LEMMA CompleteTyped ==
    ASSUME NavTypeOK, NEW p \in Pages, onOrderComplete(p)
    PROVE  NavTypeOK'
  <1>1. view' \in Views /\ selected' \in Selections
    BY DEF onOrderComplete, Show, NavTypeOK, Views
  <1>2. navStack' \in Seq([view : Views, selected : Selections])
    BY SnapshotTyped DEF onOrderComplete
  <1> QED
    BY <1>1, <1>2, PushTyped, AddressTyped, ClickTyped DEF onOrderComplete

LEMMA PopsTyped ==
    ASSUME NavTypeOK, Back \/ Forward
    PROVE  NavTypeOK'
  <1>1. at \in 1..Len(hist)
    BY DEF NavTypeOK
  <1>2. CASE Back
    <2>1. at - 1 \in DOMAIN hist
      BY <1>1, <1>2 DEF Back, NavTypeOK
    <2> QED
      BY <1>2, <2>1, handlePopStateTyped, ClickTyped DEF Back
  <1>3. CASE Forward
    <2>1. at + 1 \in DOMAIN hist
      BY <1>1, <1>3 DEF Forward, NavTypeOK
    <2> QED
      BY <1>3, <2>1, handlePopStateTyped, ClickTyped DEF Forward
  <1> QED
    BY <1>2, <1>3

LEMMA LeaveTyped ==
    ASSUME NavTypeOK, navigateBack
    PROVE  NavTypeOK'
  BY DEF navigateBack, Show, NavTypeOK, Views, history, fetching

LEMMA RouterTyped ==
    ASSUME NavTypeOK, RouterDone
    PROVE  NavTypeOK'
  <1>1. routing.url \in Addresses
    BY DEF RouterDone, NavTypeOK
  <1>2. view' = view /\ selected' = selected
    BY DEF RouterDone, Show
  <1>3. hist' \in Seq(Addresses) /\ at' \in DOMAIN hist'
    <2>1. CASE UNCHANGED history
      BY <2>1 DEF history, NavTypeOK
    <2>2. CASE NewEntry(routing.url)
      BY <1>1, <2>2, NewEntryTyped
    <2>3. CASE hist' = [hist EXCEPT ![at] = routing.url] /\ UNCHANGED at
      BY <1>1, <2>3 DEF NavTypeOK
    <2> QED
      BY <2>1, <2>2, <2>3 DEF RouterDone
  <1>4. routing' = NoRoute
    BY DEF RouterDone
  <1> QED
    BY <1>2, <1>3, <1>4 DEF RouterDone, NavTypeOK, fetching

LEMMA LoadedTyped ==
    ASSUME NavTypeOK, Loaded
    PROVE  NavTypeOK'
  BY DEF Loaded, NavTypeOK, history, page, fetching

LEMMA EffectsTyped ==
    ASSUME NavTypeOK, RunEffects
    PROVE  NavTypeOK'
  <1>1. Asks \/ Found => address \in Items /\ kindOf[address] \in Kinds
    BY KindTyped DEF Asks, Found, Missing
  <1>2. urlFetch' \in Items \cup {None}
    BY <1>1 DEF RunEffects, Released, NavTypeOK
  <1>3. fetches' \in [Items -> Nat]
    BY <1>1 DEF RunEffects, NavTypeOK
  <1>4. fetchPending' \in [Kinds -> BOOLEAN]
    BY <1>1 DEF RunEffects, NavTypeOK
  <1>5. selected' \in Selections
    BY <1>1, SelectTyped DEF RunEffects, NavTypeOK
  <1>6. view' \in Views
    BY <1>1 DEF RunEffects, NavTypeOK, Views
  <1>7. forced' \in Items \cup {None} /\ aborted' \subseteq Kinds
    BY KindTyped, SMTT(30) DEF RunEffects, ForcedEffect, Wanted, NavTypeOK
  <1> QED
    BY <1>2, <1>3, <1>4, <1>5, <1>6, <1>7
    DEF RunEffects, NavTypeOK, history

LEMMA SettleTyped ==
    ASSUME NavTypeOK, NEW k \in Kinds, NEW s \in BOOLEAN, Settle(k, s)
    PROVE  /\ fetchPending' \in [Kinds -> BOOLEAN]
           /\ settled' \in [Kinds -> BOOLEAN]
  BY DEF Settle, NavTypeOK

LEMMA AnswerTyped ==
    ASSUME NavTypeOK, NEW i \in Items, UrlAnswer(i)
    PROVE  NavTypeOK'
  <1>1. kindOf[i] \in Kinds
    BY KindTyped
  <1>2. fetches' \in [Items -> Nat]
    BY DEF UrlAnswer, NavTypeOK
  <1>3. /\ view' \in Views /\ selected' \in Selections
        /\ urlFetch' \in Items \cup {None}
        /\ routing' \in {NoRoute} \cup
                        [op : {"push", "replace"}, url : Addresses]
    <2>1. CASE UrlFetched(i)
      BY <1>1, <2>1, SelectTyped DEF UrlFetched, Show, NavTypeOK, Views
    <2>2. CASE UrlNotFound(i)
      BY <1>1, <2>2, SelectTyped
      DEF UrlNotFound, Show, NavTypeOK, Views, Addresses
    <2> QED
      BY <2>1, <2>2 DEF UrlAnswer
  <1>4. (~settled[kindOf[i]]) \in BOOLEAN
    OBVIOUS
  <1>5. /\ fetchPending' \in [Kinds -> BOOLEAN]
        /\ settled' \in [Kinds -> BOOLEAN]
    BY <1>1, <1>4, SettleTyped DEF UrlAnswer
  <1> QED
    BY <1>2, <1>3, <1>5 DEF UrlAnswer, NavTypeOK, history

LEMMA ForcedTyped ==
    ASSUME NavTypeOK, ForcedAnswer
    PROVE  NavTypeOK'
  <1>1. forced \in Items /\ kindOf[forced] \in Kinds
    BY KindTyped DEF ForcedAnswer, NavTypeOK
  <1>2. view' \in Views /\ selected' \in Selections
    BY <1>1, SelectTyped DEF ForcedAnswer, Show, NavTypeOK
  <1>3. /\ fetchPending' \in [Kinds -> BOOLEAN]
        /\ settled' \in [Kinds -> BOOLEAN]
    BY <1>1, SettleTyped DEF ForcedAnswer
  <1> QED
    BY <1>2, <1>3 DEF ForcedAnswer, NavTypeOK, history

LEMMA AbortedTyped ==
    ASSUME NavTypeOK, NEW k \in Kinds, Aborted(k)
    PROVE  NavTypeOK'
  <1>1. /\ fetchPending' \in [Kinds -> BOOLEAN]
        /\ settled' \in [Kinds -> BOOLEAN]
    BY SettleTyped DEF Aborted
  <1> QED
    BY <1>1 DEF Aborted, NavTypeOK, history, page

-----------------------------------------------------------------------------
(* The theorem *)

LEMMA NavInitTyped ==
    ASSUME NavInit
    PROVE  NavTypeOK
  <1>1. PICK u \in Addresses : hist = <<u>>
    BY DEF NavInit
  <1>2. hist \in Seq(Addresses) /\ at \in DOMAIN hist /\ address \in Addresses
    BY <1>1 DEF NavInit, address
  <1>3. view \in Views
    BY KindTyped DEF NavInit, Views
  <1>4. selected \in Selections
    BY DEF NavInit, Selections
  <1>5. /\ fetchPending \in [Kinds -> BOOLEAN]
        /\ settled \in [Kinds -> BOOLEAN]
        /\ fetches \in [Items -> Nat]
        /\ forced = None /\ urlFetch = None /\ aborted = {} /\ known = {}
        /\ navStack = <<>> /\ routing = NoRoute
    BY DEF NavInit
  <1> QED
    BY <1>2, <1>3, <1>4, <1>5 DEF NavTypeOK

LEMMA NavStep ==
    ASSUME NavTypeOK, [NavNext]_navVars
    PROVE  NavTypeOK'
  <1>1. CASE RunEffects
    BY <1>1, EffectsTyped
  <1>2. CASE RouterDone
    BY <1>2, RouterTyped
  <1>3. CASE Loaded
    BY <1>3, LoadedTyped
  <1>4. CASE ForcedAnswer
    BY <1>4, ForcedTyped
  <1>5. CASE \E i \in Items : UrlAnswer(i)
    BY <1>5, AnswerTyped
  <1>6. CASE \E k \in Kinds : Aborted(k)
    BY <1>6, AbortedTyped
  <1>7. CASE \E i \in Items : handleProductClick(i) \/ handleVendorClick(i)
    BY <1>7, ProductTyped, VendorTyped
  <1>8. CASE \E p \in Pages : OpenPage(p) \/ onOrderComplete(p)
    BY <1>8, OpenTyped, CompleteTyped
  <1>9. CASE onHomeClick \/ navigateBack
    BY <1>9, HomeTyped, LeaveTyped
  <1>10. CASE Back \/ Forward
    BY <1>10, PopsTyped
  <1>11. CASE UNCHANGED navVars
    BY <1>11 DEF navVars, history, page, fetching, moved, NavTypeOK
  <1> QED
    BY <1>1, <1>2, <1>3, <1>4, <1>5, <1>6, <1>7, <1>8, <1>9, <1>10, <1>11
    DEF NavNext

\* Whatever the customer presses and in whatever order the answers come, the
\* address bar is on an entry of the history and every snapshot of navStack
\* can be restored.
THEOREM NavTypeCorrect == NavSpec => []NavTypeOK
  <1>1. NavInit => NavTypeOK
    BY NavInitTyped
  <1>2. NavTypeOK /\ [NavNext]_navVars => NavTypeOK'
    BY NavStep
  <1> QED
    BY <1>1, <1>2, PTL DEF NavSpec

-----------------------------------------------------------------------------
(* What the address names *)

\* The reference that stops the address effect from asking again is set only
\* while an answer for its item is on the way; only an item that a fetch may
\* end without can leave it set for good.
GuardIsFetched ==
    \A i \in Items \ Missable : urlFetch = i => fetches[i] > 0

\* When the address effect has nothing to run for, it has asked.
MissingIsAsked ==
    ~urlMoved /\ address \in Items \ Missable =>
        selected[kindOf[address]] = address \/ fetches[address] > 0

NamedInv == GuardIsFetched /\ MissingIsAsked

LEMMA NamedInit ==
    ASSUME NavInit
    PROVE  NamedInv
<1>1. urlMoved /\ \A i \in Items : urlFetch # i
  BY NavigationAssumption DEF NavInit
<1> QED
  BY <1>1 DEF NamedInv, GuardIsFetched, MissingIsAsked

\* A step that sets the page through Show, fetches nothing, and reports a new
\* address as one: the effect will see whatever it makes missing.
LEMMA ShownIsSeen ==
    ASSUME NamedInv, NEW v, NEW s, NEW r \in BOOLEAN, Show(v, s, r),
           r \/ address' = address, urlFetch' = urlFetch, fetches' = fetches
    PROVE  NamedInv'
<1>1. GuardIsFetched'
  BY DEF NamedInv, GuardIsFetched
<1>2. CASE urlMoved'
  BY <1>1, <1>2 DEF NamedInv, MissingIsAsked
<1>3. CASE ~urlMoved'
  <2>1. ~urlMoved /\ ~r /\ selected' = selected
    BY <1>3 DEF Show
  <2>2. address' = address
    BY <2>1
  <2>3. MissingIsAsked'
    BY <2>1, <2>2 DEF NamedInv, MissingIsAsked
  <2> QED
    BY <1>1, <2>3 DEF NamedInv
<1> QED
  BY <1>2, <1>3

\* A second entry for the same address, or none yet.
LEMMA PushKeepsAddress ==
    ASSUME NavTypeOK, NEW u, RouterPush(u) \/ PushState
    PROVE  address' = address
<1>1. CASE RouterPush(u)
  BY <1>1 DEF RouterPush, history, address
<1>2. CASE PushState
  <2>1. at \in 1 .. Len(hist) /\ hist \in Seq(Addresses)
    BY DEF NavTypeOK
  <2>2. /\ SubSeq(hist, 1, at) \in Seq(Addresses)
        /\ Len(SubSeq(hist, 1, at)) = at
    BY <2>1
  <2>3. hist' = Append(SubSeq(hist, 1, at), address) /\ at' = at + 1
    BY <1>2 DEF PushState, NewEntry
  <2>4. hist'[at'] = address
    BY <2>1, <2>2, <2>3, AddressTyped, AppendProperties
  <2> QED
    BY <2>4 DEF address
<1> QED
  BY <1>1, <1>2

LEMMA navigateToNamed ==
    ASSUME NavTypeOK, NamedInv, NEW v, NEW s, NEW u, UNCHANGED fetching,
           navigateTo(v, s, u) \/ Replaced(v, s, u)
    PROVE  NamedInv'
<1>1. address' = address
  BY PushKeepsAddress DEF navigateTo, Replaced, history, address
<1>2. Show(v, s, FALSE)
  BY DEF navigateTo, Replaced
<1> QED
  BY <1>1, <1>2, ShownIsSeen DEF fetching

LEMMA PopNamed ==
    ASSUME NavTypeOK, NamedInv, NEW to, handlePopState(to), UNCHANGED fetching
    PROVE  NamedInv'
<1> DEFINE r == hist[to] # address
<1>1. address' = hist[to] /\ r \in BOOLEAN
  BY DEF handlePopState, address
<1>2. PICK v, s : Show(v, s, r)
  BY DEF handlePopState
<1>3. r \/ address' = address
  BY <1>1
<1> HIDE DEF r
<1> QED
  BY <1>1, <1>2, <1>3, ShownIsSeen DEF fetching

LEMMA RouterNamed ==
    ASSUME NavTypeOK, NamedInv, RouterDone
    PROVE  NamedInv'
<1> DEFINE r == routing.url # address
<1>1. r \/ address' = address
  BY DEF RouterDone, history, address
<1>2. Show(view, selected, r) /\ r \in BOOLEAN
  BY DEF RouterDone
<1>3. urlFetch' = urlFetch /\ fetches' = fetches
  BY DEF RouterDone, fetching
<1> HIDE DEF r
<1> QED
  BY <1>1, <1>2, <1>3, ShownIsSeen

\* The address effect finds what is missing, asks for it, or is waiting for it.
LEMMA EffectsNamed ==
    ASSUME NavTypeOK, NamedInv, RunEffects
    PROVE  NamedInv'
<1>1. /\ urlMoved' = (page' # page) /\ address' = address
      /\ fetches' = IF Asks THEN [fetches EXCEPT ![address] = @ + 1] ELSE fetches
      /\ urlFetch' = IF ~urlMoved THEN urlFetch
                     ELSE IF Asks THEN address
                     ELSE IF Missing /\ ~Found THEN Released ELSE None
      /\ selected' = IF Found THEN [selected EXCEPT ![kindOf[address]] = address]
                     ELSE selected
      /\ fetches \in [Items -> Nat] /\ selected \in Selections
  BY DEF RunEffects, history, address, NavTypeOK
<1>2. \A i \in Items : fetches[i] \in Nat /\ fetches'[i] \in Nat /\ fetches'[i] >= fetches[i]
  BY <1>1
<1>3. Asks => address \in Items /\ fetches'[address] > 0
  BY <1>1 DEF Asks, Missing
<1>4. GuardIsFetched'
  <2>1. \A i \in Items : urlFetch' = i => urlFetch = i \/ (Asks /\ i = address)
    BY <1>1, NavigationAssumption DEF Released
  <2> QED
    BY <1>2, <1>3, <2>1 DEF NamedInv, GuardIsFetched
<1>5. MissingIsAsked'
  <2> SUFFICES ASSUME ~urlMoved', address \in Items \ Missable,
                      selected'[kindOf[address]] # address
               PROVE  fetches'[address] > 0
    BY <1>1 DEF MissingIsAsked
  <2>1. selected' = selected
    BY <1>1 DEF page
  <2>2. Missing
    BY <2>1 DEF Missing
  <2>3. CASE ~urlMoved
    BY <1>2, <2>1, <2>3 DEF NamedInv, MissingIsAsked
  <2>4. CASE urlMoved
    <3>1. ~Found
      <4>1. kindOf[address] \in Kinds
        BY KindTyped
      <4>2. Found => selected'[kindOf[address]] = address
        BY <1>1, <4>1 DEF Selections
      <4> QED
        BY <4>2
    <3>2. CASE Asks
      BY <1>3, <3>2
    <3>3. CASE ~Asks
      <4>1. Released # None
        BY <2>2, <2>4, <3>1, <3>3 DEF Asks, Found
      <4>2. urlFetch = address
        BY <4>1 DEF Released
      <4> QED
        BY <1>2, <4>2 DEF NamedInv, GuardIsFetched
    <3> QED
      BY <3>2, <3>3
  <2> QED
    BY <2>3, <2>4
<1> QED
  BY <1>4, <1>5 DEF NamedInv

\* An answer shows its item, or leaves the counts of the others alone.
LEMMA AnswerNamed ==
    ASSUME NavTypeOK, NamedInv, NEW i \in Items, UrlAnswer(i)
    PROVE  NamedInv'
<1>0. /\ fetches' = [fetches EXCEPT ![i] = @ - 1] /\ address' = address
      /\ fetches \in [Items -> Nat] /\ selected \in Selections /\ kindOf[i] \in Kinds
  BY KindTyped DEF UrlAnswer, history, address, NavTypeOK
<1>1. CASE UrlFetched(i)
  <2>1. urlFetch' = None /\ selected' = [selected EXCEPT ![kindOf[i]] = i]
    BY <1>1 DEF UrlFetched, Show
  <2>2. GuardIsFetched'
    BY <2>1, NavigationAssumption DEF GuardIsFetched
  <2>3. CASE urlMoved'
    BY <2>2, <2>3 DEF NamedInv, MissingIsAsked
  <2>4. CASE ~urlMoved'
    <3>1. ~urlMoved /\ selected' = selected
      BY <1>1, <2>4 DEF UrlFetched, Show
    <3>2. selected[kindOf[i]] = i
      BY <1>0, <2>1, <3>1 DEF Selections
    <3>3. MissingIsAsked'
      BY <1>0, <3>1, <3>2 DEF NamedInv, MissingIsAsked
    <3> QED
      BY <2>2, <3>3 DEF NamedInv
  <2> QED
    BY <2>3, <2>4
<1>2. CASE UrlNotFound(i)
  <2>1. i \in Missable /\ urlFetch' = urlFetch
    BY <1>2 DEF UrlNotFound
  <2>2. GuardIsFetched'
    BY <1>0, <2>1 DEF NamedInv, GuardIsFetched
  <2>3. ~urlMoved' => ~urlMoved /\ selected' = selected
    BY <1>2 DEF UrlNotFound, Show
  <2>4. MissingIsAsked'
    BY <1>0, <2>1, <2>3 DEF NamedInv, MissingIsAsked
  <2> QED
    BY <2>2, <2>4 DEF NamedInv
<1> QED
  BY <1>1, <1>2 DEF UrlAnswer

LEMMA NamedStep ==
    ASSUME NavTypeOK, NamedInv, [NavNext]_navVars
    PROVE  NamedInv'
<1>1. CASE Loaded
  <2>1. urlMoved' /\ urlFetch' = urlFetch /\ fetches' = fetches
    BY <1>1 DEF Loaded, fetching
  <2> QED
    BY <2>1 DEF NamedInv, GuardIsFetched, MissingIsAsked
<1>2. CASE ForcedAnswer
  <2>1. PICK s : Show(view, s, FALSE)
    BY <1>2 DEF ForcedAnswer
  <2>2. address' = address /\ urlFetch' = urlFetch /\ fetches' = fetches
    BY <1>2 DEF ForcedAnswer, history, address
  <2> QED
    BY <2>1, <2>2, ShownIsSeen
<1>3. ASSUME NEW i \in Items, handleProductClick(i) \/ handleVendorClick(i)
      PROVE  NamedInv'
  <2>1. PICK v, s : navigateTo(v, s, i) \/ Replaced(v, s, i)
    BY <1>3 DEF handleProductClick, handleVendorClick
  <2> QED
    BY <1>3, <2>1, navigateToNamed DEF handleProductClick, handleVendorClick
<1>4. ASSUME NEW p \in Pages, OpenPage(p)
      PROVE  NamedInv'
  BY <1>4, navigateToNamed DEF OpenPage
<1>5. CASE onHomeClick
  BY <1>5, navigateToNamed DEF onHomeClick
<1>6. ASSUME NEW p \in Pages, onOrderComplete(p)
      PROVE  NamedInv'
  <2>1. address' = address
    BY <1>6, PushKeepsAddress DEF onOrderComplete
  <2> QED
    BY <1>6, <2>1, ShownIsSeen DEF onOrderComplete, fetching
<1>7. CASE Back \/ Forward
  BY <1>7, PopNamed DEF Back, Forward
<1>8. CASE navigateBack
  <2>1. address' = address
    BY <1>8 DEF navigateBack, history, address
  <2> QED
    BY <1>8, <2>1, ShownIsSeen DEF navigateBack, fetching
<1>9. ASSUME NEW k \in Kinds, Aborted(k)
      PROVE  NamedInv'
  BY <1>9 DEF Aborted, history, page, moved, address, NamedInv, GuardIsFetched,
     MissingIsAsked
<1>10. CASE UNCHANGED navVars
  BY <1>10 DEF navVars, history, page, moved, fetching, address, NamedInv,
     GuardIsFetched, MissingIsAsked
<1> QED
  BY <1>1, <1>2, <1>3, <1>4, <1>5, <1>6, <1>7, <1>8, <1>9, <1>10, EffectsNamed,
     RouterNamed, AnswerNamed DEF NavNext

\* However the customer's moves, the router and the answers of fetches interleave,
\* no page that has rendered is left under the address of another product or shop
\* without a fetch for it on its way, for any set of products and shops.
THEOREM NamedAndShown == NavSpec => []NamedIsShown
<1>1. NavInit => NavTypeOK /\ NamedInv
  BY NavInitTyped, NamedInit
<1>2. NavTypeOK /\ NamedInv /\ [NavNext]_navVars => (NavTypeOK /\ NamedInv)'
  BY NavStep, NamedStep
<1>3. NamedInv => NamedIsShown
  BY DEF NamedInv, MissingIsAsked, NamedIsShown, Rendered
<1> QED
  BY <1>1, <1>2, <1>3, PTL DEF NavSpec
=============================================================================
