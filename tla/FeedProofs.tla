----------------------------- MODULE FeedProofs -----------------------------
(***************************************************************************)
(* What a customer of the endless grid sees, for every catalogue, page     *)
(* size, width of screen and number of visits.  Spreading the shops out    *)
(* settles place after place, by induction over the places; a page is      *)
(* rearranged behind the end of the list it will follow, so that what is   *)
(* true of Spread is true of the grid.  And feedCache holds what was       *)
(* rendered last, under the language it was rendered in, whatever the      *)
(* setters were given since.                                               *)
(***************************************************************************)
EXTENDS Feed, SequenceTheorems, WellFoundedInduction, TLAPS

-----------------------------------------------------------------------------
(* Recursion over the places of a sequence. *)

\* A set of naturals that holds 0, and with n also n + 1, holds all of them.
LEMMA SetInduction ==
    ASSUME NEW T, 0 \in T, \A n \in Nat : n \in T => n + 1 \in T
    PROVE  \A n \in Nat : n \in T
<1> DEFINE R == OpToRel(<, Nat)
           M == {n \in Nat : n \notin T}
<1>1. IsWellFoundedOn(R, Nat)
  BY NatLessThanWellFounded
<1>2. \A x, y \in Nat : <<x, y>> \in R <=> x < y
  BY DEF OpToRel
<1> HIDE DEF R
<1>3. ASSUME M # {} PROVE FALSE
  <2>1. \E m \in M : \A k \in M : <<k, m>> \notin R
    <3>1. M \subseteq Nat
      OBVIOUS
    <3> HIDE DEF M
    <3> QED
      BY <1>1, <1>3, <3>1, WFMin
  <2>2. PICK m \in M : \A k \in M : <<k, m>> \notin R
    BY <2>1
  <2>3. m \in Nat /\ m # 0 /\ m \notin T
    OBVIOUS
  <2>4. m - 1 \in Nat /\ m - 1 < m /\ (m - 1) + 1 = m
    BY <2>3
  <2>5. m - 1 \notin T
    BY <2>3, <2>4
  <2> QED
    BY <1>2, <2>2, <2>3, <2>4, <2>5
<1> QED
  BY <1>3

\* The smallest of some naturals is one of them.
LEMMA MinIsThere ==
    ASSUME NEW S, S \subseteq Nat, S # {}
    PROVE  Min(S) \in S
<1> DEFINE R == OpToRel(<, Nat)
<1>1. IsWellFoundedOn(R, Nat)
  BY NatLessThanWellFounded
<1>2. \A x, y \in Nat : <<x, y>> \in R <=> x < y
  BY DEF OpToRel
<1> HIDE DEF R
<1>3. PICK m \in S : \A k \in S : <<k, m>> \notin R
  BY <1>1, WFMin
<1>4. ASSUME NEW k \in S PROVE m <= k
  <2>1. k \in Nat /\ m \in Nat /\ ~ (k < m)
    BY <1>2, <1>3
  <2> QED
    BY <2>1
<1> QED
  BY <1>4, Zenon DEF Min
-----------------------------------------------------------------------------
(* What Spread returns. *)

\* A crowded card at place k has no card after it that could have come first.
Settled(head, out, k, barred) ==
    Crowded(head \o SubSeq(out, 1, k - 1), vendorOf[out[k]]) =>
      \A j \in (k + 1) .. Len(out) :
        vendorOf[out[j]] \in barred \cup {vendorOf[out[k]]}

\* `order` says which card of the batch is at each place, each card once.
IsOrder(order, batch) ==
    /\ order \in [1 .. Len(batch) -> 1 .. Len(batch)]
    /\ \A k, m \in 1 .. Len(batch) : order[k] = order[m] => k = m
    /\ \A m \in 1 .. Len(batch) : \E k \in 1 .. Len(batch) : order[k] = m

\* The same cards in another order.
Rearranged(batch, out) ==
    \E order : /\ IsOrder(order, batch)
              /\ \A k \in 1 .. Len(batch) : out[k] = batch[order[k]]

\* The places up to n are settled, and no card was lost or put in twice.
SettledUpTo(n, head, batch, out, barred) ==
    /\ out \in Seq(Products)
    /\ Len(out) = Len(batch)
    /\ Rearranged(batch, out)
    /\ \A k \in 1 .. n : Settled(head, out, k, barred)

\* Nobody is crowded by two shops at once.
LEMMA OneCrowd ==
    ASSUME NEW history \in Seq(Products), NEW v, NEW w,
           Crowded(history, v), Crowded(history, w)
    PROVE  v = w
<1>1. Len(history) \in Nat /\ Len(history) >= 2
  BY DEF Crowded, MaxConsecutive
<1>2. Len(LastOf(history)) = 2 /\ LastOf(history) \in Seq(Products)
  BY <1>1, SubSeqProperties, ElementOfSeq DEF LastOf, MaxConsecutive
<1>3. 1 \in DOMAIN LastOf(history)
  BY <1>2
<1> QED
  BY <1>3 DEF Crowded

\* Two cards change places, and nothing else.
LEMMA SwapProperties ==
    ASSUME NEW out \in Seq(Products),
           NEW i \in 1 .. Len(out), NEW j \in (i + 1) .. Len(out)
    PROVE  /\ Swap(out, i, j) \in Seq(Products)
           /\ Len(Swap(out, i, j)) = Len(out)
           /\ \A m \in 1 .. Len(out) :
                Swap(out, i, j)[m] = IF m = i THEN out[j]
                                     ELSE IF m = j THEN out[i] ELSE out[m]
<1>1. /\ j \in 1 .. Len(out) /\ i # j
      /\ out \in [1 .. Len(out) -> Products]
      /\ Len(out) \in Nat
  OBVIOUS
<1>2. Swap(out, i, j) \in [1 .. Len(out) -> Products]
  BY <1>1 DEF Swap
<1> QED
  BY <1>1, <1>2 DEF Swap

\* Two cards of a rearranged batch may change places.
LEMMA SwapRearranges ==
    ASSUME NEW batch \in Seq(Products), NEW out \in Seq(Products),
           Len(out) = Len(batch), Rearranged(batch, out),
           NEW i \in 1 .. Len(out), NEW j \in (i + 1) .. Len(out)
    PROVE  Rearranged(batch, Swap(out, i, j))
<1> DEFINE N == Len(batch)
<1>1. PICK order : /\ IsOrder(order, batch)
                   /\ \A k \in 1 .. N : out[k] = batch[order[k]]
  BY DEF Rearranged
<1>2. /\ N \in Nat /\ i \in 1 .. N /\ j \in 1 .. N /\ i # j
      /\ order \in [1 .. N -> 1 .. N]
      /\ \A k, m \in 1 .. N : order[k] = order[m] => k = m
      /\ \A m \in 1 .. N : \E k \in 1 .. N : order[k] = m
  <2>1. N \in Nat /\ i \in 1 .. N /\ j \in 1 .. N /\ i # j
    OBVIOUS
  <2> QED
    BY <1>1, <2>1 DEF IsOrder
<1> HIDE DEF N
<1> DEFINE new == [k \in 1 .. N |-> IF k = i THEN order[j]
                                   ELSE IF k = j THEN order[i] ELSE order[k]]
<1>3. new \in [1 .. N -> 1 .. N]
  BY <1>2
<1>4. \A k, m \in 1 .. N : new[k] = new[m] => k = m
  BY <1>2
<1>5. ASSUME NEW m \in 1 .. N
      PROVE  \E k \in 1 .. N : new[k] = m
  <2>1. PICK k \in 1 .. N : order[k] = m
    BY <1>2
  <2>2. CASE k = i
    BY <1>2, <2>1, <2>2
  <2>3. CASE k = j
    BY <1>2, <2>1, <2>3
  <2>4. CASE k # i /\ k # j
    BY <1>2, <2>1, <2>4
  <2> QED
    BY <2>2, <2>3, <2>4
<1>6. ASSUME NEW k \in 1 .. N
      PROVE  Swap(out, i, j)[k] = batch[new[k]]
  <2>1. Swap(out, i, j)[k] = IF k = i THEN out[j]
                             ELSE IF k = j THEN out[i] ELSE out[k]
    BY SwapProperties DEF N
  <2>2. new[k] = IF k = i THEN order[j] ELSE IF k = j THEN order[i] ELSE order[k]
    OBVIOUS
  <2> HIDE DEF new
  <2> QED
    BY <1>1, <1>2, <2>1, <2>2
<1> HIDE DEF new
<1>7. IsOrder(new, batch)
  BY <1>3, <1>4, <1>5 DEF IsOrder, N
<1> QED
  BY <1>6, <1>7 DEF Rearranged, N

\* What the start of a list is does not depend on what comes later.
LEMMA SameStart ==
    ASSUME NEW s \in Seq(Products), NEW t \in Seq(Products), NEW n \in Int,
           n <= Len(s), n <= Len(t), \A m \in 1 .. n : s[m] = t[m]
    PROVE  SubSeq(s, 1, n) = SubSeq(t, 1, n)
<1>1. \A m \in 1 .. n : s[m] \in Products /\ t[m] \in Products
  BY ElementOfSeq
<1>2. /\ SubSeq(s, 1, n) \in Seq(Products)
      /\ Len(SubSeq(s, 1, n)) = IF 1 <= n THEN n ELSE 0
      /\ \A m \in 1 .. n : SubSeq(s, 1, n)[m] = s[m]
  BY <1>1, SubSeqProperties
<1>3. /\ SubSeq(t, 1, n) \in Seq(Products)
      /\ Len(SubSeq(t, 1, n)) = IF 1 <= n THEN n ELSE 0
      /\ \A m \in 1 .. n : SubSeq(t, 1, n)[m] = t[m]
  BY <1>1, SubSeqProperties
<1> QED
  BY <1>2, <1>3, SeqEqual

\* A start of a sequence is a sequence.
LEMMA StartIsSeq ==
    ASSUME NEW s \in Seq(Products), NEW n \in Int, n <= Len(s)
    PROVE  SubSeq(s, 1, n) \in Seq(Products)
BY ElementOfSeq, SubSeqProperties

\* Placing a card settles its place, and none before it is disturbed.
LEMMA PlaceSettles ==
    ASSUME NEW head \in Seq(Products), NEW batch \in Seq(Products),
           NEW barred, NEW out, NEW n \in Nat, n + 1 <= Len(batch),
           SettledUpTo(n, head, batch, out, barred)
    PROVE  SettledUpTo(n + 1, head, batch,
                       Place(head, out, n + 1, barred), barred)
<1> DEFINE i == n + 1
           mine == vendorOf[out[i]]
           later == {j \in (i + 1) .. Len(out) :
                       vendorOf[out[j]] \notin barred \cup {mine}}
           history(k) == head \o SubSeq(out, 1, k - 1)
<1>1. /\ out \in Seq(Products) /\ Len(out) = Len(batch) /\ Len(out) \in Nat
      /\ i \in 1 .. Len(out)
      /\ Rearranged(batch, out)
      /\ \A k \in 1 .. n : Settled(head, out, k, barred)
  BY DEF SettledUpTo
<1>2. CASE ~ (Crowded(history(i), mine) /\ later # {})
  <2>1. Place(head, out, i, barred) = out
    BY <1>2 DEF Place
  <2>2. Settled(head, out, i, barred)
    BY <1>2 DEF Settled
  <2>3. \A k \in 1 .. i : Settled(head, out, k, barred)
    BY <1>1, <2>2
  <2> QED
    BY <1>1, <2>1, <2>3 DEF SettledUpTo
<1>3. CASE Crowded(history(i), mine) /\ later # {}
  <2> DEFINE j == Min(later)
             new == Swap(out, i, j)
  <2>1. Place(head, out, i, barred) = new
    BY <1>3 DEF Place
  <2>2. j \in later
    <3>1. later \subseteq Nat
      BY <1>1
    <3> HIDE DEF later
    <3> QED
      BY <1>3, <3>1, MinIsThere
  <2>3. /\ j \in (i + 1) .. Len(out)
        /\ vendorOf[out[j]] \notin barred \cup {mine}
    BY <2>2
  <2> HIDE DEF j, later
  <2>4. /\ new \in Seq(Products) /\ Len(new) = Len(out)
        /\ \A m \in 1 .. Len(out) :
             new[m] = IF m = i THEN out[j] ELSE IF m = j THEN out[i] ELSE out[m]
    BY <1>1, <2>3, SwapProperties
  <2>5. Rearranged(batch, new)
    BY <1>1, <2>3, SwapRearranges
  <2> HIDE DEF new
  <2>6. ASSUME NEW k \in 1 .. i
        PROVE  SubSeq(new, 1, k - 1) = SubSeq(out, 1, k - 1)
    <3>1. ASSUME NEW m \in 1 .. (k - 1)
          PROVE  new[m] = out[m]
      <4>1. m \in 1 .. Len(out) /\ m # i /\ m # j
        BY <1>1, <2>3
      <4> QED
        BY <2>4, <4>1
    <3> QED
      BY <1>1, <2>4, <3>1, SameStart
  <2>7. Settled(head, new, i, barred)
    <3>1. SUFFICES ASSUME Crowded(head \o SubSeq(new, 1, i - 1), vendorOf[new[i]])
                   PROVE  FALSE
      BY DEF Settled
    <3>2. Crowded(history(i), vendorOf[out[j]])
      <4>1. SubSeq(new, 1, i - 1) = SubSeq(out, 1, i - 1)
        BY <1>1, <2>6
      <4>2. new[i] = out[j]
        BY <1>1, <2>4
      <4> QED
        BY <3>1, <4>1, <4>2
    <3>3. history(i) \in Seq(Products)
      BY <1>1, StartIsSeq, ConcatProperties
    <3> HIDE DEF history
    <3>4. vendorOf[out[j]] = mine
      BY <1>3, <3>2, <3>3, OneCrowd
    <3> QED
      BY <2>3, <3>4
  <2>8. ASSUME NEW k \in 1 .. n
        PROVE  Settled(head, new, k, barred)
    <3> SUFFICES ASSUME Crowded(head \o SubSeq(new, 1, k - 1), vendorOf[new[k]]),
                        NEW m \in (k + 1) .. Len(new)
                 PROVE  vendorOf[new[m]] \in barred \cup {vendorOf[new[k]]}
      BY DEF Settled
    <3>1. new[k] = out[k] /\ k \in 1 .. i
      BY <1>1, <2>3, <2>4
    <3>2. \A p \in (k + 1) .. Len(out) :
            vendorOf[out[p]] \in barred \cup {vendorOf[out[k]]}
      BY <1>1, <2>6, <3>1 DEF Settled
    <3>3. \E p \in (k + 1) .. Len(out) : new[m] = out[p]
      BY <1>1, <2>3, <2>4
    <3> QED
      BY <3>1, <3>2, <3>3
  <2>9. \A k \in 1 .. i : Settled(head, new, k, barred)
    BY <2>7, <2>8
  <2> QED
    BY <1>1, <2>1, <2>4, <2>9, <2>5 DEF SettledUpTo
<1> QED
  BY <1>2, <1>3

\* When the last place is settled, all are.
LEMMA SpreadSettles ==
    ASSUME NEW head \in Seq(Products), NEW batch \in Seq(Products), NEW barred
    PROVE  SettledUpTo(Len(batch), head, batch,
                       Spread(head, batch, barred), barred)
<1> DEFINE Body(f, n) ==
             [i \in 0 .. n |-> IF i = 0 THEN batch
                               ELSE Place(head, f[i - 1], i, barred)]
           N == Len(batch)
           Placed == CHOOSE f : f = Body(f, N)
<1>1. N \in Nat
  OBVIOUS
<1>2. \E f : f = Body(f, N)
  <2> DEFINE T == {n \in Nat : \E f : f = Body(f, n)}
  <2>1. 0 \in T
    <3>1. [i \in 0 .. 0 |-> batch] = Body([i \in 0 .. 0 |-> batch], 0)
      OBVIOUS
    <3> QED
      BY <3>1
  <2>2. ASSUME NEW n \in Nat, n \in T
        PROVE  n + 1 \in T
    <3>1. PICK f : f = Body(f, n)
      BY <2>2
    <3> DEFINE g == [i \in 0 .. n + 1 |->
                       IF i = n + 1 THEN Place(head, f[n], n + 1, barred)
                                    ELSE f[i]]
    <3>2. g = Body(g, n + 1)
      <4>1. DOMAIN g = 0 .. n + 1
        OBVIOUS
      <4>2. ASSUME NEW i \in 0 .. n + 1
            PROVE  g[i] = IF i = 0 THEN batch
                          ELSE Place(head, g[i - 1], i, barred)
        <5>1. CASE i = n + 1
          BY <5>1
        <5>2. CASE i # n + 1
          <6>1. i \in 0 .. n /\ g[i] = f[i]
            BY <5>2
          <6>2. i # 0 => i - 1 \in 0 .. n + 1 /\ g[i - 1] = f[i - 1]
            BY <6>1
          <6>3. f[i] = IF i = 0 THEN batch
                       ELSE Place(head, f[i - 1], i, barred)
            BY <3>1, <6>1
          <6> QED
            BY <6>1, <6>2, <6>3
        <5> QED
          BY <5>1, <5>2
      <4>3. g = [i \in DOMAIN g |-> g[i]]
        OBVIOUS
      <4> HIDE DEF g
      <4> QED
        BY <4>1, <4>2, <4>3
    <3> HIDE DEF g
    <3> QED
      BY <3>2
  <2> HIDE DEF T
  <2>3. \A n \in Nat : n \in T
    BY <2>1, <2>2, SetInduction
  <2> QED
    BY <1>1, <2>3 DEF T
<1>3. Placed = Body(Placed, N)
  BY <1>2, Zenon
<1>4. Spread(head, batch, barred) = Placed[N]
  BY Zenon DEF Spread
<1> HIDE DEF Placed
<1> DEFINE T == {n \in Nat : n <= N => SettledUpTo(n, head, batch,
                                                  Placed[n], barred)}
<1>5. 0 \in T
  <2>1. Rearranged(batch, batch)
    <3> DEFINE same == [k \in 1 .. N |-> k]
    <3>1. IsOrder(same, batch)
      BY DEF IsOrder
    <3>2. \A k \in 1 .. N : batch[k] = batch[same[k]]
      OBVIOUS
    <3> HIDE DEF same
    <3> QED
      BY <3>1, <3>2 DEF Rearranged
  <2> QED
    BY <1>1, <1>3, <2>1 DEF SettledUpTo
<1>6. ASSUME NEW n \in Nat, n \in T
      PROVE  n + 1 \in T
  <2> SUFFICES ASSUME n + 1 <= N
               PROVE  SettledUpTo(n + 1, head, batch, Placed[n + 1], barred)
    OBVIOUS
  <2>1. SettledUpTo(n, head, batch, Placed[n], barred)
    BY <1>1, <1>6
  <2>2. Placed[n + 1] = Place(head, Placed[n], n + 1, barred)
    BY <1>1, <1>3
  <2> QED
    BY <2>1, <2>2, PlaceSettles
<1> HIDE DEF T
<1>7. \A n \in Nat : n \in T
  BY <1>5, <1>6, SetInduction
<1> QED
  BY <1>1, <1>4, <1>7 DEF T

\* Spread returns as many products as it is given.
LEMMA SpreadType ==
    ASSUME NEW head \in Seq(Products), NEW batch \in Seq(Products), NEW barred
    PROVE  /\ Spread(head, batch, barred) \in Seq(Products)
           /\ Len(Spread(head, batch, barred)) = Len(batch)
BY SpreadSettles DEF SettledUpTo

\* Neither the route nor the grid loses or repeats a product of a page when it
\* spreads the shops out: the cards are the same, in another order.
THEOREM NoCardLost ==
    ASSUME NEW head \in Seq(Products), NEW batch \in Seq(Products)
    PROVE  /\ Rearranged(batch, declusterNewBatch(head, batch))
           /\ Rearranged(batch, declusterByVendor(batch))
<1>1. <<>> \in Seq(Products)
  BY EmptySeq
<1> QED
  BY <1>1, SpreadSettles DEF SettledUpTo, declusterNewBatch, declusterByVendor

-----------------------------------------------------------------------------
(* What the list of products and the answers are made of. *)

\* `s` lists the products of one language on sale among the first n, by id.
Listed(s, n, lang) ==
    /\ s \in Seq(Products)
    /\ \A k \in 1 .. Len(s) : s[k] <= n
    /\ \A j, k \in 1 .. Len(s) : j < k => s[j] < s[k]
    /\ \A id \in 1 .. n :
         id \in active /\ langOf[id] = lang <=> \E k \in 1 .. Len(s) : s[k] = id

\* One more row of the table.
LEMMA RowListed ==
    ASSUME NEW n \in Nat, n + 1 \in Products, NEW s, NEW lang, Listed(s, n, lang)
    PROVE  Listed(IF n + 1 \in active /\ langOf[n + 1] = lang
                  THEN Append(s, n + 1) ELSE s,
                  n + 1, lang)
<1>1. /\ s \in Seq(Products) /\ Len(s) \in Nat
      /\ \A k \in 1 .. Len(s) : s[k] \in Nat /\ s[k] <= n
      /\ \A j, k \in 1 .. Len(s) : j < k => s[j] < s[k]
      /\ \A id \in 1 .. n :
           id \in active /\ langOf[id] = lang <=> \E k \in 1 .. Len(s) : s[k] = id
  <2>1. s \in Seq(Products) /\ Len(s) \in Nat
    BY DEF Listed
  <2>2. \A k \in 1 .. Len(s) : s[k] \in Products
    BY <2>1, ElementOfSeq
  <2>3. \A k \in 1 .. Len(s) : s[k] \in Nat
    BY <2>2 DEF Products
  <2> QED
    BY <2>1, <2>3 DEF Listed
<1>2. CASE n + 1 \in active /\ langOf[n + 1] = lang
  <2> DEFINE t == Append(s, n + 1)
  <2>1. /\ t \in Seq(Products) /\ Len(t) = Len(s) + 1
        /\ \A k \in 1 .. Len(s) : t[k] = s[k]
        /\ t[Len(s) + 1] = n + 1
    BY <1>1, AppendProperties
  <2> HIDE DEF t
  <2>2. \A k \in 1 .. Len(t) : t[k] <= n + 1
    BY <1>1, <2>1
  <2>3. \A j, k \in 1 .. Len(t) : j < k => t[j] < t[k]
    <3> SUFFICES ASSUME NEW j \in 1 .. Len(t), NEW k \in 1 .. Len(t), j < k
                 PROVE  t[j] < t[k]
      OBVIOUS
    <3>1. j \in 1 .. Len(s) /\ t[j] = s[j] /\ s[j] < n + 1
      BY <1>1, <2>1
    <3>2. CASE k = Len(s) + 1
      BY <2>1, <3>1, <3>2
    <3>3. CASE k # Len(s) + 1
      <4>1. k \in 1 .. Len(s)
        BY <1>1, <2>1, <3>3
      <4>2. t[k] = s[k] /\ s[j] < s[k]
        BY <1>1, <2>1, <3>1, <4>1
      <4> QED
        BY <3>1, <4>2
    <3> QED
      BY <3>2, <3>3
  <2>4. ASSUME NEW id \in 1 .. n + 1
        PROVE  id \in active /\ langOf[id] = lang <=>
                 \E k \in 1 .. Len(t) : t[k] = id
    <3>1. CASE id = n + 1
      BY <1>1, <1>2, <2>1, <3>1
    <3>2. CASE id # n + 1
      <4>1. id \in 1 .. n
        BY <3>2
      <4>2. (\E k \in 1 .. Len(t) : t[k] = id) <=> \E k \in 1 .. Len(s) : s[k] = id
        BY <1>1, <2>1, <3>2
      <4> QED
        BY <1>1, <4>1, <4>2
    <3> QED
      BY <3>1, <3>2
  <2>5. Listed(t, n + 1, lang)
    BY <2>1, <2>2, <2>3, <2>4 DEF Listed
  <2> QED
    BY <1>2, <2>5 DEF t
<1>3. CASE ~ (n + 1 \in active /\ langOf[n + 1] = lang)
  <2>1. \A k \in 1 .. Len(s) : s[k] <= n + 1 /\ s[k] # n + 1
    BY <1>1
  <2>2. ASSUME NEW id \in 1 .. n + 1
        PROVE  id \in active /\ langOf[id] = lang <=>
                 \E k \in 1 .. Len(s) : s[k] = id
    BY <1>1, <1>3, <2>1
  <2>3. Listed(s, n + 1, lang)
    BY <1>1, <2>1, <2>2 DEF Listed
  <2> QED
    BY <1>3, <2>3
<1> QED
  BY <1>2, <1>3

\* The query returns the products of a language that are on sale, by id.
LEMMA RowsAreListed ==
    ASSUME FeedAssumption, NEW lang
    PROVE  Listed(Rows(lang), MaxId, lang)
<1> DEFINE Body(f, n) ==
             [id \in 0 .. n |->
                IF id = 0 THEN <<>>
                ELSE IF id \in active /\ langOf[id] = lang
                     THEN Append(f[id - 1], id)
                     ELSE f[id - 1]]
           UpTo == CHOOSE f : f = Body(f, MaxId)
<1>1. MaxId \in Nat
  BY DEF FeedAssumption
<1>2. \E f : f = Body(f, MaxId)
  <2> DEFINE T == {n \in Nat : \E f : f = Body(f, n)}
  <2>1. 0 \in T
    <3>1. [id \in 0 .. 0 |-> <<>>] = Body([id \in 0 .. 0 |-> <<>>], 0)
      OBVIOUS
    <3> QED
      BY <3>1
  <2>2. ASSUME NEW n \in Nat, n \in T
        PROVE  n + 1 \in T
    <3>1. PICK f : f = Body(f, n)
      BY <2>2
    <3> DEFINE last == IF n + 1 \in active /\ langOf[n + 1] = lang
                       THEN Append(f[n], n + 1)
                       ELSE f[n]
               g == [id \in 0 .. n + 1 |-> IF id = n + 1 THEN last ELSE f[id]]
    <3>2. g = Body(g, n + 1)
      <4>1. DOMAIN g = 0 .. n + 1
        OBVIOUS
      <4>2. ASSUME NEW id \in 0 .. n + 1
            PROVE  g[id] = IF id = 0 THEN <<>>
                           ELSE IF id \in active /\ langOf[id] = lang
                                THEN Append(g[id - 1], id)
                                ELSE g[id - 1]
        <5>1. CASE id = n + 1
          BY <5>1
        <5>2. CASE id # n + 1
          <6>1. id \in 0 .. n /\ g[id] = f[id]
            BY <5>2
          <6>2. id # 0 => id - 1 \in 0 .. n + 1 /\ g[id - 1] = f[id - 1]
            BY <6>1
          <6>3. f[id] = IF id = 0 THEN <<>>
                        ELSE IF id \in active /\ langOf[id] = lang
                             THEN Append(f[id - 1], id)
                             ELSE f[id - 1]
            BY <3>1, <6>1
          <6> QED
            BY <6>1, <6>2, <6>3
        <5> QED
          BY <5>1, <5>2
      <4>3. g = [id \in DOMAIN g |-> g[id]]
        OBVIOUS
      <4> HIDE DEF g
      <4> QED
        BY <4>1, <4>2, <4>3
    <3> HIDE DEF g
    <3>3. \E h : h = Body(h, n + 1)
      BY <3>2, Zenon
    <3> HIDE DEF Body
    <3> QED
      BY <3>3
  <2> HIDE DEF T
  <2>3. \A n \in Nat : n \in T
    BY <2>1, <2>2, SetInduction
  <2> QED
    BY <1>1, <2>3 DEF T
<1>3. UpTo = Body(UpTo, MaxId)
  BY <1>2, Zenon
<1>4. Rows(lang) = UpTo[MaxId]
  BY Zenon DEF Rows
<1> HIDE DEF UpTo
<1> DEFINE T == {n \in Nat : n <= MaxId => Listed(UpTo[n], n, lang)}
<1>5. 0 \in T
  <2>1. UpTo[0] = <<>>
    BY <1>1, <1>3
  <2> QED
    <3>1. UpTo[0] \in Seq(Products) /\ Len(UpTo[0]) = 0
      BY <2>1, EmptySeq
    <3>2. 1 .. Len(UpTo[0]) = {} /\ 1 .. 0 = {}
      BY <3>1
    <3>3. Listed(UpTo[0], 0, lang)
      BY <3>1, <3>2 DEF Listed
    <3> QED
      BY <3>3
<1>6. ASSUME NEW n \in Nat, n \in T
      PROVE  n + 1 \in T
  <2> SUFFICES ASSUME n + 1 <= MaxId
               PROVE  Listed(UpTo[n + 1], n + 1, lang)
    OBVIOUS
  <2>1. Listed(UpTo[n], n, lang) /\ n + 1 \in Products
    BY <1>1, <1>6 DEF Products
  <2>2. n + 1 \in 0 .. MaxId /\ n + 1 # 0 /\ (n + 1) - 1 = n
    BY <1>1
  <2>3. UpTo[n + 1] = IF n + 1 \in active /\ langOf[n + 1] = lang
                      THEN Append(UpTo[n], n + 1)
                      ELSE UpTo[n]
    BY <1>3, <2>2
  <2> QED
    BY <2>1, <2>3, RowListed
<1> HIDE DEF T
<1>7. \A n \in Nat : n \in T
  BY <1>5, <1>6, SetInduction
<1> QED
  BY <1>1, <1>4, <1>7 DEF T

\* A page is a stretch of that list ...
Stretch(id, page, lang) ==
    \E m \in 1 .. Len(Rows(lang)) :
      /\ (page - 1) * PerPage < m /\ m <= page * PerPage
      /\ Rows(lang)[m] = id

Among(id, list) == \E k \in 1 .. Len(list) : list[k] = id

LEMMA PageOfRows ==
    ASSUME FeedAssumption, NEW page \in Nat \ {0}, NEW lang
    PROVE  /\ listProducts(page, lang) \in Seq(Products)
           /\ \A id : Among(id, listProducts(page, lang))
                        <=> Stretch(id, page, lang)
<1> DEFINE rows == Rows(lang)
           from == (page - 1) * PerPage
           to == page * PerPage
           last == IF to < Len(rows) THEN to ELSE Len(rows)
           batch == listProducts(page, lang)
<1>1. rows \in Seq(Products) /\ Len(rows) \in Nat
  BY RowsAreListed DEF Listed
<1>2. from \in Nat /\ to \in Nat
  BY DEF FeedAssumption
<1>3. batch = SubSeq(rows, from + 1, last)
  BY DEF listProducts
<1> HIDE DEF from, to, rows, batch
<1>4. last \in Int /\ last <= Len(rows) /\ last <= to
  BY <1>1, <1>2
<1>5. \A m \in (from + 1) .. last : rows[m] \in Products
  BY <1>1, <1>2, <1>4, ElementOfSeq
<1>6. /\ batch \in Seq(Products)
      /\ Len(batch) = IF from + 1 <= last THEN last - from ELSE 0
      /\ \A k \in 1 .. (last - from) : batch[k] = rows[from + k]
  <2>1. /\ last - (from + 1) + 1 = last - from
        /\ \A k \in 1 .. (last - from) : from + 1 + k - 1 = from + k
    BY <1>2, <1>4
  <2> QED
    BY <1>2, <1>3, <1>4, <1>5, <2>1, SubSeqProperties
<1>7. ASSUME NEW id, NEW k \in 1 .. Len(batch), batch[k] = id
      PROVE  \E m \in 1 .. Len(rows) : from < m /\ m <= to /\ rows[m] = id
  <2>1. k \in 1 .. (last - from) /\ from + k \in 1 .. Len(rows)
    BY <1>1, <1>2, <1>4, <1>6
  <2> QED
    BY <1>2, <1>4, <1>6, <1>7, <2>1
<1>8. ASSUME NEW id, NEW m \in 1 .. Len(rows), from < m, m <= to, rows[m] = id
      PROVE  \E k \in 1 .. Len(batch) : batch[k] = id
  <2>1. m <= last
    BY <1>1, <1>2, <1>8
  <2>2. /\ m - from \in 1 .. (last - from) /\ m - from \in 1 .. Len(batch)
        /\ from + (m - from) = m
    BY <1>1, <1>2, <1>4, <1>6, <1>8, <2>1
  <2> QED
    BY <1>6, <1>8, <2>2
<1> QED
  BY <1>6, <1>7, <1>8 DEF batch, rows, from, to, Among, Stretch

\* ... and the route answers with it, in another order.
OnPage(id, page, lang) == Among(id, Reply(page, lang))

LEMMA ReplyOfPage ==
    ASSUME FeedAssumption, NEW page \in Nat \ {0}, NEW lang
    PROVE  /\ Reply(page, lang) \in Seq(Products)
           /\ \A id : OnPage(id, page, lang) <=> Stretch(id, page, lang)
<1> DEFINE batch == listProducts(page, lang)
           out == Reply(page, lang)
<1>1. /\ batch \in Seq(Products)
      /\ \A id : Among(id, batch) <=> Stretch(id, page, lang)
  BY PageOfRows, Zenon
<1>2. out \in Seq(Products) /\ Len(out) = Len(batch)
  BY <1>1, EmptySeq, SpreadType DEF Reply, declusterByVendor
<1>3. Rearranged(batch, out)
  BY <1>1, EmptySeq, NoCardLost DEF Reply
<1> HIDE DEF batch, out
<1>4. ASSUME NEW id
      PROVE  (\E k \in 1 .. Len(out) : out[k] = id)
             <=> \E k \in 1 .. Len(batch) : batch[k] = id
  <2>1. PICK order : /\ IsOrder(order, batch)
                     /\ \A k \in 1 .. Len(batch) : out[k] = batch[order[k]]
    BY <1>3 DEF Rearranged
  <2>2. /\ \A k \in 1 .. Len(batch) : order[k] \in 1 .. Len(batch)
        /\ \A m \in 1 .. Len(batch) : \E k \in 1 .. Len(batch) : order[k] = m
    BY <2>1 DEF IsOrder
  <2>3. ASSUME NEW k \in 1 .. Len(out), out[k] = id
        PROVE  \E m \in 1 .. Len(batch) : batch[m] = id
    <3>1. k \in 1 .. Len(batch)
      BY <1>2
    <3>2. order[k] \in 1 .. Len(batch) /\ batch[order[k]] = id
      BY <2>1, <2>2, <2>3, <3>1
    <3> QED
      BY <3>2
  <2>4. ASSUME NEW m \in 1 .. Len(batch), batch[m] = id
        PROVE  \E k \in 1 .. Len(out) : out[k] = id
    <3>1. PICK k \in 1 .. Len(batch) : order[k] = m
      BY <2>2
    <3>2. k \in 1 .. Len(out) /\ out[k] = id
      BY <1>2, <2>1, <2>4, <3>1
    <3> QED
      BY <3>2
  <2> QED
    BY <2>3, <2>4
<1>5. \A id : OnPage(id, page, lang) <=> Among(id, batch)
  BY <1>4, Zenon DEF OnPage, Among, out
<1> QED
  BY <1>1, <1>2, <1>5 DEF out

\* Every place of a list is on a page.
LEMMA PlaceHasPage ==
    ASSUME FeedAssumption, NEW m \in Nat \ {0}
    PROVE  \E page \in Nat \ {0} :
             (page - 1) * PerPage < m /\ m <= page * PerPage
<1> DEFINE T == {n \in Nat : \E page \in Nat \ {0} :
                   (page - 1) * PerPage < n + 1 /\ n + 1 <= page * PerPage}
<1>1. PerPage \in Nat \ {0}
  BY DEF FeedAssumption
<1>2. 0 \in T
  <2>1. (1 - 1) * PerPage = 0 /\ 1 * PerPage = PerPage
    BY <1>1
  <2> QED
    BY <1>1, <2>1
<1>3. ASSUME NEW n \in Nat, n \in T
      PROVE  n + 1 \in T
  <2>1. PICK page \in Nat \ {0} :
          (page - 1) * PerPage < n + 1 /\ n + 1 <= page * PerPage
    BY <1>3
  <2>2. /\ (page - 1) * PerPage \in Nat /\ page * PerPage \in Nat
        /\ ((page + 1) - 1) * PerPage = page * PerPage
        /\ (page + 1) * PerPage = page * PerPage + PerPage
        /\ page + 1 \in Nat \ {0}
    BY <1>1
  <2>3. CASE n + 2 <= page * PerPage
    BY <2>1, <2>2, <2>3
  <2>4. CASE ~ (n + 2 <= page * PerPage)
    <3> DEFINE following == page + 1
    <3>1. /\ (following - 1) * PerPage < (n + 1) + 1
          /\ (n + 1) + 1 <= following * PerPage
      BY <1>1, <2>1, <2>2, <2>4
    <3>2. following \in Nat \ {0}
      OBVIOUS
    <3> HIDE DEF following
    <3> QED
      BY <3>1, <3>2
  <2> QED
    BY <2>3, <2>4
<1> HIDE DEF T
<1>4. m - 1 \in T
  BY <1>2, <1>3, SetInduction
<1> QED
  BY <1>4 DEF T

\* No place is on two pages.
LEMMA PagesApart ==
    ASSUME FeedAssumption, NEW page \in Nat \ {0}, NEW other \in Nat \ {0},
           page < other
    PROVE  page * PerPage <= (other - 1) * PerPage
<1>1. PICK d \in Nat : other = page + 1 + d
  <2>1. other - page - 1 \in Nat /\ other = page + 1 + (other - page - 1)
    OBVIOUS
  <2> QED
    BY <2>1
<1>2. PerPage \in Nat /\ d * PerPage \in Nat /\ page * PerPage \in Nat
  BY DEF FeedAssumption
<1>3. (other - 1) * PerPage = page * PerPage + d * PerPage
  BY <1>1, <1>2
<1> QED
  BY <1>2, <1>3

\* As long as nothing is put on or off sale, a customer who goes through the
\* pages of a language meets each of its products on exactly one of them, and
\* nothing else, however the pages were rearranged (listProducts, GET).
THEOREM EachOnOnePage ==
    ASSUME FeedAssumption, NEW lang, NEW id \in Products
    PROVE  /\ id \in active /\ langOf[id] = lang
                <=> \E page \in Nat \ {0} : OnPage(id, page, lang)
           /\ \A page, other \in Nat \ {0} :
                OnPage(id, page, lang) /\ OnPage(id, other, lang)
                  => page = other
<1> DEFINE rows == Rows(lang)
<1>1. /\ Len(rows) \in Nat
      /\ \A j, k \in 1 .. Len(rows) : j < k => rows[j] < rows[k]
      /\ \A k \in 1 .. Len(rows) : rows[k] \in Nat
      /\ id \in active /\ langOf[id] = lang <=> \E k \in 1 .. Len(rows) : rows[k] = id
  BY RowsAreListed, ElementOfSeq DEF Listed, Products
<1>2. \A page \in Nat \ {0} :
        OnPage(id, page, lang) <=>
          \E m \in 1 .. Len(rows) :
            /\ (page - 1) * PerPage < m /\ m <= page * PerPage
            /\ rows[m] = id
  <2>1. \A page \in Nat \ {0} :
          OnPage(id, page, lang) <=> Stretch(id, page, lang)
    BY ReplyOfPage, Zenon
  <2> QED
    BY <2>1, Zenon DEF Stretch
<1> HIDE DEF rows
<1>3. ASSUME NEW page \in Nat \ {0}, NEW other \in Nat \ {0}, page < other,
             OnPage(id, page, lang), OnPage(id, other, lang)
      PROVE  FALSE
  <2>1. PICK m \in 1 .. Len(rows) : m <= page * PerPage /\ rows[m] = id
    BY <1>2, <1>3
  <2>2. PICK n \in 1 .. Len(rows) : (other - 1) * PerPage < n /\ rows[n] = id
    BY <1>2, <1>3
  <2>3. page * PerPage \in Nat /\ (other - 1) * PerPage \in Nat
    BY DEF FeedAssumption
  <2>4. page * PerPage <= (other - 1) * PerPage
    BY <1>3, PagesApart
  <2>5. m < n
    <3> HIDE DEF FeedAssumption
    <3>1. m \in Nat /\ n \in Nat
      BY <1>1
    <3> QED
      BY <2>1, <2>2, <2>3, <2>4, <3>1
  <2> QED
    BY <1>1, <2>1, <2>2, <2>5
<1>4. \A page, other \in Nat \ {0} :
        OnPage(id, page, lang) /\ OnPage(id, other, lang) => page = other
  <2> SUFFICES ASSUME NEW page \in Nat \ {0}, NEW other \in Nat \ {0},
                      OnPage(id, page, lang), OnPage(id, other, lang)
               PROVE  page = other
    OBVIOUS
  <2>1. ~ (page < other) /\ ~ (other < page)
    BY <1>3
  <2> QED
    BY <2>1
<1>5. (\E k \in 1 .. Len(rows) : rows[k] = id)
        => \E page \in Nat \ {0} : OnPage(id, page, lang)
  <2> SUFFICES ASSUME NEW k \in 1 .. Len(rows), rows[k] = id
               PROVE  \E page \in Nat \ {0} : OnPage(id, page, lang)
    OBVIOUS
  <2>1. PICK page \in Nat \ {0} :
          (page - 1) * PerPage < k /\ k <= page * PerPage
    <3>1. k \in Nat \ {0}
      BY <1>1
    <3> QED
      BY <3>1, PlaceHasPage
  <2> QED
    BY <1>2, <2>1
<1>6. (\E page \in Nat \ {0} : OnPage(id, page, lang))
        => \E k \in 1 .. Len(rows) : rows[k] = id
  BY <1>2
<1> QED
  BY <1>1, <1>4, <1>5, <1>6
-----------------------------------------------------------------------------
(* Rows and pages that are spread out. *)

\* The end of a list of products is one.
LEMMA Tail2Type ==
    ASSUME NEW list \in Seq(Products)
    PROVE  Tail2(list) \in Seq(Products)
<1>1. CASE Len(list) <= MaxConsecutive
  BY <1>1 DEF Tail2
<1>2. CASE ~ (Len(list) <= MaxConsecutive)
  <2>1. Len(list) \in Nat /\ Len(list) > 2
    BY <1>2 DEF MaxConsecutive
  <2>2. \A m \in (Len(list) - 2 + 1) .. Len(list) : list[m] \in Products
    BY <2>1, ElementOfSeq
  <2>3. SubSeq(list, Len(list) - 2 + 1, Len(list)) \in Seq(Products)
    BY <2>1, <2>2, SubSeqProperties
  <2> QED
    BY <1>2, <2>3 DEF Tail2, LastOf, MaxConsecutive
<1> QED
  BY <1>1, <1>2

\* The shops of `row` are spread out from the card after the first `n` on.
SpreadFrom(n, row) ==
    \A k \in (n + 1) .. Len(row) :
      Crowded(SubSeq(row, 1, k - 1), vendorOf[row[k]]) =>
        \A j \in (k + 1) .. Len(row) :
          vendorOf[row[j]] \in {vendorOf[row[k]], NoVendor}

\* Places settled behind a head are a row that is spread out behind it.
LEMMA SettledIsSpread ==
    ASSUME NEW head \in Seq(Products), NEW out \in Seq(Products),
           \A k \in 1 .. Len(out) : Settled(head, out, k, {NoVendor})
    PROVE  SpreadFrom(Len(head), head \o out)
<1> DEFINE row == head \o out
           n == Len(head)
<1>1. /\ n \in Nat /\ Len(out) \in Nat
      /\ row \in Seq(Products) /\ Len(row) = n + Len(out)
      /\ \A m \in 1 .. Len(row) :
           row[m] = IF m <= n THEN head[m] ELSE out[m - n]
  BY ConcatProperties
<1> HIDE DEF row, n
<1> SUFFICES ASSUME NEW k \in (n + 1) .. Len(row),
                    Crowded(SubSeq(row, 1, k - 1), vendorOf[row[k]]),
                    NEW j \in (k + 1) .. Len(row)
             PROVE  vendorOf[row[j]] \in {vendorOf[row[k]], NoVendor}
  BY DEF SpreadFrom, row, n
<1>2. /\ k - n \in 1 .. Len(out) /\ row[k] = out[k - n]
      /\ j - n \in (k - n + 1) .. Len(out) /\ row[j] = out[j - n]
  BY <1>1
<1>3. SubSeq(row, 1, k - 1) = head \o SubSeq(out, 1, k - n - 1)
  <2> DEFINE start == SubSeq(out, 1, k - n - 1)
  <2>1. \A m \in 1 .. (k - n - 1) : out[m] \in Products
    BY <1>1, <1>2, ElementOfSeq
  <2>2. /\ start \in Seq(Products)
        /\ Len(start) = k - n - 1
        /\ \A m \in 1 .. (k - n - 1) : start[m] = out[m]
    BY <1>1, <1>2, <2>1, SubSeqProperties
  <2> HIDE DEF start
  <2>3. /\ head \o start \in Seq(Products)
        /\ Len(head \o start) = n + (k - n - 1)
        /\ \A m \in 1 .. (k - 1) :
             (head \o start)[m] = IF m <= n THEN head[m] ELSE start[m - n]
    BY <1>1, <1>2, <2>2, ConcatProperties DEF n
  <2>4. \A m \in 1 .. (k - 1) : row[m] \in Products
    BY <1>1, <1>2, ElementOfSeq
  <2>5. /\ SubSeq(row, 1, k - 1) \in Seq(Products)
        /\ Len(SubSeq(row, 1, k - 1)) = k - 1
        /\ \A m \in 1 .. (k - 1) : SubSeq(row, 1, k - 1)[m] = row[m]
    <3>1. k - 1 \in Nat /\ (k - 1) - 1 + 1 = k - 1
      BY <1>1
    <3> QED
      BY <2>4, <3>1, SubSeqProperties
  <2>6. ASSUME NEW m \in 1 .. (k - 1)
        PROVE  SubSeq(row, 1, k - 1)[m] = (head \o start)[m]
    <3>1. m \in 1 .. Len(row) /\ SubSeq(row, 1, k - 1)[m] = row[m]
      BY <1>1, <2>5
    <3>2. CASE m <= n
      BY <1>1, <2>3, <3>1, <3>2
    <3>3. CASE ~ (m <= n)
      <4>1. m - n \in 1 .. (k - n - 1)
        BY <1>1, <3>3
      <4>2. row[m] = out[m - n] /\ (head \o start)[m] = start[m - n]
        BY <1>1, <2>3, <3>1, <3>3
      <4> QED
        BY <2>2, <3>1, <4>1, <4>2
    <3> QED
      BY <3>2, <3>3
  <2>7. head \o start = SubSeq(row, 1, k - 1)
    <3>1. Len(head \o start) = k - 1 /\ k - 1 \in Nat
      BY <1>1, <2>3
    <3> QED
      BY <2>3, <2>5, <2>6, <3>1, SeqEqual
  <2> QED
    BY <2>7 DEF start
<1>4. Crowded(head \o SubSeq(out, 1, k - n - 1), vendorOf[out[k - n]])
  BY <1>2, <1>3
<1>5. \A p \in (k - n + 1) .. Len(out) :
        vendorOf[out[p]] \in {NoVendor} \cup {vendorOf[out[k - n]]}
  BY <1>2, <1>4 DEF Settled
<1> QED
  BY <1>2, <1>5

\* A page rearranged behind the end of a list is spread out behind it.
LEMMA PageIsSpread ==
    ASSUME NEW head \in Seq(Products), NEW batch \in Seq(Products)
    PROVE  /\ declusterNewBatch(head, batch) \in Seq(Products)
           /\ SpreadFrom(Len(head), head \o declusterNewBatch(head, batch))
<1> DEFINE out == Spread(head, batch, {NoVendor})
<1>1. /\ out \in Seq(Products) /\ Len(out) = Len(batch)
      /\ \A k \in 1 .. Len(batch) : Settled(head, out, k, {NoVendor})
  BY SpreadSettles DEF SettledUpTo
<1> HIDE DEF out
<1>2. SpreadFrom(Len(head), head \o out)
  BY <1>1, SettledIsSpread
<1> QED
  BY <1>1, <1>2 DEF declusterNewBatch, out

\* A list is the start of every list it grows into.
LEMMA Growing ==
    ASSUME NEW s \in Seq(Products), NEW t \in Seq(Products),
           NEW u \in Seq(Products), IsPrefix(s, t)
    PROVE  /\ t \o u \in Seq(Products)
           /\ Len(t \o u) = Len(t) + Len(u)
           /\ IsPrefix(s, t \o u)
           /\ \A n \in 0 .. Len(t) : SubSeq(t \o u, 1, n) = SubSeq(t, 1, n)
<1>1. /\ t \o u \in Seq(Products)
      /\ Len(t \o u) = Len(t) + Len(u)
      /\ \A m \in 1 .. Len(t) : (t \o u)[m] = t[m]
      /\ Len(s) \in Nat /\ Len(t) \in Nat /\ Len(u) \in Nat
      /\ Len(s) <= Len(t)
  BY ConcatProperties DEF IsPrefix
<1>2. ASSUME NEW n \in 0 .. Len(t)
      PROVE  SubSeq(t \o u, 1, n) = SubSeq(t, 1, n)
  BY <1>1, SameStart
<1>3. IsPrefix(s, t \o u)
  BY <1>1, <1>2 DEF IsPrefix
<1> QED
  BY <1>1, <1>2, <1>3
-----------------------------------------------------------------------------
(* The inductive invariant. *)

\* The rows of a page come after cards that are there.
PageHasPlace == call.stage = "rows" => call.before <= Len(next.products)

\* A request made from an up-to-date rendering remembers the end of the list,
\* which nobody lengthens while it is out.
TailIsTheEnd ==
    call.stage = "asked" /\ ~call.early => call.tail = Tail2(next.products)

FeedInv == FeedTypeOK /\ PageHasPlace /\ TailIsTheEnd /\ SpreadOut

\* What was rendered is a list, and so is what the cache gives back.
LEMMA ListsAgree ==
    ASSUME FeedTypeOK
    PROVE  /\ Start \in Lists
           /\ Cached \in Lists
           /\ shown.products \in Seq(Products)
           /\ next.products \in Seq(Products)
           /\ shown.page \in Nat
<1>1. Start \in Lists
  BY DEF Start, Lists
<1>2. Cached \in Lists
  BY <1>1 DEF Cached, FeedTypeOK
<1>3. /\ shown.products = ListOf(shown).products
      /\ shown.page = ListOf(shown).page
  BY DEF ListOf
<1> QED
  BY <1>1, <1>2, <1>3 DEF FeedTypeOK, Lists

\* A rendering shows the list it was given.
LEMMA RenderedIs ==
    ASSUME NEW list \in Lists, NEW lang
    PROVE  /\ ListOf(Rendered(list, lang)) = list
           /\ Rendered(list, lang).lang = lang
           /\ Rendered(list, lang).products = list.products
           /\ ListOf(list) = list
           /\ IsPrefix(list.products, list.products)
<1>1. list = [products |-> list.products, page |-> list.page,
              hasMore |-> list.hasMore]
  BY DEF Lists
<1> QED
  BY <1>1 DEF Rendered, ListOf, Lists, IsPrefix

\* Products edited and pages asked for by others leave the grid alone.
LEMMA ServerKeeps ==
    ASSUME FeedInv,
           active' \subseteq Products,
           \A k \in DOMAIN kept' : kept'[k] \in Seq(Products),
           UNCHANGED <<language, mounted, grid, feedCache>>
    PROVE  FeedInv'
<1>1. FeedTypeOK'
  BY DEF FeedInv, FeedTypeOK, grid, ListOf
<1>2. PageHasPlace' /\ TailIsTheEnd'
  BY DEF FeedInv, PageHasPlace, TailIsTheEnd, grid
<1>3. SpreadOut'
  BY DEF FeedInv, SpreadOut, grid
<1> QED
  BY <1>1, <1>2, <1>3 DEF FeedInv

\* A page that is kept has products only.
LEMMA RememberKeeps ==
    ASSUME FeedTypeOK, NEW k, NEW batch \in Seq(Products), Remember(k, batch)
    PROVE  \A q \in DOMAIN kept' : kept'[q] \in Seq(Products)
BY DEF Remember, FeedTypeOK

\* No load runs after the step: nothing is promised of a page.
LEMMA NoCallNoPage ==
    ASSUME call' = Idle
    PROVE  PageHasPlace' /\ TailIsTheEnd' /\ SpreadOut'
<1>1. call'.stage = "idle"
  BY DEF Idle
<1> QED
  BY <1>1 DEF PageHasPlace, TailIsTheEnd, SpreadOut

\* Asking for a page.
LEMMA LoadKeeps ==
    ASSUME FeedInv, LoadNextPage
    PROVE  FeedInv'
<1> DEFINE asked == [stage |-> "asked", page |-> shown.page + 1, lang |-> asks,
                     tail |-> Tail2(shown.products), early |-> Behind]
<1>1. /\ call' = asked /\ loading' = TRUE /\ failed' = FALSE /\ mounted
      /\ UNCHANGED <<server, language, mounted, next, shown, asks, feedCache>>
  BY DEF LoadNextPage
<1>2. /\ shown.page + 1 \in Nat \ {0} /\ asks \in Langs
      /\ Tail2(shown.products) \in Seq(Products)
      /\ Behind \in BOOLEAN
  BY ListsAgree, Tail2Type DEF FeedInv, FeedTypeOK, Behind
<1>3. asked \in Calls /\ asked.stage = "asked"
  BY <1>2 DEF Calls
<1>4. asked # Idle
  BY DEF Idle
<1>5. asked.early = Behind /\ asked.tail = Tail2(shown.products)
  OBVIOUS
<1> HIDE DEF asked
<1>6. FeedTypeOK'
  BY <1>1, <1>3, <1>4 DEF FeedInv, FeedTypeOK, server, ListOf
<1>7. PageHasPlace' /\ SpreadOut'
  BY <1>1, <1>3 DEF PageHasPlace, SpreadOut
<1>8. TailIsTheEnd'
  <2>1. ~Behind => shown.products = next.products
    BY DEF Behind, ListOf
  <2> QED
    BY <1>1, <1>5, <2>1 DEF TailIsTheEnd
<1> QED
  BY <1>6, <1>7, <1>8 DEF FeedInv

\* The answer: the page is rearranged behind the list it will follow.
LEMMA AnsweredKeeps ==
    ASSUME FeedAssumption, FeedInv, call.stage = "asked",
           NEW batch \in Seq(Products), Answered(batch),
           \A k \in DOMAIN kept' : kept'[k] \in Seq(Products)
    PROVE  FeedInv'
<1>1. /\ call.page \in Nat \ {0} /\ call.tail \in Seq(Products)
      /\ call.early \in BOOLEAN
      /\ call # Idle
  BY DEF FeedInv, FeedTypeOK, Calls, Idle
<1> DEFINE coming == declusterNewBatch(call.tail, batch)
<1>2. PICK cols \in Columns :
        call' = [stage |-> "rows", page |-> call.page, early |-> call.early,
                 coming |-> coming, before |-> Len(next.products),
                 full |-> Len(batch) >= PerPage, cols |-> cols]
  BY DEF Answered
<1>3. UNCHANGED <<active, edits, language, mounted, next, shown, asks,
                  loading, failed, feedCache, clicks>>
  BY DEF Answered
<1>4. /\ coming \in Seq(Products)
      /\ SpreadFrom(Len(call.tail), call.tail \o coming)
  BY <1>1, PageIsSpread
<1>5. /\ next.products \in Seq(Products) /\ Len(next.products) \in Nat
      /\ SubSeq(next.products, 1, Len(next.products)) = next.products
  BY ListsAgree, SubSeqFull DEF FeedInv
<1>6. (Len(batch) >= PerPage) \in BOOLEAN
  OBVIOUS
<1> HIDE DEF coming
<1>7. call' \in Calls /\ call' # Idle
  BY <1>1, <1>2, <1>4, <1>5, <1>6 DEF Calls, Idle
<1>8. FeedTypeOK'
  BY <1>1, <1>3, <1>7 DEF FeedInv, FeedTypeOK, ListOf
<1>9. PageHasPlace' /\ TailIsTheEnd'
  BY <1>2, <1>3, <1>5 DEF PageHasPlace, TailIsTheEnd
<1>10. SpreadOut'
  <2> SUFFICES ASSUME ~call.early
               PROVE  SpreadFrom(Len(Tail2(next.products)),
                                 Tail2(next.products) \o coming)
    BY <1>2, <1>3, <1>5 DEF SpreadOut, SpreadFrom
  <2>1. call.tail = Tail2(next.products)
    BY DEF FeedInv, TailIsTheEnd
  <2> QED
    BY <1>4, <2>1
<1> QED
  BY <1>8, <1>9, <1>10 DEF FeedInv

\* What a row adds to the list.
LEMMA RowAdds ==
    ASSUME FeedAssumption, FeedInv, call.stage = "rows",
           NEW last \in Int, last <= Len(call.coming)
    PROVE  LET new == next.products \o SubSeq(call.coming, RowsDone + 1, last)
           IN  /\ new \in Seq(Products)
               /\ IsPrefix(shown.products, new)
               /\ Len(next.products) <= Len(new)
               /\ \A n \in 0 .. Len(next.products) :
                    SubSeq(new, 1, n) = SubSeq(next.products, 1, n)
<1>1. call.coming \in Seq(Products) /\ call.before \in Nat
  BY DEF FeedInv, FeedTypeOK, Calls, Idle
<1>2. /\ next.products \in Seq(Products) /\ shown.products \in Seq(Products)
      /\ IsPrefix(shown.products, next.products)
  BY ListsAgree DEF FeedInv, FeedTypeOK
<1>3. RowsDone + 1 \in Int /\ RowsDone + 1 >= 1
  BY <1>1, <1>2 DEF RowsDone, FeedInv, PageHasPlace
<1> DEFINE more == SubSeq(call.coming, RowsDone + 1, last)
<1>4. more \in Seq(Products)
  <2>1. \A m \in (RowsDone + 1) .. last : call.coming[m] \in Products
    BY <1>1, <1>3, ElementOfSeq
  <2> QED
    BY <1>3, <2>1, SubSeqProperties
<1> HIDE DEF more
<1>5. /\ next.products \o more \in Seq(Products)
      /\ Len(next.products \o more) = Len(next.products) + Len(more)
      /\ IsPrefix(shown.products, next.products \o more)
      /\ \A n \in 0 .. Len(next.products) :
           SubSeq(next.products \o more, 1, n) = SubSeq(next.products, 1, n)
  BY <1>2, <1>4, Growing
<1>6. Len(next.products) \in Nat /\ Len(more) \in Nat
  BY <1>2, <1>4
<1> QED
  BY <1>5, <1>6 DEF more
\* One more row.
LEMMA ShowRowKeeps ==
    ASSUME FeedAssumption, FeedInv, ShowRow
    PROVE  FeedInv'
<1>1. /\ call.stage = "rows" /\ RowEnd < Len(call.coming)
      /\ next' = [next EXCEPT
           !.products = @ \o SubSeq(call.coming, RowsDone + 1, RowEnd)]
      /\ UNCHANGED <<server, language, mounted, shown, asks, loading, failed,
                     call, feedCache, clicks>>
  BY DEF ShowRow
<1>2. /\ RowEnd \in Int /\ RowEnd <= Len(call.coming)
      /\ call.before \in Nat /\ call.before <= Len(next.products)
      /\ Len(next.products) \in Nat
  <2>1. call \in [stage : {"rows"}, page : Nat \ {0}, early : BOOLEAN,
                  coming : Seq(Products), before : Nat, full : BOOLEAN,
                  cols : Columns]
    BY <1>1 DEF FeedInv, FeedTypeOK, Calls, Idle
  <2>2. call.cols \in Nat /\ call.coming \in Seq(Products) /\ call.before \in Nat
    BY <2>1 DEF FeedAssumption
  <2> QED
    <3>1. Len(next.products) \in Nat /\ Len(call.coming) \in Nat
      BY <2>2, ListsAgree DEF FeedInv
    <3>2. call.before <= Len(next.products)
      BY <1>1 DEF FeedInv, PageHasPlace
    <3>3. RowEnd \in Int
      BY <2>2, <3>1 DEF RowEnd, RowsDone
    <3> QED
      BY <1>1, <2>2, <3>1, <3>2, <3>3
<1> DEFINE new == next.products \o SubSeq(call.coming, RowsDone + 1, RowEnd)
<1>3. /\ new \in Seq(Products)
      /\ IsPrefix(shown.products, new)
      /\ Len(next.products) <= Len(new)
      /\ \A n \in 0 .. Len(next.products) :
           SubSeq(new, 1, n) = SubSeq(next.products, 1, n)
  BY <1>1, <1>2, RowAdds
<1>4. next' = [next EXCEPT !.products = new]
  BY <1>1
<1> HIDE DEF new
<1>5. next' \in Lists /\ next'.products = new
  BY <1>3, <1>4 DEF FeedInv, FeedTypeOK, Lists
<1>6. FeedTypeOK'
  BY <1>1, <1>3, <1>5 DEF FeedInv, FeedTypeOK, server, ListOf
<1>7. PageHasPlace' /\ TailIsTheEnd'
  <2>1. Len(new) \in Nat
    BY <1>3
  <2>2. call' = call /\ call.stage = "rows"
    BY <1>1
  <2>3. call.before <= Len(new)
    BY <1>2, <1>3, <2>1
  <2> QED
    BY <1>5, <2>2, <2>3 DEF PageHasPlace, TailIsTheEnd
<1>8. SpreadOut'
  <2>1. SubSeq(new, 1, call.before) = SubSeq(next.products, 1, call.before)
    BY <1>2, <1>3
  <2> QED
    BY <1>1, <1>5, <2>1 DEF SpreadOut, FeedInv
<1> QED
  BY <1>6, <1>7, <1>8 DEF FeedInv

\* The last row.
LEMMA ShowLastRowKeeps ==
    ASSUME FeedAssumption, FeedInv, ShowLastRow
    PROVE  FeedInv'
<1> DEFINE last == Len(call.coming)
           new == next.products \o SubSeq(call.coming, RowsDone + 1, last)
<1>1. /\ call.stage = "rows"
      /\ next' = [products |-> new, page |-> call.page,
                  hasMore |-> next.hasMore /\ call.full]
      /\ loading' = FALSE /\ call' = Idle
      /\ UNCHANGED <<server, language, mounted, shown, asks, failed, feedCache,
                     clicks>>
  BY DEF ShowLastRow, Finish
<1>2. call \in [stage : {"rows"}, page : Nat \ {0}, early : BOOLEAN,
                coming : Seq(Products), before : Nat, full : BOOLEAN,
                cols : Columns]
  BY <1>1 DEF FeedInv, FeedTypeOK, Calls, Idle
<1>3. last \in Int /\ last <= Len(call.coming)
  BY <1>2
<1>4. new \in Seq(Products) /\ IsPrefix(shown.products, new)
  BY <1>1, <1>3, RowAdds
<1> HIDE DEF new, last
<1>5. /\ call.page \in Nat /\ (next.hasMore /\ call.full) \in BOOLEAN
  BY <1>2
<1>6. next' \in Lists /\ next'.products = new
  BY <1>1, <1>4, <1>5 DEF Lists
<1>7. FeedTypeOK'
  BY <1>1, <1>4, <1>6 DEF FeedInv, FeedTypeOK, server, ListOf, Calls
<1> QED
  BY <1>1, <1>7, NoCallNoPage DEF FeedInv

\* A failed load.
LEMMA LoadFailedKeeps ==
    ASSUME FeedInv, LoadFailed
    PROVE  FeedInv'
<1>1. /\ failed' = TRUE /\ loading' = FALSE /\ call' = Idle
      /\ UNCHANGED <<server, language, mounted, next, shown, asks, feedCache,
                     clicks>>
  BY DEF LoadFailed, Finish
<1>2. FeedTypeOK'
  BY <1>1 DEF FeedInv, FeedTypeOK, server, ListOf, Calls
<1> QED
  BY <1>1, <1>2, NoCallNoPage DEF FeedInv

\* A cache that is given a list has lists.
LEMMA KeepIsLists ==
    ASSUME FeedTypeOK, NEW list \in Lists
    PROVE  /\ DOMAIN Keep(language, list) \subseteq Langs
           /\ \A l \in DOMAIN Keep(language, list) :
                Keep(language, list)[l] \in Lists
BY DEF FeedTypeOK, Keep

\* A rendering: what is shown is the whole list, and a page that is being
\* shown keeps its place.
LEMMA RenderIsSafe ==
    ASSUME FeedInv, Render
    PROVE  FeedInv'
<1>1. /\ shown' = Rendered(next, language)
      /\ asks' = (IF Behind THEN language ELSE asks)
      /\ feedCache' = Keep(language, next)
      /\ UNCHANGED <<server, language, mounted, next, loading, failed, call,
                     clicks>>
  BY DEF Render
<1>2. next \in Lists /\ language \in Langs /\ asks \in Langs
  BY DEF FeedInv, FeedTypeOK
<1>3. /\ ListOf(shown') = next /\ shown'.lang = language
      /\ IsPrefix(shown'.products, next.products)
  BY <1>1, <1>2, RenderedIs
<1>4. asks' \in Langs
  BY <1>1, <1>2
<1>5. /\ DOMAIN feedCache' \subseteq Langs
      /\ \A l \in DOMAIN feedCache' : feedCache'[l] \in Lists
  BY <1>1, <1>2, KeepIsLists DEF FeedInv
<1>6. FeedTypeOK'
  BY <1>1, <1>2, <1>3, <1>4, <1>5 DEF FeedInv, FeedTypeOK, server, ListOf
<1>7. PageHasPlace' /\ TailIsTheEnd' /\ SpreadOut'
  BY <1>1 DEF FeedInv, PageHasPlace, TailIsTheEnd, SpreadOut
<1> QED
  BY <1>6, <1>7 DEF FeedInv

\* The grid goes away: the list is what was rendered.
LEMMA LeaveIsSafe ==
    ASSUME FeedInv, Leave
    PROVE  FeedInv'
<1>1. /\ mounted' = FALSE /\ failed' = FALSE
      /\ next' = ListOf(shown)
      /\ loading' = FALSE /\ call' = Idle
      /\ UNCHANGED <<server, language, shown, asks, feedCache>>
  BY DEF Leave, Finish
<1>2. next' \in Lists /\ next'.products = shown.products
  BY <1>1 DEF FeedInv, FeedTypeOK, ListOf
<1>3. IsPrefix(shown.products, shown.products)
  BY DEF IsPrefix, FeedInv, FeedTypeOK
<1>4. FeedTypeOK'
  BY <1>1, <1>2, <1>3 DEF FeedInv, FeedTypeOK, server, ListOf, Calls
<1> QED
  BY <1>1, <1>4, NoCallNoPage DEF FeedInv

\* The grid comes back with what was kept.
LEMMA ReturnIsSafe ==
    ASSUME FeedInv, Return
    PROVE  FeedInv'
<1>1. /\ ~mounted /\ mounted' = TRUE
      /\ next' = Cached
      /\ shown' = Rendered(Cached, language)
      /\ feedCache' = Keep(language, Cached)
      /\ asks' = language
      /\ UNCHANGED <<server, language, loading, failed, call>>
  BY DEF Return
<1>2. call = Idle /\ loading = FALSE
  BY <1>1 DEF FeedInv, FeedTypeOK
<1>3. Cached \in Lists /\ language \in Langs
  BY ListsAgree DEF FeedInv, FeedTypeOK
<1>4. /\ ListOf(shown') = Cached /\ shown'.lang = language
      /\ IsPrefix(shown'.products, Cached.products)
  BY <1>1, <1>3, RenderedIs
<1>5. /\ DOMAIN feedCache' \subseteq Langs
      /\ \A l \in DOMAIN feedCache' : feedCache'[l] \in Lists
  BY <1>1, <1>3, KeepIsLists DEF FeedInv
<1>6. FeedTypeOK'
  BY <1>1, <1>2, <1>3, <1>4, <1>5 DEF FeedInv, FeedTypeOK, server, ListOf
<1> QED
  BY <1>1, <1>2, <1>6, NoCallNoPage DEF FeedInv

\* A change of language under the grid.
LEMMA LanguageIsSafe ==
    ASSUME FeedInv, NEW lang \in Langs, handleLanguageChange(lang)
    PROVE  FeedInv'
<1>1. /\ language' = lang
      /\ UNCHANGED <<server, mounted, grid, feedCache>>
  BY DEF handleLanguageChange
<1>2. FeedTypeOK'
  BY <1>1 DEF FeedInv, FeedTypeOK, server, grid, ListOf
<1>3. PageHasPlace' /\ TailIsTheEnd' /\ SpreadOut'
  BY <1>1 DEF FeedInv, PageHasPlace, TailIsTheEnd, SpreadOut, grid
<1> QED
  BY <1>2, <1>3 DEF FeedInv

\* The invariant at the start.
LEMMA FeedStart ==
    ASSUME FeedAssumption, FeedInit
    PROVE  FeedInv
<1>1. /\ call = Idle /\ next = Start /\ shown = Rendered(Start, language)
      /\ language \in Langs /\ asks = language
      /\ kept = <<>> /\ feedCache = [l \in {language} |-> Start]
  BY DEF FeedInit
<1>2. Start \in Lists
  BY DEF Start, Lists
<1>3. /\ ListOf(shown) = next /\ shown.lang = language
      /\ IsPrefix(shown.products, next.products)
  BY <1>1, <1>2, RenderedIs
<1>4. \A k \in DOMAIN kept : kept[k] \in Seq(Products)
  BY <1>1
<1>5. /\ DOMAIN feedCache \subseteq Langs
      /\ \A l \in DOMAIN feedCache : feedCache[l] \in Lists
  BY <1>1, <1>2
<1>6. /\ active \subseteq Products /\ mounted = TRUE
      /\ loading = FALSE /\ failed = FALSE
  BY DEF FeedInit
<1>7. call \in Calls
  BY <1>1 DEF Calls
<1>8. FeedTypeOK
  BY <1>1, <1>2, <1>3, <1>4, <1>5, <1>6, <1>7 DEF FeedTypeOK
<1>9. call.stage = "idle"
  BY <1>1 DEF Idle
<1> QED
  BY <1>8, <1>9 DEF FeedInv, PageHasPlace, TailIsTheEnd, SpreadOut

\* Every step of the grid, of the shops and of other visitors.
LEMMA FeedStep ==
    ASSUME FeedAssumption, FeedInv, [FeedNext]_feedVars
    PROVE  FeedInv'
<1>1. /\ active \subseteq Products
      /\ \A k \in DOMAIN kept : kept[k] \in Seq(Products)
  BY DEF FeedInv, FeedTypeOK
<1>2. ASSUME NEW p \in Products, Edit(p)
      PROVE  FeedInv'
  <2>1. /\ active' = (active \ {p}) \cup ({p} \ active) /\ kept' = kept
        /\ UNCHANGED <<language, mounted, grid, feedCache>>
    BY <1>2 DEF Edit
  <2> QED
    BY <1>1, <2>1, ServerKeeps
<1>3. ASSUME NEW page \in 1 .. MaxPage, NEW lang \in Langs,
             OtherVisitor(page, lang)
      PROVE  FeedInv'
  <2>1. Reply(page, lang) \in Seq(Products)
    BY ReplyOfPage
  <2>2. /\ Remember(<<page, lang>>, Reply(page, lang)) /\ active' = active
        /\ UNCHANGED <<language, mounted, grid, feedCache>>
    BY <1>3 DEF OtherVisitor
  <2>3. \A q \in DOMAIN kept' : kept'[q] \in Seq(Products)
    BY <2>1, <2>2, RememberKeeps DEF FeedInv
  <2> QED
    BY <1>1, <2>2, <2>3, ServerKeeps
<1>4. CASE FreshAnswer
  <2>1. call.stage = "asked"
    BY <1>4 DEF FreshAnswer
  <2>2. call.page \in Nat \ {0}
    BY <2>1 DEF FeedInv, FeedTypeOK, Calls, Idle
  <2>3. Reply(call.page, call.lang) \in Seq(Products)
    BY <2>2, ReplyOfPage
  <2>4. /\ Answered(Reply(call.page, call.lang))
        /\ Remember(<<call.page, call.lang>>, Reply(call.page, call.lang))
    BY <1>4 DEF FreshAnswer
  <2>5. \A q \in DOMAIN kept' : kept'[q] \in Seq(Products)
    BY <2>3, <2>4, RememberKeeps DEF FeedInv
  <2> QED
    BY <2>1, <2>3, <2>4, <2>5, AnsweredKeeps
<1>5. CASE KeptAnswer
  BY <1>1, <1>5, AnsweredKeeps DEF KeptAnswer
<1>6. CASE EmptyAnswer
  BY <1>1, <1>6, AnsweredKeeps, EmptySeq DEF EmptyAnswer
<1>7. CASE UNCHANGED feedVars
  BY <1>1, <1>7, ServerKeeps DEF feedVars, server
<1> QED
  BY <1>2, <1>3, <1>4, <1>5, <1>6, <1>7, LoadKeeps, LoadFailedKeeps,
     ShowRowKeeps, ShowLastRowKeeps, RenderIsSafe, LeaveIsSafe, ReturnIsSafe,
     LanguageIsSafe
     DEF FeedNext

LEMMA FeedInvariant == FeedSpec => []FeedInv
<1>1. FeedInit => FeedInv
  BY FeedAssumption, FeedStart
<1>2. FeedInv /\ [FeedNext]_feedVars => FeedInv'
  BY FeedAssumption, FeedStep
<1> QED
  BY <1>1, <1>2, PTL DEF FeedSpec

\* The state of the grid has its types, a load runs exactly while loadingRef
\* is set, and what is rendered is never ahead of the setters (FeedTypeOK).
THEOREM FeedTypeCorrect == FeedSpec => []FeedTypeOK
<1>1. FeedInv => FeedTypeOK
  BY DEF FeedInv
<1> QED
  BY <1>1, FeedInvariant, PTL

\* For every catalogue, page size, width of screen and number of visits, three
\* cards of one shop follow each other only where no other shop could have
\* come between (SpreadOut), also where two pages meet.
THEOREM ShopsAreSpread == FeedSpec => []SpreadOut
<1>1. FeedInv => SpreadOut
  BY DEF FeedInv
<1> QED
  BY <1>1, FeedInvariant, PTL
-----------------------------------------------------------------------------
(* The cache of the grid. *)

\* The module-level cache has the grid as it was rendered last.
KeptForReturn ==
    /\ shown.lang \in DOMAIN feedCache
    /\ ListOf(feedCache[shown.lang]) = ListOf(shown)

\* Only a rendering and a mount change what is shown or what is kept.
QuietSteps ==
    \/ \E p \in Products : Edit(p)
    \/ \E page \in 1 .. MaxPage, lang \in Langs : OtherVisitor(page, lang)
    \/ LoadNextPage \/ FreshAnswer \/ KeptAnswer \/ EmptyAnswer \/ LoadFailed
    \/ ShowRow \/ ShowLastRow
    \/ Leave
    \/ \E lang \in Langs : handleLanguageChange(lang)

\* A quiet step touches neither the rendered grid nor the cache, and does not
\* mount the grid.
LEMMA QuietStepsKeep ==
    ASSUME QuietSteps
    PROVE  /\ UNCHANGED <<shown, feedCache>>
           /\ mounted' => mounted
<1>1. ASSUME NEW p \in Products, Edit(p)
      PROVE  UNCHANGED <<shown, feedCache, mounted>>
  BY <1>1 DEF Edit, grid
<1>2. ASSUME NEW page \in 1 .. MaxPage, NEW lang \in Langs,
             OtherVisitor(page, lang)
      PROVE  UNCHANGED <<shown, feedCache, mounted>>
  BY <1>2 DEF OtherVisitor, grid
<1>3. CASE LoadNextPage
  BY <1>3 DEF LoadNextPage
<1>4. ASSUME NEW batch, Answered(batch)
      PROVE  UNCHANGED <<shown, feedCache, mounted>>
  BY <1>4 DEF Answered
<1>5. CASE FreshAnswer
  BY <1>4, <1>5 DEF FreshAnswer
<1>6. CASE KeptAnswer
  BY <1>4, <1>6 DEF KeptAnswer
<1>7. CASE EmptyAnswer
  BY <1>4, <1>7 DEF EmptyAnswer
<1>8. CASE LoadFailed
  BY <1>8 DEF LoadFailed
<1>9. CASE ShowRow
  BY <1>9 DEF ShowRow
<1>10. CASE ShowLastRow
  BY <1>10 DEF ShowLastRow
<1>11. CASE Leave
  BY <1>11 DEF Leave
<1>12. ASSUME NEW lang \in Langs, handleLanguageChange(lang)
       PROVE  UNCHANGED <<shown, feedCache, mounted>>
  BY <1>12 DEF handleLanguageChange, grid
<1> QED
  BY <1>1, <1>2, <1>3, <1>5, <1>6, <1>7, <1>8, <1>9, <1>10, <1>11, <1>12
     DEF QuietSteps

\* A rendering keeps what it renders.
LEMMA RenderKeeps ==
    ASSUME Render
    PROVE  KeptForReturn'
<1>1. /\ shown' = Rendered(next, language)
      /\ feedCache' = Keep(language, next)
  BY DEF Render
<1>2. shown'.lang = language /\ ListOf(shown') = ListOf(next)
  BY <1>1 DEF Rendered, ListOf
<1>3. language \in DOMAIN feedCache' /\ feedCache'[language] = next
  BY <1>1 DEF Keep
<1> QED
  BY <1>2, <1>3 DEF KeptForReturn, ListOf

\* A mount shows what was kept, and keeps it.
LEMMA ReturnKeeps ==
    ASSUME Return
    PROVE  /\ KeptForReturn'
           /\ ListOf(shown') = ListOf(Cached)
<1>1. /\ shown' = Rendered(Cached, language)
      /\ feedCache' = Keep(language, Cached)
  BY DEF Return
<1>2. shown'.lang = language /\ ListOf(shown') = ListOf(Cached)
  BY <1>1 DEF Rendered, ListOf
<1>3. language \in DOMAIN feedCache' /\ feedCache'[language] = Cached
  BY <1>1 DEF Keep
<1> QED
  BY <1>2, <1>3 DEF KeptForReturn, ListOf

\* What was rendered last is always in the cache, under its language: the
\* reason why a visit to a product loses nothing (feedCache, effect 140-142).
THEOREM LastRenderingIsKept == FeedSpec => []KeptForReturn
<1>1. FeedInit => KeptForReturn
  BY DEF FeedInit, KeptForReturn, Rendered, ListOf, Start
<1>2. KeptForReturn /\ [FeedNext]_feedVars => KeptForReturn'
  <2> SUFFICES ASSUME KeptForReturn, [FeedNext]_feedVars
               PROVE  KeptForReturn'
    OBVIOUS
  <2>1. CASE QuietSteps
    <3>1. UNCHANGED <<shown, feedCache>>
      BY <2>1, QuietStepsKeep
    <3> QED
      BY <3>1 DEF KeptForReturn, ListOf
  <2>2. CASE Render
    BY <2>2, RenderKeeps
  <2>3. CASE Return
    BY <2>3, ReturnKeeps
  <2>4. CASE UNCHANGED feedVars
    BY <2>4 DEF KeptForReturn, ListOf, feedVars, grid
  <2> QED
    BY <2>1, <2>2, <2>3, <2>4 DEF FeedNext, QuietSteps
<1> QED
  BY <1>1, <1>2, PTL DEF FeedSpec

\* Coming back in the language a product was opened in shows the grid as it
\* was left (RestoredAsLeft), whatever else happened in between.
THEOREM ReturnRestores == FeedSpec => RestoredAsLeft
<1>1. KeptForReturn /\ [FeedNext]_feedVars =>
        [~mounted /\ mounted' /\ language = shown.lang
           => ListOf(shown') = ListOf(shown)]_feedVars
  <2> SUFFICES ASSUME KeptForReturn, FeedNext,
                      ~mounted, mounted', language = shown.lang
               PROVE  ListOf(shown') = ListOf(shown)
    OBVIOUS
  <2>1. CASE QuietSteps
    BY <2>1, QuietStepsKeep
  <2>2. CASE Render
    BY <2>2 DEF Render
  <2>3. CASE Return
    <3>1. Cached = feedCache[shown.lang]
      BY DEF KeptForReturn, Cached
    <3>2. ListOf(Cached) = ListOf(shown)
      BY <3>1 DEF KeptForReturn
    <3> QED
      BY <2>3, <3>2, ReturnKeeps
  <2> QED
    BY <2>1, <2>2, <2>3 DEF FeedNext, QuietSteps
<1> QED
  BY <1>1, LastRenderingIsKept, PTL DEF FeedSpec, RestoredAsLeft

\* Cards on the screen are never moved or taken away (NeverReordered).
THEOREM CardsStay == FeedSpec => NeverReordered
<1>1. FeedInv /\ [FeedNext]_feedVars =>
        [mounted /\ mounted' =>
           IsPrefix(shown.products, shown'.products)]_feedVars
  <2> SUFFICES ASSUME FeedInv, FeedNext, mounted, mounted'
               PROVE  IsPrefix(shown.products, shown'.products)
    OBVIOUS
  <2>1. CASE QuietSteps
    <3>1. shown' = shown
      BY <2>1, QuietStepsKeep
    <3> QED
      BY <3>1, ListsAgree DEF FeedInv, IsPrefix
  <2>2. CASE Render
    <3>1. shown' = Rendered(next, language)
      BY <2>2 DEF Render
    <3>2. shown'.products = next.products
      BY <3>1 DEF Rendered
    <3> QED
      BY <3>2 DEF FeedInv, FeedTypeOK
  <2>3. CASE Return
    BY <2>3 DEF Return
  <2> QED
    BY <2>1, <2>2, <2>3 DEF FeedNext, QuietSteps
<1> QED
  BY <1>1, FeedInvariant, PTL DEF FeedSpec, NeverReordered
=============================================================================
