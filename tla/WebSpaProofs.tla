---------------------------- MODULE WebSpaProofs ----------------------------
(***************************************************************************)
(* Theorems about the browser tab, for any number of products, basket      *)
(* objects, requests under way, orders, reloads and mishaps.               *)
(***************************************************************************)
EXTENDS WebSpa, InductionLemmas, SequenceTheorems

---------------------------------------------------------------------------
(***************************************************************************)
(* Sequences with an element less.                                         *)
(***************************************************************************)
LEMMA Removed ==
  ASSUME NEW S, NEW s \in Seq(S), NEW i \in DOMAIN s
  PROVE  /\ RemoveAt(s, i) \in Seq(S)
         /\ Len(RemoveAt(s, i)) = Len(s) - 1
         /\ DOMAIN RemoveAt(s, i) = 1 .. Len(s) - 1
         /\ \A j \in 1 .. Len(s) - 1 :
                RemoveAt(s, i)[j] = IF j < i THEN s[j] ELSE s[j + 1]
<1> DEFINE a == SubSeq(s, 1, i - 1)
           b == SubSeq(s, i + 1, Len(s))
<1>1. i \in 1 .. Len(s) /\ Len(s) \in Nat
  OBVIOUS
<1>2. a \in Seq(S) /\ Len(a) = i - 1 /\ \A j \in 1 .. i - 1 : a[j] = s[j]
  BY <1>1
<1>3. b \in Seq(S) /\ Len(b) = Len(s) - i /\ \A j \in 1 .. Len(s) - i : b[j] = s[j + i]
  BY <1>1
<1>4. RemoveAt(s, i) = a \o b
  BY DEF RemoveAt
<1> DEFINE N == Len(s)
<1> HIDE DEF a, b
<1>5. /\ a \o b \in Seq(S)
      /\ Len(a \o b) = N - 1
      /\ \A j \in 1 .. N - 1 : (a \o b)[j] = IF j <= i - 1 THEN a[j] ELSE b[j - (i - 1)]
  <2>1. /\ a \o b \in Seq(S)
        /\ Len(a \o b) = Len(a) + Len(b)
        /\ \A j \in 1 .. Len(a) + Len(b) :
               (a \o b)[j] = IF j <= Len(a) THEN a[j] ELSE b[j - Len(a)]
    BY <1>2, <1>3, ConcatProperties
  <2>2. Len(a) = i - 1 /\ Len(a) + Len(b) = N - 1
    BY <1>1, <1>2, <1>3
  <2> QED BY <2>1, <2>2
<1>6. ASSUME NEW j \in 1 .. N - 1
      PROVE  (a \o b)[j] = IF j < i THEN s[j] ELSE s[j + 1]
  <2>1. i \in 1 .. N /\ N \in Nat
    BY <1>1
  <2>2. /\ \A k \in 1 .. i - 1 : a[k] = s[k]
        /\ \A k \in 1 .. N - i : b[k] = s[k + i]
    BY <1>2, <1>3
  <2> HIDE DEF N
  <2>3. CASE j < i
    <3>1. j <= i - 1 /\ j \in 1 .. i - 1
      BY <2>1, <2>3
    <3> QED BY <1>5, <2>2, <2>3, <3>1
  <2>4. CASE ~(j < i)
    <3>1. ~(j <= i - 1) /\ j - (i - 1) \in 1 .. N - i /\ j - (i - 1) + i = j + 1
      BY <2>1, <2>4
    <3>2. b[j - (i - 1)] = s[j + 1]
      BY <2>2, <3>1
    <3> QED BY <1>5, <2>4, <3>1, <3>2
  <2> QED BY <2>3, <2>4
<1> QED BY <1>4, <1>5, <1>6

LEMMA RemovedDomain ==
  ASSUME NEW S, NEW s \in Seq(S), NEW i \in DOMAIN s
  PROVE  DOMAIN s = 1 .. Len(s) /\ DOMAIN RemoveAt(s, i) \subseteq Nat \ {0}
<1>1. Len(s) \in Nat /\ DOMAIN s = 1 .. Len(s)
  OBVIOUS
<1>2. DOMAIN RemoveAt(s, i) = 1 .. Len(s) - 1
  BY Removed
<1> QED BY <1>1, <1>2

\* Of two lists that differ at one place the same is left without it.
LEMMA SameWithout ==
  ASSUME NEW S, NEW s \in Seq(S), NEW new \in Seq(S), Len(new) = Len(s), NEW i \in DOMAIN s,
         \A j \in DOMAIN s : j # i => new[j] = s[j]
  PROVE  RemoveAt(new, i) = RemoveAt(s, i)
<1> DEFINE less == RemoveAt(s, i)
           also == RemoveAt(new, i)
           N    == Len(s)
<1>1. /\ less \in Seq(S) /\ Len(less) = N - 1
      /\ \A j \in 1 .. N - 1 : less[j] = IF j < i THEN s[j] ELSE s[j + 1]
  BY Removed
<1>2. /\ also \in Seq(S) /\ Len(also) = N - 1
      /\ \A j \in 1 .. N - 1 : also[j] = IF j < i THEN new[j] ELSE new[j + 1]
  <2>1. i \in DOMAIN new
    OBVIOUS
  <2> QED BY <2>1, Removed
<1>3. N \in Nat /\ i \in 1 .. N /\ DOMAIN s = 1 .. N
  OBVIOUS
<1> HIDE DEF less, also, N
<1>4. ASSUME NEW j \in 1 .. N - 1 PROVE also[j] = less[j]
  <2>1. CASE j < i
    <3>1. j \in DOMAIN s /\ j # i
      BY <1>3, <2>1
    <3> QED BY <1>1, <1>2, <2>1, <3>1
  <2>2. CASE ~(j < i)
    <3>1. j + 1 \in DOMAIN s /\ j + 1 # i
      BY <1>3, <2>2
    <3> QED BY <1>1, <1>2, <2>2, <3>1
  <2> QED BY <2>1, <2>2
<1>5. also = less
  BY <1>1, <1>2, <1>3, <1>4
<1> QED BY <1>5 DEF also, less

---------------------------------------------------------------------------
(***************************************************************************)
(* Type correctness.                                                       *)
(***************************************************************************)
LivePage(r) == r.then = "page" /\ r.live

LiveSubmit(r) == r.then = "submit" /\ r.live

\* The requests rs are what they can be when the route is pg, and pr says whether an order
\* is processed.
RequestsOK(rs, pg, pr) ==
    /\ rs \in Seq(Requests)
    /\ \A i \in DOMAIN rs : rs[i].then = "checkOut" => rs[i].of \in Objects
    /\ \A i \in DOMAIN rs : LivePage(rs[i]) => pg = "basket"
    /\ \A i, j \in DOMAIN rs : LiveSubmit(rs[i]) /\ LiveSubmit(rs[j]) => i = j
    /\ pr \in BOOLEAN /\ (pr <=> \E i \in DOMAIN rs : LiveSubmit(rs[i]))

OthersOK ==
    /\ heap \in [Objects -> SUBSET Products]
    /\ {local, shown, wrapped} \subseteq {None} \cup Objects
    /\ page \in Pages
    /\ summary \subseteq Products
    /\ badge \in 0 .. Cardinality(Products)
    /\ stored \in {NoBasket} \cup SUBSET Products
    /\ accepted \in Nat /\ accepted <= Len(orders) /\ Len(orders) <= MaxOrders
    /\ added \in [Products -> Nat]
    /\ orders \in Seq([lines : SUBSET Products, listed : SUBSET Products])
    /\ mishaps \subseteq Mishaps
    /\ reloads \in 0 .. MaxReloads
    /\ shown # None => page = "basket"
    /\ summary # {} => page = "order"

TypeInv == OthersOK /\ RequestsOK(requests, page, processing)

LEMMA RequestType ==
  ASSUME NEW r \in Requests
  PROVE  /\ r.call \in {"GET", "POST", "checkout"} /\ r.then \in Callbacks /\ r.lines \in SUBSET Products
         /\ r.of \in Objects \cup {None} /\ r.live \in BOOLEAN /\ r.stage \in {"sent", "answered", "failed"}
BY DEF Requests

LEMMA TypeInvTypes == TypeInv => SpaTypeOK
<1> SUFFICES ASSUME TypeInv PROVE SpaTypeOK
  OBVIOUS
<1>1. requests \in Seq(Requests) /\ processing \in BOOLEAN
  BY DEF TypeInv, RequestsOK
<1>2. processing = \E i \in DOMAIN requests : requests[i].then = "submit" /\ requests[i].live
  BY Zenon DEF TypeInv, RequestsOK, LiveSubmit
<1>3. accepted \in 0 .. MaxOrders
  BY SpaAssumption DEF TypeInv, OthersOK
<1> QED BY <1>1, <1>2, <1>3 DEF TypeInv, OthersOK, SpaTypeOK

\* A request that no order page waits for is taken off the list.
LEMMA RemovedOK ==
  ASSUME NEW rs, NEW pg, NEW pr, RequestsOK(rs, pg, pr), NEW i \in DOMAIN rs
  PROVE  /\ ~LiveSubmit(rs[i]) => RequestsOK(RemoveAt(rs, i), pg, pr)
         /\ LiveSubmit(rs[i]) => RequestsOK(RemoveAt(rs, i), pg, FALSE)
<1> DEFINE less == RemoveAt(rs, i)
           N    == Len(rs)
<1>1. rs \in Seq(Requests) /\ N \in Nat /\ DOMAIN rs = 1 .. N
  BY DEF RequestsOK
<1>2. /\ less \in Seq(Requests) /\ DOMAIN less = 1 .. N - 1
      /\ \A j \in 1 .. N - 1 : less[j] = IF j < i THEN rs[j] ELSE rs[j + 1]
  BY <1>1, Removed
<1> HIDE DEF less
<1>3. /\ \A j \in 1 .. N - 1 : \E k \in DOMAIN rs : less[j] = rs[k] /\ k # i
      /\ \A k \in DOMAIN rs : k # i => \E j \in DOMAIN less : less[j] = rs[k]
  <2>1. ASSUME NEW j \in 1 .. N - 1 PROVE \E k \in DOMAIN rs : less[j] = rs[k] /\ k # i
    <3>1. CASE j < i
      BY <1>1, <1>2, <3>1
    <3>2. CASE ~(j < i)
      <4>1. j + 1 \in DOMAIN rs /\ j + 1 # i
        BY <1>1, <3>2
      <4> QED BY <1>2, <3>2, <4>1
    <3> QED BY <3>1, <3>2
  <2>2. ASSUME NEW k \in DOMAIN rs, k # i PROVE \E j \in DOMAIN less : less[j] = rs[k]
    <3>1. CASE k < i
      BY <1>1, <1>2, <3>1
    <3>2. CASE k > i
      <4>1. k - 1 \in 1 .. N - 1 /\ ~(k - 1 < i) /\ (k - 1) + 1 = k
        BY <1>1, <2>2, <3>2
      <4> QED BY <1>2, <4>1
    <3> QED BY <1>1, <2>2, <3>1, <3>2
  <2> QED BY <2>1, <2>2
<1>4. /\ \A j \in DOMAIN less : less[j].then = "checkOut" => less[j].of \in Objects
      /\ \A j \in DOMAIN less : LivePage(less[j]) => pg = "basket"
  BY <1>2, <1>3 DEF RequestsOK
<1>5. ASSUME NEW j \in DOMAIN less, NEW k \in DOMAIN less, LiveSubmit(less[j]), LiveSubmit(less[k])
      PROVE  j = k
  <2> DEFINE At(n) == IF n < i THEN n ELSE n + 1
  <2>1. /\ At(j) \in DOMAIN rs /\ At(k) \in DOMAIN rs
        /\ less[j] = rs[At(j)] /\ less[k] = rs[At(k)]
    BY <1>1, <1>2
  <2>2. At(j) = At(k)
    BY <1>5, <2>1 DEF RequestsOK
  <2> QED BY <1>1, <1>2, <2>2
<1>6. CASE ~LiveSubmit(rs[i])
  <2>1. (\E j \in DOMAIN rs : LiveSubmit(rs[j])) <=> (\E j \in DOMAIN less : LiveSubmit(less[j]))
    BY <1>1, <1>2, <1>3, <1>6
  <2> QED BY <1>2, <1>4, <1>5, <1>6, <2>1 DEF RequestsOK, less
<1>7. CASE LiveSubmit(rs[i])
  <2>1. \A j \in DOMAIN less : ~LiveSubmit(less[j])
    BY <1>2, <1>3, <1>7 DEF RequestsOK
  <2> QED BY <1>2, <1>4, <1>5, <1>7, <2>1 DEF RequestsOK, less
<1> QED BY <1>6, <1>7

\* A request is sent that no order page waits for.
LEMMA AppendedOK ==
  ASSUME NEW rs, NEW pg, NEW pr, RequestsOK(rs, pg, pr), NEW r \in Requests,
         r.then = "checkOut" => r.of \in Objects,
         LivePage(r) => pg = "basket",
         ~LiveSubmit(r)
  PROVE  RequestsOK(Append(rs, r), pg, pr)
<1> DEFINE more == Append(rs, r)
           N    == Len(rs)
<1>1. rs \in Seq(Requests) /\ N \in Nat /\ DOMAIN rs = 1 .. N
  BY DEF RequestsOK
<1>2. /\ more \in Seq(Requests) /\ DOMAIN more = 1 .. N + 1 /\ more[N + 1] = r
      /\ \A j \in 1 .. N : more[j] = rs[j]
  BY <1>1
<1> HIDE DEF more
<1>3. (\E j \in DOMAIN rs : LiveSubmit(rs[j])) <=> (\E j \in DOMAIN more : LiveSubmit(more[j]))
  BY <1>1, <1>2
<1>4. \A j \in DOMAIN more : j = N + 1 \/ (j \in DOMAIN rs /\ more[j] = rs[j])
  BY <1>1, <1>2
<1>5. /\ \A j \in DOMAIN more : more[j].then = "checkOut" => more[j].of \in Objects
      /\ \A j \in DOMAIN more : LivePage(more[j]) => pg = "basket"
      /\ \A j, k \in DOMAIN more : LiveSubmit(more[j]) /\ LiveSubmit(more[k]) => j = k
  BY <1>2, <1>4 DEF RequestsOK
<1> QED BY <1>2, <1>3, <1>5 DEF RequestsOK, more

\* The component is destroyed.
LEMMA LeavesOK ==
  ASSUME RequestsOK(requests, page, processing), NEW pg
  PROVE  RequestsOK(Leaves, pg, FALSE) /\ Len(Leaves) = Len(requests)
<1>1. requests \in Seq(Requests)
  BY DEF RequestsOK
<1>2. \A i \in DOMAIN requests : [requests[i] EXCEPT !.live = FALSE] \in Requests
  <2>1. \A r \in Requests : [r EXCEPT !.live = FALSE] \in Requests
    BY DEF Requests
  <2>2. \A i \in DOMAIN requests : requests[i] \in Requests
    BY <1>1
  <2> QED BY <2>1, <2>2
<1>3. Leaves \in Seq(Requests) /\ DOMAIN Leaves = DOMAIN requests /\ Len(Leaves) = Len(requests)
  <2>1. DOMAIN requests = 1 .. Len(requests) /\ Len(requests) \in Nat
    BY <1>1
  <2>2. Leaves \in [1 .. Len(requests) -> Requests]
    BY <1>2, <2>1 DEF Leaves
  <2> QED BY <2>1, <2>2
<1>4. ASSUME NEW i \in DOMAIN requests
      PROVE  /\ Leaves[i].then = requests[i].then /\ Leaves[i].of = requests[i].of
             /\ Leaves[i].live = FALSE
  <2>1. Leaves[i] = [requests[i] EXCEPT !.live = FALSE] /\ requests[i] \in Requests
    BY <1>1 DEF Leaves
  <2> QED BY <2>1 DEF Requests
<1> QED BY <1>3, <1>4 DEF RequestsOK, LivePage, LiveSubmit

\* The stage and the lines of a request change.
LEMMA AnsweredOK ==
  ASSUME NEW rs, NEW pg, NEW pr, RequestsOK(rs, pg, pr), NEW i \in DOMAIN rs,
         NEW stage \in {"sent", "answered", "failed"}, NEW lines \in SUBSET Products
  PROVE  RequestsOK([rs EXCEPT ![i].stage = stage, ![i].lines = lines], pg, pr)
<1> DEFINE new == [rs EXCEPT ![i].stage = stage, ![i].lines = lines]
<1>1. rs \in Seq(Requests) /\ rs[i] \in Requests
  BY DEF RequestsOK
<1>2. new = [rs EXCEPT ![i] = [rs[i] EXCEPT !.stage = stage, !.lines = lines]]
  BY <1>1
<1>3. [rs[i] EXCEPT !.stage = stage, !.lines = lines] \in Requests
  BY <1>1 DEF Requests
<1>4. new \in Seq(Requests) /\ DOMAIN new = DOMAIN rs
  BY <1>1, <1>2, <1>3
<1>5. \A j \in DOMAIN rs : /\ new[j].then = rs[j].then /\ new[j].of = rs[j].of
                            /\ new[j].live = rs[j].live
  BY <1>1, <1>2, <1>3 DEF Requests
<1> HIDE DEF new
<1> QED BY <1>4, <1>5 DEF RequestsOK, LivePage, LiveSubmit, new

LEMMA RequestMade ==
  ASSUME NEW call \in {"GET", "POST", "checkout"}, NEW then \in Callbacks, NEW lines \in SUBSET Products,
         NEW of \in Objects \cup {None}
  PROVE  /\ Request(call, then, lines, of) \in Requests
         /\ Request(call, then, lines, of).call = call
         /\ Request(call, then, lines, of).then = then
         /\ Request(call, then, lines, of).lines = lines
         /\ Request(call, then, lines, of).of = of
         /\ Request(call, then, lines, of).stage = "sent"
         /\ Request(call, then, lines, of).live <=> then \in {"page", "submit"}
<1> DEFINE alive == then \in {"page", "submit"}
<1>1. alive \in BOOLEAN
  OBVIOUS
<1>2. Request(call, then, lines, of)
          = [call |-> call, then |-> then, lines |-> lines, of |-> of, live |-> alive, stage |-> "sent"]
  BY DEF Request
<1> HIDE DEF alive
<1>3. Request(call, then, lines, of).live = alive
  BY <1>2
<1>4. Request(call, then, lines, of) \in Requests
  BY <1>1, <1>2 DEF Requests
<1>5. /\ Request(call, then, lines, of).call = call
      /\ Request(call, then, lines, of).then = then
      /\ Request(call, then, lines, of).lines = lines
      /\ Request(call, then, lines, of).of = of
      /\ Request(call, then, lines, of).stage = "sent"
  BY <1>2
<1>6. Request(call, then, lines, of).live <=> alive
  BY <1>3
<1> QED BY <1>4, <1>5, <1>6, Zenon DEF alive

\* A request is sent that no order page waits for.
LEMMA SentOK ==
  ASSUME NEW rs, NEW pg, NEW pr, RequestsOK(rs, pg, pr),
         NEW call \in {"GET", "POST", "checkout"}, NEW then \in Callbacks, NEW lines \in SUBSET Products,
         NEW of \in Objects \cup {None},
         then # "submit", then = "checkOut" => of \in Objects, then = "page" => pg = "basket"
  PROVE  RequestsOK(Append(rs, Request(call, then, lines, of)), pg, pr)
BY RequestMade, AppendedOK DEF LivePage, LiveSubmit

LEMMA TwoMore ==
  ASSUME NEW S, NEW s \in Seq(S), NEW a \in S, NEW b \in S
  PROVE  s \o <<a, b>> = Append(Append(s, a), b)
OBVIOUS

LEMMA KeepOK ==
  ASSUME NEW h \in [Objects -> SUBSET Products], Keep(h)
  PROVE  /\ heap' \in [Objects -> SUBSET Products]
         /\ \A x \in Objects : x \in InUse' => heap'[x] = h[x]
BY DEF Keep

\* The user's steps on the catalog and the basket page.
LEMMA AddToCartTypes == ASSUME TypeInv, NEW p \in Products, AddToCart(p) PROVE TypeInv'
<1> USE DEF TypeInv
<1>1. local \in Objects /\ heap' = [heap EXCEPT ![local] = @ \cup {p}]
  BY DEF AddToCart, OthersOK
<1>2. heap' \in [Objects -> SUBSET Products]
  BY <1>1 DEF OthersOK
<1>3. RequestsOK(requests', page', processing')
  <2>1. requests' = Append(requests, Request("POST", "change", heap'[local], None))
        /\ page' = page /\ processing' = processing
    BY DEF AddToCart, Post, component
  <2>2. heap'[local] \in SUBSET Products
    BY <1>1, <1>2
  <2> QED BY <2>1, <2>2, SentOK DEF Callbacks
<1>4. added' \in [Products -> Nat]
  BY DEF AddToCart, OthersOK
<1> QED BY <1>2, <1>3, <1>4 DEF AddToCart, OthersOK, component, services, Mishap, Mishaps, RequestsOK

LEMMA NavigateTypes == ASSUME TypeInv, NEW to \in Pages, Navigate(to) PROVE TypeInv'
<1> USE DEF TypeInv
<1>1. heap' \in [Objects -> SUBSET Products]
  BY KeepOK DEF Navigate, OthersOK
<1>2. RequestsOK(requests', page', processing')
  <2>1. RequestsOK(Leaves, page', FALSE) /\ processing' = FALSE /\ page' = to
    BY LeavesOK DEF Navigate
  <2>2. CASE to = "basket" /\ local # None
    <3>1. requests' = Append(Leaves, Request("GET", "page", {}, None))
      BY <2>2 DEF Navigate, Get
    <3> QED BY <2>1, <2>2, <3>1, SentOK DEF Callbacks
  <2>3. CASE ~(to = "basket" /\ local # None)
    BY <2>1, <2>3 DEF Navigate
  <2> QED BY <2>2, <2>3
<1> QED BY <1>1, <1>2 DEF Navigate, OthersOK, services, history, RequestsOK

LEMMA GoForwardToOrderTypes == ASSUME TypeInv, GoForwardToOrder PROVE TypeInv'
<1> USE DEF TypeInv
<1>1. heap' \in [Objects -> SUBSET Products]
  BY KeepOK DEF GoForwardToOrder, OthersOK
<1>2. RequestsOK(requests', page', processing')
  BY LeavesOK DEF GoForwardToOrder, OpensOrderPage
<1>3. heap[wrapped] \in SUBSET Products
  BY DEF GoForwardToOrder, OthersOK
<1> QED BY <1>1, <1>2, <1>3
    DEF GoForwardToOrder, OpensOrderPage, OthersOK, Pages, services, history, Mishap, Mishaps, RequestsOK

LEMMA PageTypes ==
  ASSUME TypeInv, NEW p, DeleteItem(p) \/ ItemQuantityChanged \/ CheckOut \/ CheckOutTooSoon
  PROVE  TypeInv'
<1> USE DEF TypeInv
<1>1. UNCHANGED <<component, wrapped, badge, services, history, reloads>>
  BY DEF DeleteItem, ItemQuantityChanged, CheckOut, CheckOutTooSoon
<1>2. heap' \in [Objects -> SUBSET Products]
  <2>1. CASE DeleteItem(p)
    <3>1. [heap EXCEPT ![shown] = @ \ {p}] \in [Objects -> SUBSET Products]
      BY DEF OthersOK
    <3> QED BY <2>1, <3>1, KeepOK DEF DeleteItem
  <2> QED BY <2>1, KeepOK DEF ItemQuantityChanged, CheckOut, CheckOutTooSoon, OthersOK
<1>3. local' = None \/ local' = shown
  BY DEF DeleteItem, ItemQuantityChanged, CheckOut, CheckOutTooSoon, SetBasket
<1>4. mishaps' \subseteq Mishaps
  BY DEF DeleteItem, ItemQuantityChanged, CheckOut, CheckOutTooSoon, Mishap, Mishaps, OthersOK
<1>5. RequestsOK(requests', page', processing')
  <2>1. page' = page /\ processing' = processing
    BY <1>1 DEF component
  <2>2. CASE DeleteItem(p)
    <3>1. /\ requests' = Append(requests, Request("POST", "change", heap[shown] \ {p}, None))
          /\ heap[shown] \ {p} \in SUBSET Products
      BY <2>2 DEF DeleteItem, Post, OthersOK
    <3> QED BY <2>1, <3>1, SentOK DEF Callbacks
  <2>3. CASE ItemQuantityChanged
    <3>1. /\ requests' = Append(requests, Request("POST", "none", heap[shown], None))
          /\ heap[shown] \in SUBSET Products
      BY <2>3 DEF ItemQuantityChanged, Post, OthersOK
    <3> QED BY <2>1, <3>1, SentOK DEF Callbacks
  <2>4. CASE CheckOut
    <3> DEFINE a == Request("POST", "none", heap[shown], None)
               b == Request("POST", "checkOut", heap[shown], shown)
    <3>1. heap[shown] \in SUBSET Products /\ shown \in Objects /\ requests' = requests \o <<a, b>>
      BY <2>4 DEF CheckOut, Post, OthersOK
    <3>2. a \in Requests /\ b \in Requests /\ requests \in Seq(Requests)
      BY <3>1, RequestMade DEF Callbacks, RequestsOK
    <3>3. requests' = Append(Append(requests, a), b)
      <4> HIDE DEF a, b
      <4> QED BY <3>1, <3>2, TwoMore
    <3>4. RequestsOK(Append(requests, a), page, processing)
      BY <3>1, SentOK DEF Callbacks
    <3> HIDE DEF a
    <3>5. RequestsOK(Append(Append(requests, a), b), page, processing)
      BY <3>1, <3>4, SentOK DEF Callbacks
    <3> QED BY <2>1, <3>3, <3>5
  <2>5. CASE CheckOutTooSoon
    BY <2>1, <2>5 DEF CheckOutTooSoon
  <2> QED BY <2>2, <2>3, <2>4, <2>5
<1> QED BY <1>1, <1>2, <1>3, <1>4, <1>5 DEF component, services, history, OthersOK, RequestsOK

LEMMA SubmitFormTypes == ASSUME TypeInv, SubmitForm PROVE TypeInv'
<1> USE DEF TypeInv
<1> DEFINE r == Request("checkout", "submit", summary, None)
           N == Len(requests)
<1>1. /\ r \in Requests /\ LiveSubmit(r) /\ ~LivePage(r) /\ r.then = "submit"
  BY RequestMade DEF Callbacks, LiveSubmit, LivePage, OthersOK
<1>2. requests \in Seq(Requests) /\ N \in Nat /\ requests' = Append(requests, r) /\ ~processing
  BY DEF SubmitForm, RequestsOK
<1> HIDE DEF r
<1>3. /\ requests' \in Seq(Requests) /\ DOMAIN requests' = 1 .. N + 1
      /\ requests'[N + 1] = r /\ \A i \in 1 .. N : requests'[i] = requests[i]
  BY <1>1, <1>2
<1>4. page' = page /\ processing' = TRUE
  BY DEF SubmitForm
<1>5. \A i \in DOMAIN requests' : i = N + 1 \/ (i \in DOMAIN requests /\ requests'[i] = requests[i])
  BY <1>2, <1>3
<1>6. \A i \in DOMAIN requests : ~LiveSubmit(requests[i])
  BY <1>2 DEF RequestsOK
<1>7. RequestsOK(requests', page', processing')
  BY <1>1, <1>2, <1>3, <1>4, <1>5, <1>6 DEF RequestsOK
<1> QED BY <1>7 DEF SubmitForm, OthersOK, services, history, RequestsOK

LEMMA StartOK ==
  ASSUME NEW rs, NEW pg, NEW pr, RequestsOK(rs, pg, pr)
  PROVE  RequestsOK(rs \o Start, pg, pr)
<1> DEFINE a == Request("GET", "load", {}, None)
           b == Request("GET", "badge", {}, None)
<1>1. RequestsOK(Append(rs, a), pg, pr)
  BY SentOK DEF Callbacks
<1>2. a \in Requests /\ b \in Requests /\ rs \in Seq(Requests)
  BY RequestMade DEF Callbacks, RequestsOK
<1> HIDE DEF a
<1>3. RequestsOK(Append(Append(rs, a), b), pg, pr)
  BY <1>1, SentOK DEF Callbacks
<1> HIDE DEF b
<1>4. rs \o <<a, b>> = Append(Append(rs, a), b)
  BY <1>2, TwoMore
<1> QED BY <1>3, <1>4 DEF a, b, Start, Get

LEMMA ReloadTypes == ASSUME TypeInv, Reload PROVE TypeInv'
<1> USE DEF TypeInv
<1> DEFINE kept == {i \in DOMAIN requests : requests[i].stage = "sent" /\ requests[i].call # "GET"}
           n    == Cardinality(kept)
<1>1. PICK place \in [1 .. n -> kept] :
          requests' = [i \in 1 .. n |-> Forgotten(requests[place[i]])] \o Start
  BY DEF Reload
<1>2. n \in Nat
  <2>1. IsFiniteSet(1 .. Len(requests)) /\ kept \subseteq 1 .. Len(requests)
    BY FS_Interval DEF RequestsOK
  <2> QED BY <2>1, FS_Subset, FS_CardinalityType
<1> DEFINE old == [i \in 1 .. n |-> Forgotten(requests[place[i]])]
<1>3. \A r \in Requests : /\ Forgotten(r) \in Requests
                          /\ Forgotten(r).then = "none"
  BY DEF Forgotten, Requests, Callbacks
<1>4. \A i \in 1 .. n : old[i] \in Requests /\ old[i].then = "none"
  <2>1. \A i \in 1 .. n : requests[place[i]] \in Requests
    BY <1>1 DEF RequestsOK
  <2> HIDE DEF n
  <2> QED BY <1>3, <2>1
<1>5. old \in Seq(Requests) /\ DOMAIN old = 1 .. n
  <2> HIDE DEF n
  <2>1. old \in [1 .. n -> Requests]
    BY <1>4
  <2> HIDE DEF old
  <2> QED BY <1>2, <2>1
<1>6. RequestsOK(old, "catalog", FALSE)
  <2> HIDE DEF old, n
  <2> QED BY <1>4, <1>5 DEF RequestsOK, LivePage, LiveSubmit
<1>7. RequestsOK(old \o Start, "catalog", FALSE)
  <2> HIDE DEF old
  <2> QED BY <1>6, StartOK
<1>8. RequestsOK(requests', page', processing')
  BY <1>1, <1>7 DEF Reload
<1>9. heap' \in [Objects -> SUBSET Products]
  BY DEF Reload
<1>10. reloads' \in 0 .. MaxReloads
  BY SpaAssumption DEF Reload, OthersOK
<1>11. Cardinality(Products) \in Nat
  BY SpaAssumption, FS_CardinalityType
<1>12. /\ local' = 1 /\ page' = "catalog" /\ shown' = None /\ wrapped' = None /\ summary' = {}
       /\ badge' = 0 /\ Mishap("loss", requests # <<>>)
       /\ UNCHANGED <<stored, accepted, added, orders>>
  BY DEF Reload, services, history
<1>13. mishaps' \subseteq Mishaps
  BY <1>12 DEF Mishap, Mishaps, OthersOK
<1>14. {local', shown', wrapped'} \subseteq {None} \cup Objects
  BY <1>12, SpaAssumption
<1>15. OthersOK'
  BY <1>9, <1>10, <1>11, <1>12, <1>13, <1>14 DEF OthersOK, Pages
<1> QED BY <1>8, <1>15 DEF RequestsOK

---------------------------------------------------------------------------
\* The services.
LEMMA ServeTypes == ASSUME TypeInv, NEW i \in DOMAIN requests, Serve(i) PROVE TypeInv'
<1> USE DEF TypeInv
<1>1. UNCHANGED <<heap, local, page, shown, summary, processing, wrapped, badge, added, reloads>>
  BY DEF Serve, component
<1>2. requests[i] \in Requests /\ requests[i].lines \in SUBSET Products
  BY RequestType DEF RequestsOK
<1>3. PICK stage \in {"answered", "failed"}, lines \in SUBSET Products : Answer(i, stage, lines)
  <2>1. (IF stored = NoBasket THEN {} ELSE stored) \in SUBSET Products
    BY DEF OthersOK
  <2> QED BY <1>2, <2>1 DEF Serve, GetBasketById, UpdateBasket, Checkout
<1>4. RequestsOK(requests', page', processing')
  <2>1. CASE requests[i].then = "none"
    BY <1>1, <1>3, <2>1, RemovedOK DEF Answer, Others, LiveSubmit
  <2>2. CASE requests[i].then # "none"
    <3>1. requests' = [requests EXCEPT ![i].stage = stage, ![i].lines = lines]
      BY <1>3, <2>2 DEF Answer
    <3> QED BY <1>1, <3>1, AnsweredOK
  <2> QED BY <2>1, <2>2
<1>5. stored' \in {NoBasket} \cup SUBSET Products
  BY <1>2 DEF Serve, GetBasketById, UpdateBasket, Checkout, OthersOK
<1>6. /\ orders' \in Seq([lines : SUBSET Products, listed : SUBSET Products])
      /\ accepted' \in Nat /\ accepted' <= Len(orders') /\ Len(orders') <= MaxOrders
  <2>1. CASE UNCHANGED <<accepted, orders>>
    BY <2>1 DEF OthersOK
  <2>2. CASE /\ stored # NoBasket /\ Len(orders) < MaxOrders /\ accepted' = accepted + 1
             /\ orders' = Append(orders, [lines |-> stored, listed |-> requests[i].lines])
    <3> DEFINE order == [lines |-> stored, listed |-> requests[i].lines]
    <3>1. order \in [lines : SUBSET Products, listed : SUBSET Products]
      BY <1>2, <2>2 DEF OthersOK
    <3> HIDE DEF order
    <3>2. orders' = Append(orders, order)
      BY <2>2 DEF order
    <3> QED BY <2>2, <3>1, <3>2, SpaAssumption DEF OthersOK
  <2> QED BY <2>1, <2>2 DEF Serve, GetBasketById, UpdateBasket, Checkout
<1>7. mishaps' \subseteq Mishaps
  BY DEF Serve, Mishap, Mishaps, OthersOK
<1> QED BY <1>1, <1>4, <1>5, <1>6, <1>7 DEF OthersOK, RequestsOK

LEMMA OrderStartsTypes == ASSUME TypeInv, OrderStarts PROVE TypeInv'
<1>1. RequestsOK(requests', page', processing')
  BY DEF TypeInv, OrderStarts, tab, component
<1>2. accepted' \in Nat /\ accepted' <= Len(orders')
  BY DEF TypeInv, OthersOK, OrderStarts, history
<1> QED BY <1>1, <1>2
    DEF TypeInv, OthersOK, OrderStarts, tab, component, history, Mishap, Mishaps, RequestsOK

---------------------------------------------------------------------------
\* The callbacks.
LEMMA LeftRequestOK ==
  ASSUME RequestsOK(requests, page, processing), NEW i \in DOMAIN requests, NEW pg
  PROVE  RequestsOK(RemoveAt(Leaves, i), pg, FALSE)
<1>1. RequestsOK(Leaves, pg, FALSE) /\ i \in DOMAIN Leaves
  BY LeavesOK DEF Leaves
<1> QED BY <1>1, RemovedOK

LEMMA AnswerTypes ==
  ASSUME TypeInv, NEW i \in DOMAIN requests,
         Loaded(i) \/ BadgeArrives(i) \/ PageArrives(i) \/ BasketChanged(i)
  PROVE  TypeInv'
<1> USE DEF TypeInv
<1>1. requests[i] \in Requests /\ requests[i].lines \in SUBSET Products /\ ~LiveSubmit(requests[i])
  <2>1. requests[i] \in Requests /\ requests[i].lines \in SUBSET Products
    BY RequestType DEF RequestsOK
  <2> QED BY <2>1 DEF Loaded, BadgeArrives, PageArrives, BasketChanged, Answered, LiveSubmit
<1>2. /\ UNCHANGED <<local, page, summary, processing, wrapped, stored, accepted, added, orders, reloads>>
      /\ mishaps' \subseteq Mishaps
  BY DEF Loaded, BadgeArrives, PageArrives, BasketChanged, Answered, component, services, history,
     Mishap, Mishaps, OthersOK
<1>3. RequestsOK(Others(i), page, processing)
  BY <1>1, RemovedOK DEF Others
<1>4. RequestsOK(requests', page', processing')
  <2>1. CASE requests' = Others(i)
    BY <1>2, <1>3, <2>1
  <2>2. CASE requests' = Append(Others(i), Get("badge"))
    BY <1>2, <1>3, <2>2, SentOK DEF Get, Callbacks
  <2> QED BY <2>1, <2>2 DEF Loaded, BadgeArrives, PageArrives, BasketChanged
<1>5. heap' \in [Objects -> SUBSET Products]
  BY <1>1 DEF Loaded, BadgeArrives, PageArrives, BasketChanged, OthersOK
<1>6. badge' \in 0 .. Cardinality(Products)
  <2>1. Cardinality(requests[i].lines) \in 0 .. Cardinality(Products)
    BY <1>1, SpaAssumption, FS_Subset, FS_CardinalityType
  <2> QED BY <2>1 DEF Loaded, BadgeArrives, PageArrives, BasketChanged, OthersOK
<1>7. shown' \in Objects \cup {None} /\ (shown' # None => page = "basket")
  <2>1. CASE PageArrives(i) /\ requests[i].live
    <3>1. LivePage(requests[i])
      BY <2>1 DEF PageArrives, Answered, LivePage
    <3> QED BY <2>1, <3>1 DEF PageArrives, RequestsOK
  <2> QED BY <2>1 DEF Loaded, BadgeArrives, PageArrives, BasketChanged, component, OthersOK
<1> QED BY <1>2, <1>4, <1>5, <1>6, <1>7 DEF OthersOK, RequestsOK

LEMMA CheckedOutTypes == ASSUME TypeInv, NEW i \in DOMAIN requests, CheckedOut(i) PROVE TypeInv'
<1> USE DEF TypeInv
<1>1. requests[i].then = "checkOut" /\ requests[i].of \in Objects /\ ~LiveSubmit(requests[i])
  BY DEF CheckedOut, Answered, RequestsOK, LiveSubmit
<1>2. heap[requests[i].of] \in SUBSET Products
  BY <1>1 DEF OthersOK
<1>3. heap' \in [Objects -> SUBSET Products]
  BY KeepOK DEF CheckedOut, OthersOK
<1>4. mishaps' \subseteq Mishaps
  BY DEF CheckedOut, Answered, Mishap, Mishaps, OthersOK
<1>5. CASE page = "order"
  <2>1. RequestsOK(requests', page', processing')
    BY <1>1, <1>5, RemovedOK DEF CheckedOut, Others, component
  <2> QED BY <1>1, <1>3, <1>4, <1>5, <2>1
      DEF CheckedOut, Answered, component, services, history, OthersOK, RequestsOK
<1>6. CASE page # "order"
  <2>1. RequestsOK(requests', page', processing')
    BY <1>6, LeftRequestOK DEF CheckedOut, OpensOrderPage
  <2> QED BY <1>1, <1>2, <1>3, <1>4, <1>6, <2>1
      DEF CheckedOut, Answered, OpensOrderPage, Pages, services, history, OthersOK, RequestsOK
<1> QED BY <1>5, <1>6

LEMMA SubmittedTypes == ASSUME TypeInv, NEW i \in DOMAIN requests, Submitted(i) PROVE TypeInv'
<1> USE DEF TypeInv
<1> DEFINE rs == RemoveAt(Leaves, i)
<1>1. RequestsOK(rs, "orders", FALSE)
  BY LeftRequestOK
<1>2. DropBasket(rs) /\ page' = "orders" /\ processing' = FALSE
  BY DEF Submitted
<1> HIDE DEF rs
<1>3. RequestsOK(requests', page', processing')
  <2>1. CASE local = None
    BY <1>1, <1>2, <2>1 DEF DropBasket
  <2>2. CASE local # None
    BY <1>1, <1>2, <2>2, SentOK DEF DropBasket, Post, Callbacks
  <2> QED BY <2>1, <2>2
<1>4. heap' \in [Objects -> SUBSET Products]
  <2>1. CASE local = None
    BY <1>2, <2>1, KeepOK DEF DropBasket, OthersOK
  <2>2. CASE local # None
    <3>1. [heap EXCEPT ![local] = {}] \in [Objects -> SUBSET Products]
      BY DEF OthersOK
    <3> QED BY <1>2, <2>2, <3>1, KeepOK DEF DropBasket
  <2> QED BY <2>1, <2>2
<1> QED BY <1>2, <1>3, <1>4
    DEF Submitted, Answered, services, history, Pages, Mishap, Mishaps, OthersOK, RequestsOK

LEMMA FailureTypes ==
  ASSUME TypeInv, NEW i \in DOMAIN requests, Refused(i) \/ Lose(i)
  PROVE  TypeInv'
<1> USE DEF TypeInv
<1>1. CallFails(i) /\ mishaps' \subseteq Mishaps
  BY DEF Refused, Lose, Mishap, Mishaps, OthersOK
<1>2. UNCHANGED <<local, page, shown, summary, wrapped, badge, stored, accepted, added, orders, reloads>>
  BY <1>1 DEF CallFails, SubmitFails, component, services, history
<1>3. requests[i].live \in BOOLEAN /\ processing \in BOOLEAN
  BY RequestType DEF RequestsOK
<1>4. CASE requests[i].then = "submit"
  <2>1. heap' = heap /\ requests' = Others(i) /\ processing' = (processing /\ ~requests[i].live)
    BY <1>1, <1>4 DEF CallFails, SubmitFails
  <2>2. CASE requests[i].live
    <3>1. LiveSubmit(requests[i]) /\ processing' = FALSE
      BY <1>4, <2>1, <2>2 DEF LiveSubmit
    <3>2. RequestsOK(requests', page', processing')
      BY <1>2, <2>1, <3>1, RemovedOK DEF Others
    <3> QED BY <1>1, <1>2, <2>1, <3>2 DEF OthersOK, RequestsOK
  <2>3. CASE ~requests[i].live
    <3>1. ~LiveSubmit(requests[i])
      BY <2>3 DEF LiveSubmit
    <3>2. processing' = processing
      BY <1>3, <2>1, <2>3
    <3>3. RequestsOK(requests', page', processing')
      BY <1>2, <2>1, <3>1, <3>2, RemovedOK DEF Others
    <3> QED BY <1>1, <1>2, <2>1, <3>3 DEF OthersOK, RequestsOK
  <2> QED BY <2>2, <2>3
<1>5. CASE requests[i].then # "submit"
  <2>1. requests' = Others(i) /\ processing' = processing /\ heap' \in [Objects -> SUBSET Products]
    BY <1>1, <1>5, KeepOK DEF CallFails, component, OthersOK
  <2>2. RequestsOK(requests', page', processing')
    BY <1>2, <1>5, <2>1, RemovedOK DEF Others, LiveSubmit
  <2> QED BY <1>1, <1>2, <2>1, <2>2 DEF OthersOK, RequestsOK
<1> QED BY <1>4, <1>5

LEMMA SpaTypeInit == SpaInit => TypeInv
<1> SUFFICES ASSUME SpaInit PROVE TypeInv
  OBVIOUS
<1>1. RequestsOK(<<>>, "catalog", FALSE)
  BY DEF RequestsOK
<1>2. RequestsOK(<<>> \o Start, "catalog", FALSE)
  BY <1>1, StartOK
<1>3. Start \in Seq(Requests)
  <2>1. Get("load") \in Requests /\ Get("badge") \in Requests
    BY RequestMade DEF Get, Callbacks
  <2> QED BY <2>1 DEF Start
<1>4. RequestsOK(requests, page, processing)
  <2>1. <<>> \o Start = Start
    BY <1>3, ConcatEmptySeq
  <2> QED BY <1>2, <2>1 DEF SpaInit
<1>5. Cardinality(Products) \in Nat
  BY SpaAssumption, FS_CardinalityType
<1>6. added \in [Products -> Nat]
  BY DEF SpaInit
<1> QED BY <1>4, <1>5, <1>6, SpaAssumption DEF SpaInit, TypeInv, OthersOK, Pages

LEMMA SpaTypeNext == TypeInv /\ [SpaNext]_spaVars => TypeInv'
<1> SUFFICES ASSUME TypeInv, [SpaNext]_spaVars PROVE TypeInv'
  OBVIOUS
<1>1. CASE UNCHANGED spaVars
  BY <1>1 DEF spaVars, tab, component, services, history, TypeInv, OthersOK, RequestsOK
<1>2. CASE UserStep
  <2>1. ASSUME ItemQuantityChanged \/ CheckOut \/ CheckOutTooSoon PROVE TypeInv'
    <3> DEFINE p == None
    <3> HIDE DEF p
    <3>1. DeleteItem(p) \/ ItemQuantityChanged \/ CheckOut \/ CheckOutTooSoon
      BY <2>1
    <3> QED BY <3>1, PageTypes
  <2> QED BY <2>1, <1>2, AddToCartTypes, NavigateTypes, GoForwardToOrderTypes, PageTypes, SubmitFormTypes, ReloadTypes
      DEF UserStep
<1>3. ASSUME NEW i \in DOMAIN requests, Serve(i) \/ Lose(i) \/ Callback(i) PROVE TypeInv'
  BY <1>3, ServeTypes, FailureTypes, AnswerTypes, CheckedOutTypes, SubmittedTypes DEF Callback
<1> QED BY <1>1, <1>2, <1>3, OrderStartsTypes DEF SpaNext

\* The tab's and the services' variables have values of their kinds, what a component holds
\* goes with the component, and Place Order is disabled exactly as long as a call of the
\* page that is displayed is under way.
THEOREM SpaTypeCorrect == SpaSpec => []SpaTypeOK
BY SpaTypeInit, SpaTypeNext, TypeInvTypes, PTL DEF SpaSpec

---------------------------------------------------------------------------
(***************************************************************************)
(* What the server's basket will be.                                       *)
(***************************************************************************)
Sending(r) == r.call = "POST" /\ r.stage = "sent"

\* When the first n of the requests rs have been served, in order, the basket s has become
\* one of contents.
Ends(rs, s, n, contents) ==
    \/ \E j \in 1 .. n : /\ Sending(rs[j]) /\ rs[j].lines \in contents
                         /\ \A k \in j + 1 .. n : ~Sending(rs[k])
    \/ s \in contents /\ \A k \in 1 .. n : ~Sending(rs[k])

\* A request changes nothing about it that is no POST under way.
LEMMA EndsRelabelled ==
  ASSUME NEW rs, NEW new, NEW s, NEW n \in Nat, NEW c, Ends(rs, s, n, c),
         \A j \in 1 .. n : Sending(new[j]) <=> Sending(rs[j]),
         \A j \in 1 .. n : Sending(rs[j]) => new[j].lines = rs[j].lines
  PROVE  Ends(new, s, n, c)
BY DEF Ends

LEMMA EndsRemoved ==
  ASSUME NEW rs \in Seq(Requests), NEW i \in DOMAIN rs, ~Sending(rs[i]), NEW s, NEW c,
         NEW n \in 0 .. Len(rs) - 1, Ends(rs, s, IF n < i THEN n ELSE n + 1, c)
  PROVE  Ends(RemoveAt(rs, i), s, n, c)
<1> DEFINE less == RemoveAt(rs, i)
           N    == Len(rs)
<1>1. /\ i \in 1 .. N /\ N \in Nat
      /\ \A j \in 1 .. N - 1 : less[j] = IF j < i THEN rs[j] ELSE rs[j + 1]
  BY Removed
<1> HIDE DEF less
<1>2. CASE n < i
  <2>1. \A j \in 1 .. n : less[j] = rs[j]
    BY <1>1, <1>2
  <2>2. Ends(rs, s, n, c)
    BY <1>2
  <2> QED BY <2>1, <2>2 DEF Ends, less
<1>3. CASE n >= i
  <2>1. Ends(rs, s, n + 1, c)
    BY <1>1, <1>3
  <2>2. ASSUME s \in c, \A k \in 1 .. n + 1 : ~Sending(rs[k])
        PROVE  Ends(less, s, n, c)
    <3>1. \A k \in 1 .. n : less[k] = rs[k] \/ less[k] = rs[k + 1]
      BY <1>1
    <3>2. \A k \in 1 .. n : ~Sending(less[k])
      BY <2>2, <3>1
    <3> QED BY <2>2, <3>2 DEF Ends
  <2>3. ASSUME NEW j \in 1 .. n + 1, Sending(rs[j]), rs[j].lines \in c,
               \A k \in j + 1 .. n + 1 : ~Sending(rs[k])
        PROVE  Ends(less, s, n, c)
    <3>1. CASE j < i
      <4>1. j \in 1 .. n /\ less[j] = rs[j]
        BY <1>1, <1>3, <3>1
      <4>2. ASSUME NEW k \in j + 1 .. n PROVE ~Sending(less[k])
        <5>1. less[k] = rs[k] \/ less[k] = rs[k + 1]
          BY <1>1
        <5>2. k \in j + 1 .. n + 1 /\ k + 1 \in j + 1 .. n + 1
          OBVIOUS
        <5> QED BY <2>3, <5>1, <5>2
      <4> QED BY <2>3, <4>1, <4>2 DEF Ends
    <3>2. CASE j > i
      <4> DEFINE h == j - 1
      <4>1. h \in 1 .. n /\ h + 1 = j /\ ~(h < i)
        BY <1>1, <3>2
      <4>2. less[h] = rs[j]
        BY <1>1, <4>1
      <4>3. ASSUME NEW k \in h + 1 .. n PROVE ~Sending(less[k])
        <5>1. less[k] = rs[k + 1]
          BY <1>1, <4>1
        <5>2. k + 1 \in j + 1 .. n + 1
          BY <4>1
        <5> QED BY <2>3, <5>1, <5>2
      <4> HIDE DEF h
      <4> QED BY <2>3, <4>1, <4>2, <4>3 DEF Ends
    <3>3. j # i
      BY <2>3
    <3> QED BY <1>1, <3>1, <3>2, <3>3
  <2> QED BY <2>1, <2>2, <2>3 DEF Ends, less
<1> QED BY <1>1, <1>2, <1>3

LEMMA EndsAppended ==
  ASSUME NEW rs \in Seq(Requests), NEW r \in Requests, NEW s, NEW c
  PROVE  /\ \A n \in 0 .. Len(rs) : Ends(rs, s, n, c) => Ends(Append(rs, r), s, n, c)
         /\ ~Sending(r) /\ Ends(rs, s, Len(rs), c) => Ends(Append(rs, r), s, Len(Append(rs, r)), c)
         /\ Sending(r) /\ r.lines \in c => Ends(Append(rs, r), s, Len(Append(rs, r)), c)
<1> DEFINE more == Append(rs, r)
           N    == Len(rs)
<1>1. /\ N \in Nat /\ Len(more) = N + 1 /\ more[N + 1] = r
      /\ \A j \in 1 .. N : more[j] = rs[j]
  OBVIOUS
<1> HIDE DEF more
<1>2. ASSUME NEW n \in 0 .. N, Ends(rs, s, n, c) PROVE Ends(more, s, n, c)
  <2>1. \A j \in 1 .. n : more[j] = rs[j]
    BY <1>1
  <2> QED BY <1>1, <1>2, <2>1, EndsRelabelled
<1>3. ASSUME ~Sending(r), Ends(rs, s, N, c) PROVE Ends(more, s, N + 1, c)
  <2>1. \A k \in 1 .. N + 1 : k = N + 1 \/ k \in 1 .. N
    BY <1>1
  <2>2. CASE s \in c /\ \A k \in 1 .. N : ~Sending(rs[k])
    BY <1>1, <1>3, <2>1, <2>2 DEF Ends
  <2>3. ASSUME NEW j \in 1 .. N, Sending(rs[j]), rs[j].lines \in c,
               \A k \in j + 1 .. N : ~Sending(rs[k])
        PROVE  Ends(more, s, N + 1, c)
    <3>1. \A k \in j + 1 .. N + 1 : ~Sending(more[k])
      <4> SUFFICES ASSUME NEW k \in j + 1 .. N + 1 PROVE ~Sending(more[k])
        OBVIOUS
      <4>1. CASE k = N + 1
        BY <1>1, <1>3, <4>1
      <4>2. CASE k # N + 1
        <5>1. k \in j + 1 .. N /\ k \in 1 .. N
          BY <1>1, <4>2
        <5> QED BY <1>1, <2>3, <5>1
      <4> QED BY <4>1, <4>2
    <3>2. j \in 1 .. N + 1 /\ more[j] = rs[j]
      BY <1>1
    <3> QED BY <2>3, <3>1, <3>2 DEF Ends
  <2> QED BY <1>3, <2>2, <2>3 DEF Ends
<1>4. ASSUME Sending(r), r.lines \in c PROVE Ends(more, s, N + 1, c)
  <2>1. N + 1 \in 1 .. N + 1 /\ \A k \in (N + 1) + 1 .. N + 1 : FALSE
    BY <1>1
  <2> QED BY <1>1, <1>4, <2>1 DEF Ends
<1> QED BY <1>1, <1>2, <1>3, <1>4 DEF more

\* The first POST under way is served.
LEMMA EndsServed ==
  ASSUME NEW rs, NEW new, NEW s, NEW n \in Nat, NEW c, Ends(rs, s, n, c),
         NEW i \in 1 .. n, Sending(rs[i]), \A j \in 1 .. i - 1 : ~Sending(rs[j]),
         ~Sending(new[i]), \A j \in 1 .. n : j # i => new[j] = rs[j]
  PROVE  Ends(new, rs[i].lines, n, c)
<1>1. PICK j \in 1 .. n : /\ Sending(rs[j]) /\ rs[j].lines \in c
                         /\ \A k \in j + 1 .. n : ~Sending(rs[k])
  BY DEF Ends
<1>2. CASE j = i
  <2>1. ASSUME NEW k \in 1 .. n PROVE ~Sending(new[k])
    <3>1. CASE k = i
      BY <3>1
    <3>2. CASE k < i
      BY <3>2
    <3>3. CASE k > i
      BY <1>1, <1>2, <3>3
    <3> QED BY <3>1, <3>2, <3>3
  <2> QED BY <1>1, <1>2, <2>1 DEF Ends
<1>3. CASE j # i
  <2>1. j > i
    <3>1. ~(j < i)
      BY <1>1
    <3> QED BY <1>3, <3>1
  <2>2. \A k \in j + 1 .. n : new[k] = rs[k]
    BY <2>1
  <2> QED BY <1>1, <1>3, <2>2 DEF Ends
<1> QED BY <1>2, <1>3

\* The basket is deleted.
LEMMA EndsErased ==
  ASSUME NEW rs, NEW s, NEW n, NEW c, NoBasket \in c, Ends(rs, s, n, c)
  PROVE  Ends(rs, NoBasket, n, c)
BY DEF Ends

\* Contents all of one kind: so will the basket be.
LEMMA EndsInOne ==
  ASSUME NEW rs, NEW s, NEW c, s \in c, NEW n \in Nat, \A j \in 1 .. n : Sending(rs[j]) => rs[j].lines \in c
  PROVE  Ends(rs, s, n, c)
<1> DEFINE P == {m \in Nat : m <= n => Ends(rs, s, m, c)}
<1>1. 0 \in P
  BY DEF Ends
<1>2. ASSUME NEW m \in Nat, m \in P PROVE m + 1 \in P
  <2>1. CASE m + 1 > n
    BY <2>1
  <2>2. CASE m + 1 <= n
    <3>1. Ends(rs, s, m, c) /\ m + 1 \in 1 .. n
      BY <1>2, <2>2
    <3>2. CASE Sending(rs[m + 1])
      <4>1. m + 1 \in 1 .. m + 1 /\ \A k \in (m + 1) + 1 .. m + 1 : FALSE
        OBVIOUS
      <4>2. Ends(rs, s, m + 1, c)
        BY <3>1, <3>2, <4>1 DEF Ends
      <4> QED BY <4>2
    <3>3. CASE ~Sending(rs[m + 1])
      <4>1. \A k \in 1 .. m + 1 : k \in 1 .. m \/ k = m + 1
        OBVIOUS
      <4>2. \A j \in 1 .. m : j \in 1 .. m + 1 /\ \A k \in j + 1 .. m + 1 : k \in j + 1 .. m \/ k = m + 1
        OBVIOUS
      <4>3. Ends(rs, s, m + 1, c)
        BY <3>1, <3>3, <4>1, <4>2 DEF Ends
      <4> QED BY <4>3
    <3> QED BY <3>2, <3>3
  <2> QED BY <2>1, <2>2
<1> HIDE DEF P
<1>3. n \in P
  BY <1>1, <1>2, NatSetInduction
<1> QED BY <1>3 DEF P

\* More contents will do.
LEMMA EndsMore ==
  ASSUME NEW rs, NEW s, NEW n, NEW c, NEW d, c \subseteq d, Ends(rs, s, n, c)
  PROVE  Ends(rs, s, n, d)
BY DEF Ends

LEMMA EndsShorter ==
  ASSUME NEW rs, NEW s, NEW n \in Nat, n > 0, NEW c, ~Sending(rs[n]), Ends(rs, s, n, c)
  PROVE  Ends(rs, s, n - 1, c)
<1>1. CASE s \in c /\ \A k \in 1 .. n : ~Sending(rs[k])
  BY <1>1 DEF Ends
<1>2. ASSUME NEW j \in 1 .. n, Sending(rs[j]), rs[j].lines \in c, \A k \in j + 1 .. n : ~Sending(rs[k])
      PROVE  Ends(rs, s, n - 1, c)
  <2>1. j # n
    BY <1>2
  <2>2. j \in 1 .. n - 1 /\ \A k \in j + 1 .. n - 1 : k \in j + 1 .. n
    BY <2>1
  <2> QED BY <1>2, <2>2 DEF Ends
<1> QED BY <1>1, <1>2 DEF Ends

\* Of the requests that are left the first n were the first n, or the first n + 1.
LEMMA EndsTaken ==
  ASSUME NEW rs \in Seq(Requests), NEW i \in DOMAIN rs, ~Sending(rs[i]), NEW s, NEW c
  PROVE  /\ \A n \in 0 .. Len(rs) - 1 :
                Ends(rs, s, IF n + 1 < i THEN n ELSE n + 1, c) => Ends(RemoveAt(rs, i), s, n, c)
         /\ Ends(rs, s, Len(rs), c) => Ends(RemoveAt(rs, i), s, Len(RemoveAt(rs, i)), c)
<1> DEFINE less == RemoveAt(rs, i)
           N    == Len(rs)
<1>1. i \in 1 .. N /\ N \in Nat /\ Len(less) = N - 1
  BY Removed
<1> HIDE DEF less
<1>2. ASSUME NEW n \in 0 .. N - 1, Ends(rs, s, IF n + 1 < i THEN n ELSE n + 1, c)
      PROVE  Ends(less, s, n, c)
  <2>1. CASE n + 1 = i
    <3>1. Ends(rs, s, i, c) /\ i \in Nat /\ i > 0 /\ n = i - 1
      BY <1>1, <1>2, <2>1
    <3>2. Ends(rs, s, n, c)
      BY <3>1, EndsShorter
    <3>3. n < i
      BY <1>1, <2>1
    <3> QED BY <3>2, <3>3, EndsRemoved DEF less
  <2>2. CASE n + 1 # i
    <3>1. Ends(rs, s, IF n < i THEN n ELSE n + 1, c)
      BY <1>1, <1>2, <2>2
    <3> QED BY <3>1, EndsRemoved DEF less
  <2> QED BY <2>1, <2>2
<1>3. Ends(rs, s, N, c) => Ends(less, s, N - 1, c)
  <2>1. N - 1 \in 0 .. N - 1 /\ (IF (N - 1) + 1 < i THEN N - 1 ELSE (N - 1) + 1) = N
    <3> HIDE DEF N
    <3> QED BY <1>1
  <2> HIDE DEF N
  <2> QED BY <1>2, <2>1
<1> QED BY <1>1, <1>2, <1>3 DEF less

---------------------------------------------------------------------------
(***************************************************************************)
(* What is ordered is what was listed.  The server's basket will be the    *)
(* one the user looks at, or one without lines, once the requests under    *)
(* way have been served.                                                   *)
(***************************************************************************)
NoneOr(lines) == {NoBasket, {}, lines}

Fresh(rs, s, lines) == Ends(rs, s, Len(rs), NoneOr(lines))

\* What holds of the i-th request.  l is the service's basket object and sh the page's.
RequestCalm(rs, s, h, l, sh, i) ==
    /\ rs[i].then = "checkOut" =>
          /\ Fresh(rs, s, h[rs[i].of])
          /\ l \in {None, rs[i].of} /\ sh \in {None, rs[i].of}
    /\ LivePage(rs[i]) => rs[i].call = "GET" /\ sh = None /\ (rs[i].stage = "answered" => Fresh(rs, s, rs[i].lines))
    /\ rs[i].then = "load" => i = 1 /\ sh = None
    /\ rs[i].call = "checkout" /\ rs[i].stage = "sent" => Ends(rs, s, i - 1, NoneOr(rs[i].lines))

\* What holds of the i-th and the j-th request.
PairCalm(rs, i, j) ==
    /\ rs[i].then = "checkOut" /\ rs[j].then = "checkOut" => rs[i].of = rs[j].of
    /\ LivePage(rs[i]) /\ rs[j].then = "checkOut" => j < i
    /\ LivePage(rs[i]) /\ LivePage(rs[j]) => i = j
    /\ LivePage(rs[i]) /\ i < j /\ Sending(rs[j]) => rs[j].lines = {}
    /\ rs[i].then = "load" => rs[j].then # "checkOut"

Calm(rs, s, h, l, sh, pg, sm) ==
    /\ pg = "order" => Fresh(rs, s, sm)
    /\ sh # None => Fresh(rs, s, h[sh])
    /\ \A i \in DOMAIN rs : RequestCalm(rs, s, h, l, sh, i)
    /\ \A i, j \in DOMAIN rs : PairCalm(rs, i, j)

CalmNow == Calm(requests, stored, heap, local, shown, page, summary)

Undisturbed == Spared({"overtaken", "loss", "history"})

\* An answered request leaves the list.
LEMMA CalmRemoved ==
  ASSUME NEW rs \in Seq(Requests), NEW s, NEW h, NEW l, NEW sh, NEW pg, NEW sm,
         Calm(rs, s, h, l, sh, pg, sm), NEW i \in DOMAIN rs, ~Sending(rs[i])
  PROVE  Calm(RemoveAt(rs, i), s, h, l, sh, pg, sm)
<1> DEFINE less == RemoveAt(rs, i)
           N    == Len(rs)
           At(n) == IF n < i THEN n ELSE n + 1
<1>1. /\ i \in 1 .. N /\ N \in Nat /\ DOMAIN rs = 1 .. N
      /\ Len(less) = N - 1 /\ DOMAIN less = 1 .. N - 1
      /\ \A j \in 1 .. N - 1 : less[j] = IF j < i THEN rs[j] ELSE rs[j + 1]
  BY Removed
<1> HIDE DEF less
<1>2. \A n \in 0 .. N - 1 : \A c : Ends(rs, s, IF n + 1 < i THEN n ELSE n + 1, c) => Ends(less, s, n, c)
  BY EndsTaken DEF less
<1>3. \A lines : Fresh(rs, s, lines) => Fresh(less, s, lines)
  BY EndsTaken DEF Fresh, less
<1>4. \A j \in DOMAIN less : /\ At(j) \in DOMAIN rs /\ less[j] = rs[At(j)]
                            /\ At(j) = 1 => j = 1
  BY <1>1
<1>5. \A j, k \in DOMAIN less : /\ (At(j) < At(k)) <=> (j < k)
                               /\ (At(j) = At(k)) <=> (j = k)
  BY <1>1
<1>6. ASSUME NEW j \in DOMAIN less PROVE RequestCalm(less, s, h, l, sh, j)
  <2> DEFINE a == At(j)
  <2>1. /\ a \in DOMAIN rs /\ less[j] = rs[a] /\ (a = 1 => j = 1)
        /\ j - 1 \in 0 .. N - 1 /\ a - 1 = IF (j - 1) + 1 < i THEN j - 1 ELSE (j - 1) + 1
    BY <1>1, <1>4
  <2> HIDE DEF a, At
  <2>2. RequestCalm(rs, s, h, l, sh, a)
    BY <2>1 DEF Calm
  <2>3. Ends(rs, s, a - 1, NoneOr(rs[a].lines)) => Ends(less, s, j - 1, NoneOr(less[j].lines))
    BY <1>2, <2>1
  <2> QED BY <1>3, <2>1, <2>2, <2>3 DEF RequestCalm
<1>7. ASSUME NEW j \in DOMAIN less, NEW k \in DOMAIN less PROVE PairCalm(less, j, k)
  <2> DEFINE a == At(j)
             b == At(k)
  <2>1. /\ a \in DOMAIN rs /\ b \in DOMAIN rs /\ less[j] = rs[a] /\ less[k] = rs[b]
    BY <1>1, <1>4
  <2>b. (a < b <=> j < k) /\ (b < a <=> k < j) /\ (a = b <=> j = k)
    BY <1>1, <1>5
  <2> HIDE DEF a, b, At
  <2>2. PairCalm(rs, a, b)
    BY <2>1 DEF Calm
  <2> QED BY <2>1, <2>b, <2>2 DEF PairCalm
<1> QED BY <1>3, <1>6, <1>7 DEF Calm, less

\* The objects that matter keep their lines.
LEMMA CalmHeap ==
  ASSUME NEW rs, NEW s, NEW h, NEW l, NEW sh, NEW pg, NEW sm,
         Calm(rs, s, h, l, sh, pg, sm), NEW h2,
         sh # None => h2[sh] = h[sh],
         \A i \in DOMAIN rs : rs[i].then = "checkOut" => h2[rs[i].of] = h[rs[i].of]
  PROVE  Calm(rs, s, h2, l, sh, pg, sm)
BY DEF Calm, RequestCalm

\* The components change, and with them what the requests call back.
LEMMA CalmRelabelled ==
  ASSUME NEW rs \in Seq(Requests), NEW s, NEW h, NEW l, NEW sh, NEW pg, NEW sm,
         Calm(rs, s, h, l, sh, pg, sm), NEW new, NEW pg2, NEW sm2,
         pg2 = "order" => Fresh(rs, s, sm2),
         Len(new) = Len(rs), DOMAIN new = DOMAIN rs,
         \A i \in DOMAIN rs : /\ new[i].call = rs[i].call /\ new[i].then = rs[i].then
                              /\ new[i].lines = rs[i].lines /\ new[i].of = rs[i].of
                              /\ new[i].stage = rs[i].stage /\ ~new[i].live
  PROVE  Calm(new, s, h, l, None, pg2, sm2)
<1> DEFINE N == Len(rs)
<1>1. N \in Nat /\ DOMAIN rs = 1 .. N
  OBVIOUS
<1>2. ASSUME NEW n \in 0 .. N, NEW c, Ends(rs, s, n, c) PROVE Ends(new, s, n, c)
  <2>1. \A j \in 1 .. n : j \in DOMAIN rs
    BY <1>1
  <2>2. \A j \in 1 .. n : /\ Sending(new[j]) <=> Sending(rs[j])
                          /\ Sending(rs[j]) => new[j].lines = rs[j].lines
    BY <2>1 DEF Sending
  <2> QED BY <1>1, <1>2, <2>2, EndsRelabelled
<1>3. \A lines : Fresh(rs, s, lines) => Fresh(new, s, lines)
  <2>1. N \in 0 .. N
    BY <1>1
  <2> QED BY <1>2, <2>1 DEF Fresh
<1>4. ASSUME NEW i \in DOMAIN new PROVE RequestCalm(new, s, h, l, None, i)
  <2>1. RequestCalm(rs, s, h, l, sh, i) /\ i - 1 \in 0 .. N
    BY <1>1 DEF Calm
  <2> QED BY <1>2, <1>3, <2>1 DEF RequestCalm, LivePage
<1>5. ASSUME NEW i \in DOMAIN new, NEW j \in DOMAIN new PROVE PairCalm(new, i, j)
  <2>1. PairCalm(rs, i, j)
    BY DEF Calm
  <2> QED BY <2>1 DEF PairCalm, LivePage
<1> QED BY <1>3, <1>4, <1>5 DEF Calm

\* A request is sent that leaves the server with the basket the user looks at, or with none.
LEMMA CalmAppended ==
  ASSUME NEW rs \in Seq(Requests), NEW s, NEW h, NEW l, NEW sh, NEW pg, NEW sm,
         Calm(rs, s, h, l, sh, pg, sm), NEW r \in Requests, r.stage = "sent",
         Sending(r) => r.lines = {},
         r.then # "load" /\ r.then # "checkOut",
         r.call = "checkout" => Fresh(rs, s, r.lines),
         LivePage(r) => r.call = "GET" /\ sh = None /\ \A i \in DOMAIN rs : ~LivePage(rs[i])
  PROVE  Calm(Append(rs, r), s, h, l, sh, pg, sm)
<1> DEFINE more == Append(rs, r)
           N    == Len(rs)
<1>1. /\ N \in Nat /\ DOMAIN rs = 1 .. N /\ Len(more) = N + 1 /\ DOMAIN more = 1 .. N + 1
      /\ more[N + 1] = r /\ \A i \in 1 .. N : more[i] = rs[i]
  OBVIOUS
<1>2. \A n \in 0 .. N : \A c : Ends(rs, s, n, c) => Ends(more, s, n, c)
  BY EndsAppended
<1>3. \A lines : Fresh(rs, s, lines) => Fresh(more, s, lines)
  <2> SUFFICES ASSUME NEW lines, Fresh(rs, s, lines) PROVE Fresh(more, s, lines)
    OBVIOUS
  <2> DEFINE c == NoneOr(lines)
  <2>1. Ends(rs, s, N, c) /\ {} \in c
    BY DEF Fresh, NoneOr
  <2>2. Ends(more, s, Len(more), c)
    <3> HIDE DEF c
    <3> QED BY <2>1, EndsAppended
  <2> QED BY <2>2 DEF Fresh
<1> HIDE DEF more
<1>4. \A i \in DOMAIN more : i = N + 1 \/ (i \in DOMAIN rs /\ more[i] = rs[i] /\ i < N + 1)
  BY <1>1
<1>5. ASSUME NEW i \in DOMAIN more PROVE RequestCalm(more, s, h, l, sh, i)
  <2>1. CASE i = N + 1
    <3>1. r.call = "checkout" => Ends(more, s, N, NoneOr(r.lines))
      <4>1. N \in 0 .. N
        BY <1>1
      <4> QED BY <1>2, <4>1 DEF Fresh
    <3>2. more[i] = r /\ i - 1 = N
      BY <1>1, <2>1
    <3> QED BY <3>1, <3>2 DEF RequestCalm
  <2>2. CASE i \in DOMAIN rs /\ more[i] = rs[i]
    <3>1. RequestCalm(rs, s, h, l, sh, i) /\ i - 1 \in 0 .. N
      BY <1>1, <2>2 DEF Calm
    <3> QED BY <1>2, <1>3, <2>2, <3>1 DEF RequestCalm
  <2> QED BY <1>4, <2>1, <2>2
<1>6. ASSUME NEW i \in DOMAIN more, NEW j \in DOMAIN more PROVE PairCalm(more, i, j)
  <2>1. CASE i \in DOMAIN rs /\ j \in DOMAIN rs
    <3>1. PairCalm(rs, i, j) /\ more[i] = rs[i] /\ more[j] = rs[j]
      BY <1>1, <2>1 DEF Calm
    <3> QED BY <3>1 DEF PairCalm
  <2>2. CASE i = N + 1
    <3>1. more[i] = r
      BY <1>1, <2>2
    <3>2. (i < j) => FALSE
      BY <1>1, <2>2
    <3>3. LivePage(r) => j = i \/ (j < i /\ ~LivePage(more[j]))
      BY <1>4, <2>2
    <3>4. LivePage(r) /\ more[j].then = "checkOut" => j < i
      BY <1>4, <2>2, <3>1 DEF LivePage
    <3> QED BY <3>1, <3>2, <3>3, <3>4 DEF PairCalm
  <2>3. CASE j = N + 1
    <3>1. more[j] = r
      BY <1>1, <2>3
    <3>2. LivePage(r) => i = j \/ ~LivePage(more[i])
      BY <1>4, <2>3
    <3> QED BY <3>1, <3>2 DEF PairCalm
  <2> QED BY <1>4, <2>1, <2>2, <2>3
<1> QED BY <1>3, <1>5, <1>6 DEF Calm, more

\* What the object x holds, the page's or the one the service and the checkouts share, is posted.
LEMMA CalmPosted ==
  ASSUME NEW rs \in Seq(Requests), NEW s, NEW h, NEW l, NEW sh, NEW pg, NEW sm,
         Calm(rs, s, h, l, sh, pg, sm), pg # "order", NEW x, x # None, sh \in {None, x},
         \A i \in DOMAIN rs : ~LivePage(rs[i]),
         \A i \in DOMAIN rs : rs[i].then = "checkOut" => rs[i].of = x,
         NEW h2, NEW r \in Requests, Sending(r), r.lines = h2[x],
         r.then \in {"change", "none", "checkOut"},
         r.then = "checkOut" => r.of = x /\ sh = x
  PROVE  Calm(Append(rs, r), s, h2, x, sh, pg, sm)
<1> DEFINE more == Append(rs, r)
           N    == Len(rs)
<1>1. /\ N \in Nat /\ DOMAIN rs = 1 .. N /\ Len(more) = N + 1 /\ DOMAIN more = 1 .. N + 1
      /\ more[N + 1] = r /\ \A i \in 1 .. N : more[i] = rs[i]
  OBVIOUS
<1>2. \A n \in 0 .. N : \A c : Ends(rs, s, n, c) => Ends(more, s, n, c)
  BY EndsAppended
<1>3. Fresh(more, s, h2[x])
  <2> DEFINE c == NoneOr(h2[x])
  <2>1. r.lines \in c
    BY DEF NoneOr
  <2>2. Ends(more, s, Len(more), c)
    <3> HIDE DEF c
    <3> QED BY <2>1, EndsAppended
  <2> QED BY <2>2 DEF Fresh
<1> HIDE DEF more
<1>4. \A i \in DOMAIN more : /\ i = N + 1 \/ (i \in DOMAIN rs /\ more[i] = rs[i])
                            /\ more[i].then = "checkOut" => more[i].of = x
  BY <1>1
<1>p. ASSUME NEW i \in DOMAIN more PROVE ~LivePage(more[i])
  <2>1. ~LivePage(r)
    BY DEF LivePage
  <2> QED BY <1>1, <1>4, <2>1
<1>5. ASSUME NEW i \in DOMAIN more PROVE RequestCalm(more, s, h2, x, sh, i)
  <2>1. CASE i = N + 1
    <3>1. more[i] = r
      BY <1>1, <2>1
    <3>2. r.call # "checkout" /\ r.then # "load"
      BY DEF Sending
    <3>3. r.then = "checkOut" => Fresh(more, s, h2[r.of]) /\ x \in {None, r.of} /\ sh \in {None, r.of}
      BY <1>3
    <3> QED BY <1>p, <3>1, <3>2, <3>3 DEF RequestCalm
  <2>2. CASE i \in DOMAIN rs /\ more[i] = rs[i]
    <3>1. RequestCalm(rs, s, h, l, sh, i) /\ i - 1 \in 0 .. N
      BY <1>1, <2>2 DEF Calm
    <3>2. rs[i].then = "checkOut" => Fresh(more, s, h2[rs[i].of]) /\ x \in {None, rs[i].of} /\ sh \in {None, rs[i].of}
      BY <1>3, <2>2
    <3>3. rs[i].then = "load" => i = 1 /\ sh = None
      BY <3>1 DEF RequestCalm
    <3>4. rs[i].call = "checkout" /\ rs[i].stage = "sent" => Ends(more, s, i - 1, NoneOr(rs[i].lines))
      BY <1>2, <3>1 DEF RequestCalm
    <3> QED BY <1>p, <2>2, <3>2, <3>3, <3>4 DEF RequestCalm
  <2> QED BY <1>1, <1>4, <2>1, <2>2
<1>6. ASSUME NEW i \in DOMAIN more, NEW j \in DOMAIN more PROVE PairCalm(more, i, j)
  <2>1. more[i].then = "load" => more[j].then # "checkOut"
    <3>1. CASE i \in DOMAIN rs /\ j \in DOMAIN rs
      BY <1>1, <3>1 DEF Calm, PairCalm
    <3>2. CASE i = N + 1
      BY <1>1, <3>2
    <3>3. CASE i \in DOMAIN rs /\ j = N + 1
      <4>1. more[i] = rs[i] /\ more[j] = r /\ RequestCalm(rs, s, h, l, sh, i)
        BY <1>1, <3>3 DEF Calm
      <4>2. rs[i].then = "load" => sh = None
        BY <4>1 DEF RequestCalm
      <4> QED BY <4>1, <4>2
    <3> QED BY <1>1, <1>4, <3>1, <3>2, <3>3
  <2>2. more[i].then = "checkOut" /\ more[j].then = "checkOut" => more[i].of = more[j].of
    BY <1>1, <1>4
  <2>3. ~LivePage(more[i])
    BY <1>p
  <2> QED BY <2>1, <2>2, <2>3 DEF PairCalm
<1> QED BY <1>3, <1>5, <1>6 DEF Calm, more

\* The first request of those the network still carries is served.  s2 is what the server has then.
LEMMA CalmAnswered ==
  ASSUME NEW rs \in Seq(Requests), NEW s, NEW h, NEW l, NEW sh, NEW pg, NEW sm,
         Calm(rs, s, h, l, sh, pg, sm), NEW i \in DOMAIN rs, rs[i].stage = "sent",
         \A j \in 1 .. i - 1 : rs[j].stage # "sent",
         NEW stage \in {"answered", "failed"}, NEW lines \in SUBSET Products, NEW s2,
         IF rs[i].call = "POST" THEN s2 = rs[i].lines ELSE s2 = s,
         rs[i].call = "GET" => s \in {NoBasket, lines}
  PROVE  Calm([rs EXCEPT ![i].stage = stage, ![i].lines = lines], s2, h, l, sh, pg, sm)
<1> DEFINE new == [rs EXCEPT ![i].stage = stage, ![i].lines = lines]
           N   == Len(rs)
<1>1. N \in Nat /\ DOMAIN rs = 1 .. N /\ rs[i] \in Requests
  OBVIOUS
<1>2. new = [rs EXCEPT ![i] = [rs[i] EXCEPT !.stage = stage, !.lines = lines]]
  OBVIOUS
<1>3. /\ Len(new) = N /\ DOMAIN new = 1 .. N
      /\ \A j \in 1 .. N : j # i => new[j] = rs[j]
      /\ new[i].stage = stage /\ new[i].lines = lines
      /\ new[i].call = rs[i].call /\ new[i].then = rs[i].then
      /\ new[i].of = rs[i].of /\ new[i].live = rs[i].live
  <2>1. [rs[i] EXCEPT !.stage = stage, !.lines = lines] \in Requests
    BY <1>1 DEF Requests
  <2>2. new \in Seq(Requests) /\ Len(new) = N
    BY <1>1, <1>2, <2>1
  <2> QED BY <1>1, <1>2, <2>2 DEF Requests
<1> HIDE DEF new
<1>4. ~Sending(new[i]) /\ (Sending(rs[i]) <=> rs[i].call = "POST")
  BY <1>3 DEF Sending
<1>5. ASSUME NEW n \in i .. N, NEW c, Ends(rs, s, n, c) PROVE Ends(new, s2, n, c)
  <2>1. n \in Nat /\ i \in 1 .. n
    BY <1>1
  <2>2. \A j \in 1 .. n : j # i => new[j] = rs[j]
    BY <1>1, <1>3
  <2>3. CASE rs[i].call = "POST"
    <3>1. \A j \in 1 .. i - 1 : ~Sending(rs[j])
      BY DEF Sending
    <3>2. Ends(new, rs[i].lines, n, c)
      BY <1>4, <1>5, <2>1, <2>2, <2>3, <3>1, EndsServed
    <3> QED BY <2>3, <3>2
  <2>4. CASE rs[i].call # "POST"
    <3>1. \A j \in 1 .. n : (Sending(new[j]) <=> Sending(rs[j])) /\ (Sending(rs[j]) => new[j].lines = rs[j].lines)
      <4> SUFFICES ASSUME NEW j \in 1 .. n
                   PROVE  (Sending(new[j]) <=> Sending(rs[j])) /\ (Sending(rs[j]) => new[j].lines = rs[j].lines)
        OBVIOUS
      <4>1. CASE j = i
        BY <1>4, <2>4, <4>1
      <4>2. CASE j # i
        BY <2>2, <4>2
      <4> QED BY <4>1, <4>2
    <3>2. Ends(new, s, n, c)
      BY <1>5, <2>1, <3>1, EndsRelabelled
    <3> QED BY <2>4, <3>2
  <2> QED BY <2>3, <2>4
<1>6. \A some : Fresh(rs, s, some) => Fresh(new, s2, some)
  <2>1. N \in i .. N
    BY <1>1
  <2> QED BY <1>3, <1>5, <2>1 DEF Fresh
<1>7. \A j \in DOMAIN new : j \in DOMAIN rs /\ new[j].then = rs[j].then /\ new[j].of = rs[j].of
                           /\ new[j].call = rs[j].call /\ (LivePage(new[j]) <=> LivePage(rs[j]))
                           /\ (j = i \/ new[j] = rs[j])
  <2> SUFFICES ASSUME NEW j \in DOMAIN new
               PROVE  j \in DOMAIN rs /\ new[j].then = rs[j].then /\ new[j].of = rs[j].of
                      /\ new[j].call = rs[j].call /\ (LivePage(new[j]) <=> LivePage(rs[j]))
                      /\ (j = i \/ new[j] = rs[j])
    OBVIOUS
  <2>1. CASE j = i
    BY <1>1, <1>3, <2>1 DEF LivePage
  <2>2. CASE j # i
    BY <1>1, <1>3, <2>2
  <2> QED BY <2>1, <2>2
<1>8. LivePage(rs[i]) => Fresh(new, s2, lines)
  <2> SUFFICES ASSUME LivePage(rs[i]) PROVE Fresh(new, s2, lines)
    OBVIOUS
  <2>1. rs[i].call = "GET" /\ s2 = s /\ s \in NoneOr(lines)
    <3>1. RequestCalm(rs, s, h, l, sh, i)
      BY DEF Calm
    <3> QED BY <3>1 DEF RequestCalm, NoneOr
  <2>2. ASSUME NEW j \in 1 .. N, Sending(new[j]) PROVE new[j].lines \in NoneOr(lines)
    <3>1. j # i /\ new[j] = rs[j] /\ ~(j < i)
      BY <1>1, <1>3, <1>4, <2>2 DEF Sending
    <3>2. PairCalm(rs, i, j) /\ i < j
      BY <1>1, <3>1 DEF Calm
    <3>3. new[j].lines = {}
      BY <2>2, <3>1, <3>2 DEF PairCalm
    <3> QED BY <3>3 DEF NoneOr
  <2>3. Ends(new, s2, N, NoneOr(lines))
    <3> HIDE DEF N
    <3> QED BY <1>1, <2>1, <2>2, EndsInOne
  <2> QED BY <1>3, <2>3 DEF Fresh
<1>9. ASSUME NEW j \in DOMAIN new PROVE RequestCalm(new, s2, h, l, sh, j)
  <2>1. RequestCalm(rs, s, h, l, sh, j)
    BY <1>7 DEF Calm
  <2>2. CASE j = i
    <3>1. new[j].lines = lines /\ new[j].stage = stage
      BY <1>3, <2>2
    <3> QED BY <1>6, <1>7, <1>8, <2>1, <2>2, <3>1 DEF RequestCalm
  <2>3. CASE j # i
    <3>1. new[j] = rs[j]
      BY <1>7, <2>3
    <3>2. rs[j].stage = "sent" => j - 1 \in i .. N
      BY <1>1, <1>7, <2>3
    <3> QED BY <1>5, <1>6, <2>1, <3>1, <3>2 DEF RequestCalm
  <2> QED BY <2>2, <2>3
<1>10. ASSUME NEW j \in DOMAIN new, NEW k \in DOMAIN new PROVE PairCalm(new, j, k)
  <2>1. PairCalm(rs, j, k)
    BY <1>7 DEF Calm
  <2>2. Sending(new[k]) => Sending(rs[k]) /\ new[k].lines = rs[k].lines
    BY <1>4, <1>7
  <2> QED BY <1>7, <2>1, <2>2 DEF PairCalm
<1> QED BY <1>6, <1>9, <1>10 DEF Calm, new

\* A tab has just been loaded.
LEMMA CalmStart ==
  ASSUME NEW s, NEW h, NEW l
  PROVE  Calm(Start, s, h, l, None, "catalog", {})
<1>1. /\ Get("load").call = "GET" /\ Get("load").then = "load"
      /\ Get("badge").call = "GET" /\ Get("badge").then = "badge"
  BY RequestMade DEF Get, Callbacks
<1> DEFINE a == Get("load")
           b == Get("badge")
<1>2. Start = <<a, b>>
  BY DEF Start
<1> HIDE DEF a, b
<1>3. DOMAIN Start = {1, 2} /\ Start[1] = a /\ Start[2] = b
  BY <1>2
<1>4. \A i \in DOMAIN Start : /\ Start[i].call = "GET" /\ Start[i].then \in {"load", "badge"}
                              /\ Start[i].then = "load" => i = 1
  BY <1>1, <1>3 DEF a, b
<1>5. \A i \in DOMAIN Start : RequestCalm(Start, s, h, l, None, i)
  BY <1>4 DEF RequestCalm, LivePage
<1>6. \A i, j \in DOMAIN Start : PairCalm(Start, i, j)
  BY <1>4 DEF PairCalm, LivePage
<1> QED BY <1>5, <1>6 DEF Calm

\* The page's requests call back a component that is gone.
LEMMA LeavesSame ==
  ASSUME requests \in Seq(Requests)
  PROVE  /\ Leaves \in Seq(Requests) /\ Len(Leaves) = Len(requests) /\ DOMAIN Leaves = DOMAIN requests
         /\ \A i \in DOMAIN requests :
                /\ Leaves[i].call = requests[i].call /\ Leaves[i].then = requests[i].then
                /\ Leaves[i].lines = requests[i].lines /\ Leaves[i].of = requests[i].of
                /\ Leaves[i].stage = requests[i].stage /\ ~Leaves[i].live
<1>1. DOMAIN requests = 1 .. Len(requests) /\ Len(requests) \in Nat
  OBVIOUS
<1>2. ASSUME NEW i \in DOMAIN requests
      PROVE  /\ Leaves[i] \in Requests
             /\ Leaves[i].call = requests[i].call /\ Leaves[i].then = requests[i].then
             /\ Leaves[i].lines = requests[i].lines /\ Leaves[i].of = requests[i].of
             /\ Leaves[i].stage = requests[i].stage /\ ~Leaves[i].live
  <2>1. Leaves[i] = [requests[i] EXCEPT !.live = FALSE] /\ requests[i] \in Requests
    BY DEF Leaves
  <2>2. \A r \in Requests : [r EXCEPT !.live = FALSE].live = FALSE
    BY DEF Requests
  <2> QED BY <2>1, <2>2 DEF Requests
<1>3. Leaves \in [1 .. Len(requests) -> Requests]
  BY <1>1, <1>2 DEF Leaves
<1>4. Leaves \in Seq(Requests) /\ Len(Leaves) = Len(requests) /\ DOMAIN Leaves = DOMAIN requests
  BY <1>1, <1>3
<1> QED BY <1>2, <1>4

LEMMA CalmLeaves ==
  ASSUME requests \in Seq(Requests), CalmNow, NEW pg, NEW sm, pg = "order" => Fresh(requests, stored, sm)
  PROVE  Calm(Leaves, stored, heap, local, None, pg, sm)
BY LeavesSame, CalmRelabelled DEF CalmNow

\* Collecting the objects nobody holds makes no difference.
LEMMA CalmKeep ==
  ASSUME TypeInv', NEW h \in [Objects -> SUBSET Products], Keep(h),
         Calm(requests', stored', h, local', shown', page', summary')
  PROVE  CalmNow'
<1>1. \A x \in Objects : x \in InUse' => heap'[x] = h[x]
  BY KeepOK
<1>2. shown' # None => heap'[shown'] = h[shown']
  BY <1>1 DEF TypeInv, OthersOK, InUse
<1>3. ASSUME NEW i \in DOMAIN requests', requests'[i].then = "checkOut"
      PROVE  heap'[requests'[i].of] = h[requests'[i].of]
  <2>1. requests'[i].of \in Objects
    BY <1>3 DEF TypeInv, RequestsOK
  <2>2. requests'[i].of \in InUse'
    BY DEF InUse
  <2> QED BY <1>1, <2>1, <2>2
<1> QED BY <1>2, <1>3, CalmHeap DEF CalmNow

\* What has not happened in the end has not happened.
LEMMA NotYet ==
  ASSUME Undisturbed', NEW m \in {"overtaken", "loss", "history"}, NEW condition, Mishap(m, condition)
  PROVE  ~condition
BY DEF Undisturbed, Spared, Mishap

LEMMA AddToCartCalm ==
  ASSUME TypeInv, CalmNow, NEW p \in Products, AddToCart(p)
  PROVE  CalmNow'
<1> DEFINE r == Request("POST", "change", heap'[local], None)
<1>1. /\ page = "catalog" /\ local \in Objects /\ requests' = Append(requests, r)
      /\ heap' = [heap EXCEPT ![local] = @ \cup {p}]
      /\ local' = local /\ shown' = shown /\ page' = page /\ summary' = summary /\ stored' = stored
  BY DEF AddToCart, Post, component, services, TypeInv, OthersOK
<1>2. requests \in Seq(Requests) /\ heap'[local] \in SUBSET Products
  BY <1>1 DEF TypeInv, OthersOK, RequestsOK
<1>3. /\ r \in Requests /\ Sending(r) /\ r.lines = heap'[local] /\ r.then = "change"
  BY <1>2, RequestMade DEF Callbacks, Sending
<1>4. shown = None /\ local # None
  BY <1>1, SpaAssumption DEF TypeInv, OthersOK
<1>5. ASSUME NEW i \in DOMAIN requests
      PROVE  ~LivePage(requests[i]) /\ (requests[i].then = "checkOut" => requests[i].of = local)
  <2>1. RequestCalm(requests, stored, heap, local, shown, i)
    BY DEF CalmNow, Calm
  <2> QED BY <1>1, <1>4, <2>1 DEF RequestCalm, TypeInv, RequestsOK
<1> HIDE DEF r
<1>6. Calm(Append(requests, r), stored, heap', local, shown, page, summary)
  BY <1>1, <1>2, <1>3, <1>4, <1>5, CalmPosted DEF CalmNow
<1> QED BY <1>1, <1>6 DEF CalmNow

LEMMA NavigateCalm ==
  ASSUME TypeInv, TypeInv', CalmNow, NEW to, Navigate(to)
  PROVE  CalmNow'
<1>1. /\ page' = to /\ shown' = None /\ summary' = {} /\ to # "order" /\ Keep(heap)
      /\ local' = local /\ stored' = stored /\ heap \in [Objects -> SUBSET Products]
  BY DEF Navigate, services, TypeInv, OthersOK
<1>2. Calm(Leaves, stored, heap, local, None, to, {})
  BY <1>1, CalmLeaves DEF TypeInv, RequestsOK
<1>3. Leaves \in Seq(Requests) /\ \A i \in DOMAIN Leaves : ~LivePage(Leaves[i])
  BY LeavesSame DEF TypeInv, RequestsOK, LivePage
<1>4. Calm(requests', stored, heap, local, None, to, {})
  <2>1. CASE to = "basket" /\ local # None
    <3> DEFINE r == Request("GET", "page", {}, None)
    <3>1. requests' = Append(Leaves, r)
      BY <2>1 DEF Navigate, Get
    <3>2. r \in Requests /\ r.stage = "sent" /\ r.call = "GET" /\ r.then = "page" /\ ~Sending(r)
      BY RequestMade DEF Callbacks, Sending
    <3> HIDE DEF r
    <3> QED BY <1>2, <1>3, <3>1, <3>2, CalmAppended
  <2>2. CASE ~(to = "basket" /\ local # None)
    BY <1>2, <2>2 DEF Navigate
  <2> QED BY <2>1, <2>2
<1>5. Calm(requests', stored', heap, local', shown', page', summary')
  BY <1>1, <1>4
<1> QED BY <1>1, <1>5, CalmKeep

\* The basket page's steps.
LEMMA PageCalm ==
  ASSUME TypeInv, CalmNow, shown # None, NEW h \in [Objects -> SUBSET Products],
         NEW then \in {"change", "none", "checkOut"}, NEW of, of = IF then = "checkOut" THEN shown ELSE None,
         NEW rs \in Seq(Requests), NEW h1, NEW l1, Calm(rs, stored, h1, l1, shown, page, summary),
         \A i \in DOMAIN rs : rs[i].then = "checkOut" => rs[i].of = shown
  PROVE  LET new == Append(rs, Request("POST", then, h[shown], of))
         IN  /\ new \in Seq(Requests)
             /\ Calm(new, stored, h, shown, shown, page, summary)
             /\ \A i \in DOMAIN new : new[i].then = "checkOut" => new[i].of = shown
<1> DEFINE r == Request("POST", then, h[shown], of)
<1>1. shown \in Objects /\ page = "basket" /\ h[shown] \in SUBSET Products
  BY DEF TypeInv, OthersOK
<1>2. of \in Objects \cup {None}
  BY <1>1
<1>3. /\ r \in Requests /\ Sending(r) /\ r.lines = h[shown] /\ r.then = then /\ r.of = of
  BY <1>1, <1>2, RequestMade DEF Callbacks, Sending
<1>4. ASSUME NEW i \in DOMAIN rs PROVE ~LivePage(rs[i])
  <2>1. RequestCalm(rs, stored, h1, l1, shown, i)
    BY DEF Calm
  <2> QED BY <2>1 DEF RequestCalm
<1> HIDE DEF r
<1>5. Calm(Append(rs, r), stored, h, shown, shown, page, summary)
  BY <1>1, <1>3, <1>4, CalmPosted
<1>6. Append(rs, r) \in Seq(Requests)
      /\ \A i \in DOMAIN Append(rs, r) : (i \in DOMAIN rs /\ Append(rs, r)[i] = rs[i]) \/ Append(rs, r)[i] = r
  BY <1>3
<1>7. \A i \in DOMAIN Append(rs, r) : Append(rs, r)[i].then = "checkOut" => Append(rs, r)[i].of = shown
  BY <1>3, <1>6
<1> QED BY <1>5, <1>6, <1>7 DEF r

LEMMA ShownShared ==
  ASSUME TypeInv, CalmNow, shown # None
  PROVE  \A i \in DOMAIN requests : requests[i].then = "checkOut" => requests[i].of = shown
BY DEF CalmNow, Calm, RequestCalm

LEMMA DeleteItemCalm ==
  ASSUME TypeInv, TypeInv', CalmNow, NEW p, DeleteItem(p)
  PROVE  CalmNow'
<1> DEFINE h == [heap EXCEPT ![shown] = @ \ {p}]
           r == Request("POST", "change", h[shown], None)
<1>1. /\ shown # None /\ Keep(h) /\ h \in [Objects -> SUBSET Products] /\ requests \in Seq(Requests)
      /\ local' = shown /\ shown' = shown /\ page' = page /\ summary' = summary /\ stored' = stored
  BY DEF DeleteItem, SetBasket, component, services, TypeInv, OthersOK, RequestsOK
<1>2. requests' = Append(requests, r)
  <2>1. h[shown] = heap[shown] \ {p}
    BY <1>1 DEF TypeInv, OthersOK
  <2> HIDE DEF h
  <2> QED BY <2>1 DEF DeleteItem, Post
<1> HIDE DEF h
<1>3. Calm(Append(requests, r), stored, h, shown, shown, page, summary)
  BY <1>1, ShownShared, PageCalm DEF CalmNow
<1>4. Calm(requests', stored', h, local', shown', page', summary')
  BY <1>1, <1>2, <1>3
<1> QED BY <1>1, <1>4, CalmKeep

LEMMA ItemQuantityChangedCalm ==
  ASSUME TypeInv, TypeInv', CalmNow, ItemQuantityChanged
  PROVE  CalmNow'
<1> DEFINE r == Request("POST", "none", heap[shown], None)
<1>1. /\ shown # None /\ Keep(heap) /\ heap \in [Objects -> SUBSET Products] /\ requests \in Seq(Requests)
      /\ local' = shown /\ shown' = shown /\ page' = page /\ summary' = summary /\ stored' = stored
      /\ requests' = Append(requests, r)
  BY DEF ItemQuantityChanged, Post, SetBasket, component, services, TypeInv, OthersOK, RequestsOK
<1>2. Calm(Append(requests, r), stored, heap, shown, shown, page, summary)
  BY <1>1, ShownShared, PageCalm DEF CalmNow
<1>3. Calm(requests', stored', heap, local', shown', page', summary')
  BY <1>1, <1>2
<1> QED BY <1>1, <1>3, CalmKeep

LEMMA CheckOutCalm ==
  ASSUME TypeInv, TypeInv', CalmNow, CheckOut
  PROVE  CalmNow'
<1> DEFINE a == Request("POST", "none", heap[shown], None)
           b == Request("POST", "checkOut", heap[shown], shown)
<1>1. /\ shown # None /\ Keep(heap) /\ heap \in [Objects -> SUBSET Products] /\ requests \in Seq(Requests)
      /\ local' = shown /\ shown' = shown /\ page' = page /\ summary' = summary /\ stored' = stored
      /\ requests' = requests \o <<a, b>> /\ shown \in Objects /\ heap[shown] \in SUBSET Products
  BY DEF CheckOut, Post, SetBasket, component, services, TypeInv, OthersOK, RequestsOK
<1>2. a \in Requests /\ b \in Requests
  BY <1>1, RequestMade DEF Callbacks
<1>3. requests' = Append(Append(requests, a), b)
  <2> HIDE DEF a, b
  <2> QED BY <1>1, <1>2, TwoMore
<1>4. /\ Append(requests, a) \in Seq(Requests)
      /\ Calm(Append(requests, a), stored, heap, shown, shown, page, summary)
      /\ \A i \in DOMAIN Append(requests, a) :
             Append(requests, a)[i].then = "checkOut" => Append(requests, a)[i].of = shown
  BY <1>1, ShownShared, PageCalm DEF CalmNow
<1> HIDE DEF a
<1>5. Calm(Append(Append(requests, a), b), stored, heap, shown, shown, page, summary)
  BY <1>1, <1>4, PageCalm
<1>6. Calm(requests', stored', heap, local', shown', page', summary')
  BY <1>1, <1>3, <1>5
<1> QED BY <1>1, <1>6, CalmKeep

LEMMA CheckOutTooSoonCalm ==
  ASSUME TypeInv, TypeInv', CalmNow, CheckOutTooSoon
  PROVE  CalmNow'
<1>1. Calm(requests, stored, heap, None, shown, page, summary)
  BY DEF CalmNow, Calm, RequestCalm
<1>2. /\ Keep(heap) /\ heap \in [Objects -> SUBSET Products]
      /\ local' = None /\ requests' = requests
      /\ shown' = shown /\ page' = page /\ summary' = summary /\ stored' = stored
  BY DEF CheckOutTooSoon, component, services, TypeInv, OthersOK
<1> QED BY <1>1, <1>2, CalmKeep

LEMMA SubmitFormCalm ==
  ASSUME TypeInv, CalmNow, SubmitForm
  PROVE  CalmNow'
<1> DEFINE r == Request("checkout", "submit", summary, None)
<1>1. /\ page = "order" /\ requests' = Append(requests, r) /\ requests \in Seq(Requests)
      /\ summary \in SUBSET Products
      /\ UNCHANGED <<heap, local, shown, page, summary, stored>>
  BY DEF SubmitForm, services, TypeInv, OthersOK, RequestsOK
<1>2. /\ r \in Requests /\ r.stage = "sent" /\ ~Sending(r) /\ r.then = "submit" /\ r.lines = summary
      /\ ~LivePage(r)
  BY <1>1, RequestMade DEF Callbacks, Sending, LivePage
<1>3. Fresh(requests, stored, summary)
  BY <1>1 DEF CalmNow, Calm
<1> HIDE DEF r
<1>4. Calm(Append(requests, r), stored, heap, local, shown, page, summary)
  BY <1>1, <1>2, <1>3, CalmAppended DEF CalmNow
<1> QED BY <1>1, <1>4 DEF CalmNow

\* Nothing is under way when the tab is reloaded.
LEMMA ReloadedIdle ==
  ASSUME Reload, requests = <<>>
  PROVE  requests' = Start
<1> DEFINE kept == {i \in DOMAIN requests : requests[i].stage = "sent" /\ requests[i].call # "GET"}
           n    == Cardinality(kept)
<1>1. PICK place \in [1 .. n -> kept] :
          requests' = [i \in 1 .. n |-> Forgotten(requests[place[i]])] \o Start
  BY DEF Reload
<1> DEFINE front == [i \in 1 .. n |-> Forgotten(requests[place[i]])]
<1>2. n = 0
  <2>1. kept = {}
    OBVIOUS
  <2> HIDE DEF kept
  <2> QED BY <2>1, FS_EmptySet
<1>3. front = <<>>
  <2> HIDE DEF n
  <2>1. 1 .. n = {}
    BY <1>2
  <2> QED BY <2>1
<1>4. Start \in Seq(Requests)
  <2>1. Get("load") \in Requests /\ Get("badge") \in Requests
    BY RequestMade DEF Get, Callbacks
  <2> QED BY <2>1 DEF Start
<1>5. requests' = front \o Start
  BY <1>1
<1> HIDE DEF front
<1> QED BY <1>3, <1>4, <1>5, ConcatEmptySeq

LEMMA ReloadCalm ==
  ASSUME TypeInv, Undisturbed', Reload
  PROVE  CalmNow'
<1>1. /\ shown' = None /\ page' = "catalog" /\ summary' = {}
      /\ Mishap("loss", requests # <<>>)
  BY DEF Reload
<1>2. requests' = Start
  <2>1. requests = <<>>
    BY <1>1, NotYet
  <2> QED BY <2>1, ReloadedIdle
<1> QED BY <1>1, <1>2, CalmStart DEF CalmNow

LEMMA ServeCalm ==
  ASSUME TypeInv, CalmNow, Undisturbed', NEW i \in DOMAIN requests, Serve(i)
  PROVE  CalmNow'
<1>1. /\ requests \in Seq(Requests) /\ requests[i] \in Requests /\ requests[i].lines \in SUBSET Products
      /\ UNCHANGED <<heap, local, shown, page, summary>>
  BY RequestType DEF Serve, component, TypeInv, RequestsOK
<1>2. requests[i].stage = "sent" /\ \A j \in 1 .. i - 1 : requests[j].stage # "sent"
  BY NotYet DEF Serve, Overtakes
<1>3. PICK stage \in {"answered", "failed"}, lines \in SUBSET Products :
          /\ Answer(i, stage, lines)
          /\ IF requests[i].call = "POST" THEN stored' = requests[i].lines ELSE stored' = stored
          /\ requests[i].call = "GET" => stored \in {NoBasket, lines}
  <2> DEFINE basket == IF stored = NoBasket THEN {} ELSE stored
  <2>1. basket \in SUBSET Products /\ stored \in {NoBasket, basket}
    BY DEF TypeInv, OthersOK
  <2>2. CASE GetBasketById(i)
    <3>1. Answer(i, "answered", basket) /\ requests[i].call = "GET" /\ stored' = stored
      BY <2>2 DEF GetBasketById
    <3> HIDE DEF basket
    <3> QED BY <2>1, <3>1
  <2>3. CASE UpdateBasket(i)
    BY <1>1, <2>3 DEF UpdateBasket
  <2>4. CASE Checkout(i)
    BY <1>1, <2>4 DEF Checkout
  <2> QED BY <2>2, <2>3, <2>4 DEF Serve
<1> DEFINE new == [requests EXCEPT ![i].stage = stage, ![i].lines = lines]
<1>4. Calm(new, stored', heap, local, shown, page, summary)
  BY <1>1, <1>2, <1>3, CalmAnswered DEF CalmNow
<1>5. CASE requests[i].then = "none"
  <2>1. requests' = RemoveAt(requests, i)
    BY <1>3, <1>5 DEF Answer, Others
  <2>2. /\ new \in Seq(Requests) /\ Len(new) = Len(requests) /\ DOMAIN new = DOMAIN requests
        /\ new[i].stage # "sent" /\ \A j \in DOMAIN requests : j # i => new[j] = requests[j]
    <3> DEFINE r == [requests[i] EXCEPT !.stage = stage, !.lines = lines]
    <3>1. new = [requests EXCEPT ![i] = r]
      BY <1>1
    <3>2. r \in Requests /\ r.stage # "sent"
      BY <1>1, <1>3 DEF Requests
    <3> HIDE DEF r, new
    <3>3. new \in Seq(Requests) /\ Len(new) = Len(requests) /\ DOMAIN new = DOMAIN requests
      BY <1>1, <3>1, <3>2
    <3>4. new[i] = r /\ \A j \in DOMAIN requests : j # i => new[j] = requests[j]
      BY <1>1, <3>1
    <3> QED BY <3>2, <3>3, <3>4
  <2> HIDE DEF new
  <2>3. Calm(RemoveAt(new, i), stored', heap, local, shown, page, summary)
    BY <1>4, <2>2, CalmRemoved DEF Sending
  <2>4. RemoveAt(new, i) = RemoveAt(requests, i)
    BY <1>1, <2>2, SameWithout
  <2> QED BY <1>1, <2>1, <2>3, <2>4 DEF CalmNow
<1>6. CASE requests[i].then # "none"
  <2>1. requests' = new
    BY <1>3, <1>6 DEF Answer
  <2> QED BY <1>1, <1>4, <2>1 DEF CalmNow
<1> QED BY <1>5, <1>6

LEMMA OrderStartsCalm ==
  ASSUME TypeInv, CalmNow, OrderStarts
  PROVE  CalmNow'
<1>1. stored' = NoBasket /\ UNCHANGED <<requests, heap, local, shown, page, summary>>
  BY DEF OrderStarts, tab, component
<1>2. \A n, lines : Ends(requests, stored, n, NoneOr(lines)) => Ends(requests, NoBasket, n, NoneOr(lines))
  <2> SUFFICES ASSUME NEW n, NEW lines, Ends(requests, stored, n, NoneOr(lines))
               PROVE  Ends(requests, NoBasket, n, NoneOr(lines))
    OBVIOUS
  <2>1. NoBasket \in NoneOr(lines)
    BY DEF NoneOr
  <2> QED BY <2>1, EndsErased
<1>3. \A lines : Fresh(requests, stored, lines) => Fresh(requests, NoBasket, lines)
  BY <1>2 DEF Fresh
<1>4. Calm(requests, NoBasket, heap, local, shown, page, summary)
  <2>1. \A i \in DOMAIN requests : RequestCalm(requests, NoBasket, heap, local, shown, i)
    BY <1>2, <1>3 DEF CalmNow, Calm, RequestCalm
  <2> QED BY <1>3, <2>1 DEF CalmNow, Calm
<1> QED BY <1>1, <1>4 DEF CalmNow

\* An answer that has been waited for leaves the list.
LEMMA AnswerTaken ==
  ASSUME TypeInv, CalmNow, Undisturbed', NEW i \in DOMAIN requests, NEW then, Answered(i, then)
  PROVE  /\ i = 1 /\ requests \in Seq(Requests) /\ requests[i] \in Requests
         /\ requests[i].stage = "answered" /\ requests[i].then \in then /\ ~Sending(requests[i])
         /\ RequestCalm(requests, stored, heap, local, shown, i)
         /\ Calm(Others(i), stored, heap, local, shown, page, summary)
         /\ stored' = stored
<1>1. /\ requests \in Seq(Requests) /\ requests[i] \in Requests /\ stored' = stored
      /\ requests[i].stage = "answered" /\ requests[i].then \in then
  BY DEF Answered, services, TypeInv, RequestsOK
<1>2. ~Sending(requests[i])
  BY <1>1 DEF Sending
<1>3. i = 1
  <2>1. ~(i > 1)
    BY NotYet DEF Answered
  <2> QED BY <1>1, <2>1
<1>4. RequestCalm(requests, stored, heap, local, shown, i)
  BY DEF CalmNow, Calm
<1>5. Calm(Others(i), stored, heap, local, shown, page, summary)
  BY <1>1, <1>2, CalmRemoved DEF CalmNow, Others
<1> QED BY <1>1, <1>2, <1>3, <1>4, <1>5

\* The other requests, at their places.
LEMMA OthersKnown ==
  ASSUME requests \in Seq(Requests), NEW i \in DOMAIN requests
  PROVE  /\ Others(i) \in Seq(Requests)
         /\ \A j \in DOMAIN Others(i) : \E k \in DOMAIN requests : k # i /\ Others(i)[j] = requests[k]
<1> DEFINE less == RemoveAt(requests, i)
           N    == Len(requests)
<1>1. DOMAIN requests = 1 .. N /\ N \in Nat
  OBVIOUS
<1>2. /\ less \in Seq(Requests) /\ DOMAIN less = 1 .. N - 1
      /\ \A j \in 1 .. N - 1 : less[j] = IF j < i THEN requests[j] ELSE requests[j + 1]
  BY Removed
<1> HIDE DEF less, N
<1>3. ASSUME NEW j \in 1 .. N - 1 PROVE \E k \in DOMAIN requests : k # i /\ less[j] = requests[k]
  <2>1. CASE j < i
    <3>1. j \in DOMAIN requests /\ j # i /\ less[j] = requests[j]
      BY <1>1, <1>2, <2>1
    <3> QED BY <3>1
  <2>2. CASE ~(j < i)
    <3>1. j + 1 \in DOMAIN requests /\ j + 1 # i /\ less[j] = requests[j + 1]
      BY <1>1, <1>2, <2>2
    <3> QED BY <3>1
  <2> QED BY <2>1, <2>2
<1> QED BY <1>2, <1>3 DEF less, Others

LEMMA LoadedCalm ==
  ASSUME TypeInv, CalmNow, Undisturbed', NEW i \in DOMAIN requests, Loaded(i)
  PROVE  CalmNow'
<1>1. Answered(i, {"load"}) /\ requests' = Others(i) /\ UNCHANGED <<local, page, shown, summary>>
  BY DEF Loaded, component
<1>2. /\ requests \in Seq(Requests) /\ stored' = stored /\ requests[i].then = "load"
      /\ Calm(Others(i), stored, heap, local, shown, page, summary)
      /\ RequestCalm(requests, stored, heap, local, shown, i)
  BY <1>1, AnswerTaken
<1>3. shown = None /\ \A k \in DOMAIN requests : requests[k].then # "checkOut"
  BY <1>2 DEF RequestCalm, CalmNow, Calm, PairCalm
<1>4. \A j \in DOMAIN Others(i) : Others(i)[j].then # "checkOut"
  BY <1>2, <1>3, OthersKnown
<1>5. Calm(Others(i), stored, heap', local, shown, page, summary)
  BY <1>2, <1>3, <1>4, CalmHeap
<1> QED BY <1>1, <1>2, <1>5 DEF CalmNow

LEMMA BadgeArrivesCalm ==
  ASSUME TypeInv, CalmNow, Undisturbed', NEW i \in DOMAIN requests, BadgeArrives(i)
  PROVE  CalmNow'
<1>1. Answered(i, {"badge"}) /\ requests' = Others(i) /\ UNCHANGED <<heap, local, page, shown, summary>>
  BY DEF BadgeArrives, component
<1> QED BY <1>1, AnswerTaken DEF CalmNow

LEMMA BasketChangedCalm ==
  ASSUME TypeInv, CalmNow, Undisturbed', NEW i \in DOMAIN requests, BasketChanged(i)
  PROVE  CalmNow'
<1>1. Answered(i, {"change", "drop"}) /\ UNCHANGED <<heap, local, page, shown, summary>>
  BY DEF BasketChanged, component
<1>2. /\ requests \in Seq(Requests) /\ stored' = stored
      /\ Calm(Others(i), stored, heap, local, shown, page, summary)
  BY <1>1, AnswerTaken
<1>3. Calm(requests', stored, heap, local, shown, page, summary)
  <2>1. CASE requests' = Others(i)
    BY <1>2, <2>1
  <2>2. CASE requests' = Append(Others(i), Get("badge"))
    <3> DEFINE r == Get("badge")
    <3>1. r \in Requests /\ r.call = "GET" /\ r.then = "badge" /\ r.stage = "sent"
      BY RequestMade DEF Get, Callbacks
    <3>2. ~Sending(r) /\ ~LivePage(r)
      BY <3>1 DEF Sending, LivePage
    <3> HIDE DEF r
    <3>3. Others(i) \in Seq(Requests)
      BY <1>2, OthersKnown
    <3>4. Calm(Append(Others(i), r), stored, heap, local, shown, page, summary)
      BY <1>2, <3>1, <3>2, <3>3, CalmAppended
    <3> QED BY <2>2, <3>4 DEF r
  <2> QED BY <2>1, <2>2 DEF BasketChanged
<1> QED BY <1>1, <1>2, <1>3 DEF CalmNow

\* The page's basket arrives: the object is new.
LEMMA PageArrivesCalm ==
  ASSUME TypeInv, CalmNow, Undisturbed', NEW i \in DOMAIN requests, PageArrives(i)
  PROVE  CalmNow'
<1>1. Answered(i, {"page"}) /\ requests' = Others(i) /\ UNCHANGED <<local, page, summary>>
  BY DEF PageArrives
<1>2. /\ i = 1 /\ requests \in Seq(Requests) /\ stored' = stored /\ requests[i].then = "page"
      /\ ~Sending(requests[i]) /\ requests[i].stage = "answered"
      /\ Calm(Others(i), stored, heap, local, shown, page, summary)
      /\ RequestCalm(requests, stored, heap, local, shown, i)
  BY <1>1, AnswerTaken
<1>3. CASE ~requests[i].live
  BY <1>1, <1>2, <1>3 DEF PageArrives, CalmNow
<1>4. CASE requests[i].live
  <2>1. PICK x \in Objects \ InUse : heap' = [heap EXCEPT ![x] = requests[i].lines] /\ shown' = x
    BY <1>4 DEF PageArrives
  <2>2. LivePage(requests[i]) /\ page # "order"
    BY <1>2, <1>4 DEF LivePage, TypeInv, RequestsOK
  <2>3. shown = None /\ Fresh(requests, stored, requests[i].lines)
    BY <1>2, <2>2 DEF RequestCalm
  <2>4. ASSUME NEW k \in DOMAIN requests, k # i
        PROVE  requests[k].then # "checkOut" /\ requests[k].then # "load" /\ ~LivePage(requests[k])
    <3>1. PairCalm(requests, i, k) /\ RequestCalm(requests, stored, heap, local, shown, k) /\ ~(k < i)
      BY <1>2 DEF CalmNow, Calm
    <3> QED BY <1>2, <2>2, <2>4, <3>1 DEF PairCalm, RequestCalm
  <2>5. \A j \in DOMAIN Others(i) :
            Others(i)[j].then # "checkOut" /\ Others(i)[j].then # "load" /\ ~LivePage(Others(i)[j])
    BY <1>2, <2>4, OthersKnown
  <2>6. heap'[x] = requests[i].lines
    BY <2>1 DEF TypeInv, OthersOK
  <2>7. Fresh(Others(i), stored, requests[i].lines)
    <3>1. Calm(requests, stored, heap, local, None, "order", requests[i].lines)
      BY <2>3 DEF CalmNow, Calm
    <3>2. Calm(Others(i), stored, heap, local, None, "order", requests[i].lines)
      BY <1>2, <3>1, CalmRemoved DEF Others
    <3> QED BY <3>2 DEF Calm
  <2>8. \A j \in DOMAIN Others(i) : RequestCalm(Others(i), stored, heap', local, x, j)
    <3> SUFFICES ASSUME NEW j \in DOMAIN Others(i) PROVE RequestCalm(Others(i), stored, heap', local, x, j)
      OBVIOUS
    <3>1. RequestCalm(Others(i), stored, heap, local, shown, j)
      BY <1>2 DEF Calm
    <3> QED BY <2>5, <3>1 DEF RequestCalm
  <2>9. Calm(Others(i), stored, heap', local, x, page, summary)
    BY <1>2, <2>2, <2>6, <2>7, <2>8 DEF Calm
  <2> QED BY <1>1, <1>2, <2>1, <2>9 DEF CalmNow
<1> QED BY <1>3, <1>4

\* The component of an answered request is destroyed, and the request leaves the list.
LEMMA LeftTaken ==
  ASSUME TypeInv, CalmNow, NEW i \in DOMAIN requests, requests[i].stage = "answered",
         NEW pg, NEW sm, pg = "order" => Fresh(requests, stored, sm)
  PROVE  /\ RemoveAt(Leaves, i) \in Seq(Requests)
         /\ Calm(RemoveAt(Leaves, i), stored, heap, local, None, pg, sm)
<1>1. /\ Leaves \in Seq(Requests) /\ i \in DOMAIN Leaves /\ Leaves[i].stage = "answered"
      /\ Calm(Leaves, stored, heap, local, None, pg, sm)
  BY LeavesSame, CalmLeaves DEF TypeInv, RequestsOK
<1>2. ~Sending(Leaves[i])
  BY <1>1 DEF Sending
<1> QED BY <1>1, <1>2, CalmRemoved, Removed

LEMMA CheckedOutCalm ==
  ASSUME TypeInv, TypeInv', CalmNow, Undisturbed', NEW i \in DOMAIN requests, CheckedOut(i)
  PROVE  CalmNow'
<1>1. Answered(i, {"checkOut"}) /\ Keep(heap) /\ local' = local /\ heap \in [Objects -> SUBSET Products]
  BY DEF CheckedOut, TypeInv, OthersOK
<1>2. /\ stored' = stored /\ requests[i].stage = "answered" /\ requests[i].then = "checkOut"
      /\ Calm(Others(i), stored, heap, local, shown, page, summary)
      /\ RequestCalm(requests, stored, heap, local, shown, i)
  BY <1>1, AnswerTaken
<1>3. Fresh(requests, stored, heap[requests[i].of])
  BY <1>2 DEF RequestCalm
<1>4. Calm(requests', stored', heap, local', shown', page', summary')
  <2>1. CASE page = "order"
    BY <1>1, <1>2, <2>1 DEF CheckedOut, component
  <2>2. CASE page # "order"
    <3>1. /\ requests' = RemoveAt(Leaves, i) /\ shown' = None /\ page' = "order"
          /\ summary' = heap[requests[i].of]
      BY <2>2 DEF CheckedOut, OpensOrderPage
    <3> QED BY <1>1, <1>2, <1>3, <3>1, LeftTaken
  <2> QED BY <2>1, <2>2
<1> QED BY <1>1, <1>4, CalmKeep

LEMMA SubmittedCalm ==
  ASSUME TypeInv, TypeInv', CalmNow, Undisturbed', NEW i \in DOMAIN requests, Submitted(i)
  PROVE  CalmNow'
<1> DEFINE rs == RemoveAt(Leaves, i)
<1>1. /\ Answered(i, {"submit"}) /\ DropBasket(rs) /\ local' = local
      /\ page' = "orders" /\ shown' = None /\ summary' = {} /\ heap \in [Objects -> SUBSET Products]
  BY DEF Submitted, TypeInv, OthersOK
<1>2. stored' = stored /\ requests[i].stage = "answered"
  BY <1>1, AnswerTaken
<1>3. rs \in Seq(Requests) /\ Calm(rs, stored, heap, local, None, "orders", {})
  BY <1>2, LeftTaken
<1> HIDE DEF rs
<1>4. CASE local = None
  <2>1. requests' = rs /\ Keep(heap)
    BY <1>1, <1>4 DEF DropBasket
  <2> QED BY <1>1, <1>2, <1>3, <2>1, CalmKeep
<1>5. CASE local # None
  <2> DEFINE r == Request("POST", "drop", {}, None)
             h == [heap EXCEPT ![local] = {}]
  <2>1. requests' = Append(rs, r) /\ Keep(h) /\ h \in [Objects -> SUBSET Products]
    BY <1>1, <1>5 DEF DropBasket, Post
  <2>2. r \in Requests /\ Sending(r) /\ r.then = "drop" /\ r.lines = {} /\ r.stage = "sent" /\ r.call = "POST"
    BY RequestMade DEF Callbacks, Sending
  <2> HIDE DEF r, h
  <2>3. ~LivePage(r)
    BY <2>2 DEF LivePage
  <2>4. Calm(Append(rs, r), stored, heap, local, None, "orders", {})
    BY <1>3, <2>2, <2>3, CalmAppended
  <2>5. \A lines : Fresh(Append(rs, r), stored, lines)
    <3> SUFFICES ASSUME NEW lines PROVE Fresh(Append(rs, r), stored, lines)
      OBVIOUS
    <3>1. r.lines \in NoneOr(lines)
      BY <2>2 DEF NoneOr
    <3> QED BY <1>3, <2>2, <3>1, EndsAppended DEF Fresh
  <2>6. Calm(Append(rs, r), stored, h, local, None, "orders", {})
    <3>1. \A j \in DOMAIN Append(rs, r) : RequestCalm(Append(rs, r), stored, h, local, None, j)
      BY <2>4, <2>5 DEF Calm, RequestCalm
    <3> QED BY <2>4, <3>1 DEF Calm
  <2>7. Calm(requests', stored', h, local', shown', page', summary')
    BY <1>1, <1>2, <2>1, <2>6
  <2> QED BY <2>1, <2>7, CalmKeep
<1> QED BY <1>4, <1>5

LEMMA RefusedCalm ==
  ASSUME TypeInv, TypeInv', CalmNow, NEW i \in DOMAIN requests, Refused(i)
  PROVE  CalmNow'
<1>1. requests \in Seq(Requests) /\ ~Sending(requests[i]) /\ heap \in [Objects -> SUBSET Products]
  BY DEF Refused, Sending, TypeInv, OthersOK, RequestsOK
<1>2. /\ requests' = RemoveAt(requests, i)
      /\ UNCHANGED <<local, shown, page, summary, stored>>
      /\ heap' = heap \/ Keep(heap)
  BY DEF Refused, CallFails, SubmitFails, Others, component, services
<1>3. Calm(RemoveAt(requests, i), stored, heap, local, shown, page, summary)
  BY <1>1, CalmRemoved DEF CalmNow
<1>4. Calm(requests', stored', heap, local', shown', page', summary')
  BY <1>2, <1>3
<1>5. CASE heap' = heap
  BY <1>4, <1>5 DEF CalmNow
<1>6. CASE Keep(heap)
  BY <1>1, <1>4, <1>6, CalmKeep
<1> QED BY <1>2, <1>5, <1>6

AsListed == \A k \in DOMAIN orders : orders[k].lines = orders[k].listed

CalmInv == Undisturbed => CalmNow /\ AsListed

\* What is ordered is what the server has, and that is what the page listed.
LEMMA ServeListed ==
  ASSUME TypeInv, CalmNow, AsListed, Undisturbed', NEW i \in DOMAIN requests, Serve(i)
  PROVE  AsListed'
<1>1. requests[i].stage = "sent" /\ \A j \in 1 .. i - 1 : requests[j].stage # "sent"
  BY NotYet DEF Serve, Overtakes
<1>2. CASE orders' = orders
  BY <1>2 DEF AsListed
<1>3. CASE /\ requests[i].call = "checkout" /\ stored # NoBasket /\ stored # {}
           /\ orders' = Append(orders, [lines |-> stored, listed |-> requests[i].lines])
  <2> DEFINE order == [lines |-> stored, listed |-> requests[i].lines]
  <2>1. orders \in Seq([lines : SUBSET Products, listed : SUBSET Products])
        /\ order \in [lines : SUBSET Products, listed : SUBSET Products]
    BY <1>3, RequestType DEF TypeInv, OthersOK, RequestsOK
  <2>2. stored = requests[i].lines
    <3>1. Ends(requests, stored, i - 1, NoneOr(requests[i].lines))
      BY <1>1, <1>3 DEF CalmNow, Calm, RequestCalm
    <3>2. stored \in NoneOr(requests[i].lines)
      BY <1>1, <3>1 DEF Ends, Sending
    <3> QED BY <1>3, <3>2 DEF NoneOr
  <2>3. order.lines = order.listed
    BY <2>2
  <2> HIDE DEF order
  <2>4. orders' = Append(orders, order)
    BY <1>3 DEF order
  <2>5. \A k \in DOMAIN orders' : (k \in DOMAIN orders /\ orders'[k] = orders[k]) \/ orders'[k] = order
    BY <2>1, <2>4
  <2> QED BY <2>3, <2>5 DEF AsListed
<1> QED BY <1>2, <1>3 DEF Serve, GetBasketById, UpdateBasket, Checkout

\* Mishaps are remembered, and only the services take orders.
LEMMA Remembered ==
  ASSUME [SpaNext]_spaVars
  PROVE  /\ mishaps \subseteq mishaps'
         /\ orders' = orders \/ \E i \in DOMAIN requests : Serve(i)
<1>1. CASE UNCHANGED spaVars
  BY <1>1 DEF spaVars, history
<1>2. CASE UserStep
  <2>1. CASE \E p \in Products : AddToCart(p) \/ DeleteItem(p)
    BY <2>1 DEF AddToCart, DeleteItem, Mishap, history
  <2>2. CASE \E to \in Pages : Navigate(to)
    BY <2>2 DEF Navigate, history
  <2>3. CASE GoForwardToOrder \/ ItemQuantityChanged \/ CheckOut \/ CheckOutTooSoon \/ SubmitForm
    BY <2>3 DEF GoForwardToOrder, ItemQuantityChanged, CheckOut, CheckOutTooSoon, SubmitForm, Mishap, history
  <2>4. CASE Reload
    <3>1. Mishap("loss", requests # <<>>) /\ UNCHANGED history
      BY <2>4 DEF Reload
    <3> QED BY <3>1 DEF Mishap, history
  <2> QED BY <1>2, <2>1, <2>2, <2>3, <2>4 DEF UserStep
<1>3. ASSUME NEW i \in DOMAIN requests, Serve(i) \/ Lose(i) \/ Callback(i)
      PROVE  /\ mishaps \subseteq mishaps'
             /\ orders' = orders \/ \E j \in DOMAIN requests : Serve(j)
  <2>1. CASE Serve(i)
    BY <2>1 DEF Serve, Mishap
  <2>2. CASE Lose(i) \/ Refused(i)
    BY <2>2 DEF Lose, Refused, CallFails, Mishap, history
  <2>3. ASSUME NEW then, Answered(i, then)
        PROVE  mishaps \subseteq mishaps' /\ orders' = orders
    BY <2>3 DEF Answered, Mishap, history
  <2>4. CASE \E then : Answered(i, then)
    BY <2>3, <2>4
  <2> QED BY <1>3, <2>1, <2>2, <2>4
      DEF Callback, Loaded, BadgeArrives, PageArrives, BasketChanged, CheckedOut, Submitted
<1>4. CASE OrderStarts
  BY <1>4 DEF OrderStarts, Mishap, history
<1> QED BY <1>1, <1>2, <1>3, <1>4 DEF SpaNext

LEMMA CalmStep ==
  ASSUME TypeInv, TypeInv', CalmNow, Undisturbed', [SpaNext]_spaVars
  PROVE  CalmNow'
<1>1. CASE UNCHANGED spaVars
  BY <1>1 DEF spaVars, tab, component, services, CalmNow
<1>2. CASE UserStep
  <2>1. ~GoForwardToOrder
    <3>1. ~Mishap("history", TRUE)
      BY NotYet
    <3> QED BY <3>1 DEF GoForwardToOrder
  <2> QED BY <2>1, <1>2, AddToCartCalm, DeleteItemCalm, NavigateCalm, ItemQuantityChangedCalm, CheckOutCalm,
             CheckOutTooSoonCalm, SubmitFormCalm, ReloadCalm
      DEF UserStep
<1>3. ASSUME NEW i \in DOMAIN requests, Serve(i) \/ Lose(i) \/ Callback(i) PROVE CalmNow'
  <2>1. ~Lose(i)
    <3>1. ~Mishap("loss", TRUE)
      BY NotYet
    <3> QED BY <3>1 DEF Lose
  <2> QED BY <1>3, <2>1, ServeCalm, LoadedCalm, BadgeArrivesCalm, PageArrivesCalm, BasketChangedCalm,
             CheckedOutCalm, SubmittedCalm, RefusedCalm
      DEF Callback
<1> QED BY <1>1, <1>2, <1>3, OrderStartsCalm DEF SpaNext

LEMMA CalmInit == SpaInit => CalmInv
<1> SUFFICES ASSUME SpaInit PROVE CalmInv
  OBVIOUS
<1>1. requests = Start /\ shown = None /\ page = "catalog" /\ summary = {} /\ orders = <<>>
  BY DEF SpaInit
<1> QED BY <1>1, CalmStart DEF CalmInv, CalmNow, AsListed

LEMMA CalmNext == TypeInv /\ TypeInv' /\ CalmInv /\ [SpaNext]_spaVars => CalmInv'
<1> SUFFICES ASSUME TypeInv, TypeInv', CalmInv, [SpaNext]_spaVars, Undisturbed'
             PROVE  CalmNow' /\ AsListed'
  BY DEF CalmInv
<1>1. CalmNow /\ AsListed
  BY Remembered DEF CalmInv, Undisturbed, Spared
<1>2. CalmNow'
  BY <1>1, CalmStep
<1>3. AsListed'
  <2>1. CASE orders' = orders
    BY <1>1, <2>1 DEF AsListed
  <2>2. CASE \E i \in DOMAIN requests : Serve(i)
    BY <1>1, <2>2, ServeListed
  <2> QED BY <2>1, <2>2, Remembered
<1> QED BY <1>2, <1>3

\* Unless a request overtakes another or is lost, or the order page is opened from the browser's
\* history, what Basket.API takes for the order is what the order page listed when the user
\* placed it, whatever else the user did meanwhile in the tab.
THEOREM OrdersAreAsListedCorrect == SpaSpec => []OrdersAreAsListed
<1>1. CalmInv => OrdersAreAsListed
  BY DEF CalmInv, Undisturbed, AsListed, OrdersAreAsListed
<1> QED BY <1>1, SpaTypeInit, SpaTypeNext, CalmInit, CalmNext, PTL DEF SpaSpec

---------------------------------------------------------------------------
(***************************************************************************)
(* Tab and server agree.  t are the lines the tab holds once its basket    *)
(* has been loaded, and the server will hold them too.                     *)
(***************************************************************************)
\* What the server may hold for them.
Like(t) == {t} \cup (IF t = {} THEN {NoBasket} ELSE {})

\* After a checkout the tab has still to empty its basket.
Limbo(rs) == \E i \in DOMAIN rs : rs[i].then = "submit" /\ rs[i].stage = "answered"

\* The badge will be brought up to date.
Tells(r) == r.then \in {"badge", "change", "drop"}

\* Which calls wait for which answers.
Kind(r) ==
    /\ (r.call = "GET") <=> (r.then \in {"load", "badge", "page"})
    /\ (r.call = "checkout") <=> (r.then = "submit")
    /\ r.stage = "failed" => r.then = "submit"

\* The badge counts the lines, or the last request that tells it will make it do so.
BadgeOK(rs, s, bd, t) ==
    \/ bd = Cardinality(t) /\ \A i \in DOMAIN rs : ~Tells(rs[i])
    \/ \E i \in DOMAIN rs :
          /\ Tells(rs[i])
          /\ \A j \in DOMAIN rs : i < j => ~Tells(rs[j])
          /\ rs[i].then = "badge" =>
                IF rs[i].stage = "answered" THEN rs[i].lines = t ELSE Ends(rs, s, i, Like(t))

RequestAgrees(rs, sh, pg, wr, t, i) ==
    /\ Kind(rs[i])
    /\ rs[i].then = "load" =>
          i = 1 /\ sh = None /\ pg # "order" /\ wr = None /\ (rs[i].stage = "answered" => rs[i].lines = t)
    /\ LivePage(rs[i]) => sh = None /\ (rs[i].stage = "answered" => Limbo(rs) \/ rs[i].lines = t)
    /\ rs[i].then = "submit" => sh = None

PairAgrees(rs, i, j) ==
    /\ rs[i].then = "load" => rs[j].call = "GET"
    /\ LivePage(rs[i]) /\ rs[j].then = "submit" => j < i
    /\ LivePage(rs[i]) /\ LivePage(rs[j]) => i = j
    /\ LivePage(rs[i]) /\ i < j => ~Sending(rs[j])

Agree(rs, s, h, l, sh, pg, wr, t) ==
    /\ l # None
    /\ (\A i \in DOMAIN rs : rs[i].then # "load") => h[l] = t
    /\ sh # None => h[sh] = h[l]
    /\ Limbo(rs) \/ Ends(rs, s, Len(rs), Like(t))
    /\ \A i \in DOMAIN rs : RequestAgrees(rs, sh, pg, wr, t, i)
    /\ \A i, j \in DOMAIN rs : PairAgrees(rs, i, j)

AgreeNow(t) ==
    /\ Agree(requests, stored, heap, local, shown, page, wrapped, t)
    /\ Limbo(requests) \/ BadgeOK(requests, stored, badge, t)

Steady == Spared({"early", "blank", "overtaken", "loss", "late"})

\* Each request that is left was there, in the same order.
LEMMA WasThere ==
  ASSUME NEW rs \in Seq(Requests), NEW i \in DOMAIN rs, NEW less, less = RemoveAt(rs, i)
  PROVE  \E at \in [DOMAIN less -> DOMAIN rs] :
            /\ \A j \in DOMAIN less : at[j] # i /\ less[j] = rs[at[j]] /\ j <= at[j]
            /\ \A j, k \in DOMAIN less : at[j] < at[k] <=> j < k
            /\ \A m \in DOMAIN rs : m # i => \E j \in DOMAIN less : at[j] = m
            /\ \A j \in DOMAIN less : at[j] = IF j < i THEN j ELSE j + 1
<1> DEFINE N == Len(rs)
           at == [j \in 1 .. N - 1 |-> IF j < i THEN j ELSE j + 1]
<1>1. /\ N \in Nat /\ i \in 1 .. N /\ DOMAIN rs = 1 .. N /\ DOMAIN less = 1 .. N - 1
      /\ \A j \in 1 .. N - 1 : less[j] = IF j < i THEN rs[j] ELSE rs[j + 1]
  BY Removed
<1> HIDE DEF N
<1>2. at \in [DOMAIN less -> DOMAIN rs]
  BY <1>1
<1>3. \A j \in DOMAIN less : at[j] = IF j < i THEN j ELSE j + 1
  BY <1>1
<1> HIDE DEF at
<1>4. \A j \in DOMAIN less : at[j] # i /\ less[j] = rs[at[j]] /\ j <= at[j]
  BY <1>1, <1>3
<1>5. \A j, k \in DOMAIN less : at[j] < at[k] <=> j < k
  BY <1>1, <1>3
<1>6. ASSUME NEW m \in DOMAIN rs, m # i PROVE \E j \in DOMAIN less : at[j] = m
  <2>1. CASE m < i
    <3>1. m \in DOMAIN less
      BY <1>1, <2>1
    <3> QED BY <1>3, <2>1, <3>1
  <2>2. CASE m > i
    <3>1. m - 1 \in DOMAIN less /\ ~(m - 1 < i) /\ (m - 1) + 1 = m
      BY <1>1, <2>2
    <3> QED BY <1>3, <3>1
  <2> QED BY <1>1, <1>6, <2>1, <2>2
<1> QED BY <1>2, <1>3, <1>4, <1>5, <1>6

\* A request that brings no limbo to an end leaves the list.
LEMMA AgreeRemoved ==
  ASSUME NEW rs \in Seq(Requests), NEW s, NEW h, NEW l, NEW sh, NEW pg, NEW wr, NEW t,
         Agree(rs, s, h, l, sh, pg, wr, t), NEW i \in DOMAIN rs, ~Sending(rs[i]),
         ~(rs[i].then = "submit" /\ rs[i].stage = "answered"),
         rs[i].then = "load" => h[l] = t,
         NEW less, less = RemoveAt(rs, i)
  PROVE  Agree(less, s, h, l, sh, pg, wr, t) /\ (Limbo(rs) <=> Limbo(less))
<1>1. PICK at \in [DOMAIN less -> DOMAIN rs] :
          /\ \A j \in DOMAIN less : at[j] # i /\ less[j] = rs[at[j]] /\ j <= at[j]
          /\ \A j, k \in DOMAIN less : at[j] < at[k] <=> j < k
          /\ \A m \in DOMAIN rs : m # i => \E j \in DOMAIN less : at[j] = m
  BY WasThere
<1>2. DOMAIN rs = 1 .. Len(rs) /\ DOMAIN less \subseteq Nat \ {0}
  BY RemovedDomain
<1>3. Limbo(rs) <=> Limbo(less)
  <2>1. Limbo(less) => Limbo(rs)
    BY <1>1 DEF Limbo
  <2>2. ASSUME NEW m \in DOMAIN rs, rs[m].then = "submit", rs[m].stage = "answered" PROVE Limbo(less)
    <3>1. PICK j \in DOMAIN less : at[j] = m
      BY <1>1, <2>2
    <3> QED BY <1>1, <2>2, <3>1 DEF Limbo
  <2> QED BY <2>1, <2>2 DEF Limbo
<1>4. Limbo(less) \/ Ends(less, s, Len(less), Like(t))
  BY <1>3, EndsTaken DEF Agree
<1>5. (\A j \in DOMAIN less : less[j].then # "load") => h[l] = t
  <2> SUFFICES ASSUME \A j \in DOMAIN less : less[j].then # "load", rs[i].then # "load" PROVE h[l] = t
    OBVIOUS
  <2>1. ASSUME NEW m \in DOMAIN rs PROVE rs[m].then # "load"
    <3>1. CASE m = i
      BY <3>1
    <3>2. CASE m # i
      <4>1. PICK j \in DOMAIN less : at[j] = m
        BY <1>1, <3>2
      <4> QED BY <1>1, <4>1
    <3> QED BY <3>1, <3>2
  <2> QED BY <2>1 DEF Agree
<1>6. ASSUME NEW j \in DOMAIN less PROVE RequestAgrees(less, sh, pg, wr, t, j)
  <2> DEFINE a == at[j]
  <2>1. a \in DOMAIN rs /\ less[j] = rs[a] /\ (a = 1 => j = 1)
    BY <1>1, <1>2
  <2> HIDE DEF a
  <2>2. RequestAgrees(rs, sh, pg, wr, t, a)
    BY <2>1 DEF Agree
  <2> QED BY <1>3, <2>1, <2>2 DEF RequestAgrees
<1>7. ASSUME NEW j \in DOMAIN less, NEW k \in DOMAIN less PROVE PairAgrees(less, j, k)
  <2> DEFINE a == at[j]
             b == at[k]
  <2>1. a \in DOMAIN rs /\ less[j] = rs[a] /\ b \in DOMAIN rs /\ less[k] = rs[b]
    BY <1>1
  <2>2. /\ a < b <=> j < k
        /\ b < a <=> k < j
    BY <1>1
  <2>3. a = b => j = k
    <3>1. ~(j < k) /\ ~(k < j) => j = k
      BY <1>2
    <3>2. a = b => ~(a < b) /\ ~(b < a)
      BY <1>2, <2>1
    <3> QED BY <2>2, <3>1, <3>2
  <2> HIDE DEF a, b
  <2>4. PairAgrees(rs, a, b)
    BY <2>1 DEF Agree
  <2> QED BY <2>1, <2>2, <2>3, <2>4 DEF PairAgrees
<1>8. l # None /\ (sh # None => h[sh] = h[l])
  BY DEF Agree
<1> QED BY <1>3, <1>4, <1>5, <1>6, <1>7, <1>8 DEF Agree

\* The badge is as good as before when a request is gone that does not tell.
LEMMA BadgeRemoved ==
  ASSUME NEW rs \in Seq(Requests), NEW s, NEW bd, NEW t, BadgeOK(rs, s, bd, t),
         NEW i \in DOMAIN rs, ~Tells(rs[i]), ~Sending(rs[i]), NEW less, less = RemoveAt(rs, i)
  PROVE  BadgeOK(less, s, bd, t)
<1> DEFINE N == Len(rs)
<1>1. PICK at \in [DOMAIN less -> DOMAIN rs] :
          /\ \A j \in DOMAIN less : at[j] # i /\ less[j] = rs[at[j]] /\ j <= at[j]
          /\ \A j, k \in DOMAIN less : at[j] < at[k] <=> j < k
          /\ \A m \in DOMAIN rs : m # i => \E j \in DOMAIN less : at[j] = m
          /\ \A j \in DOMAIN less : at[j] = IF j < i THEN j ELSE j + 1
  BY WasThere
<1>r. /\ N \in Nat /\ i \in 1 .. N /\ DOMAIN rs = 1 .. N /\ DOMAIN less = 1 .. N - 1
  BY Removed
<1>2. CASE bd = Cardinality(t) /\ \A j \in DOMAIN rs : ~Tells(rs[j])
  BY <1>1, <1>2 DEF BadgeOK
<1>3. ASSUME NEW m \in DOMAIN rs, Tells(rs[m]), \A j \in DOMAIN rs : m < j => ~Tells(rs[j]),
             rs[m].then = "badge" =>
                IF rs[m].stage = "answered" THEN rs[m].lines = t ELSE Ends(rs, s, m, Like(t))
      PROVE  BadgeOK(less, s, bd, t)
  <2>1. PICK k \in DOMAIN less : at[k] = m
    BY <1>1, <1>3
  <2>2. less[k] = rs[m] /\ \A j \in DOMAIN less : k < j => ~Tells(less[j])
    BY <1>1, <1>3, <2>1
  <2>3. Ends(rs, s, m, Like(t)) => Ends(less, s, k, Like(t))
    <3>1. /\ N \in Nat /\ i \in 1 .. N /\ DOMAIN less = 1 .. N - 1 /\ m \in 1 .. N
      BY <1>r
    <3>2. k \in 0 .. N - 1 /\ m = (IF k < i THEN k ELSE k + 1)
      BY <1>1, <2>1, <3>1
    <3>3. Ends(rs, s, m, Like(t)) => Ends(rs, s, IF k < i THEN k ELSE k + 1, Like(t))
      BY <3>2
    <3> HIDE DEF N
    <3> QED BY <3>2, <3>3, EndsRemoved DEF N
  <2> QED BY <1>3, <2>2, <2>3 DEF BadgeOK
<1> QED BY <1>2, <1>3 DEF BadgeOK

\* The badge is set.
LEMMA BadgeTaken ==
  ASSUME NEW rs \in Seq(Requests), NEW s, NEW bd, NEW t, BadgeOK(rs, s, bd, t), 1 \in DOMAIN rs,
         rs[1].then = "badge", rs[1].stage = "answered", NEW less, less = RemoveAt(rs, 1),
         NEW bd2, bd2 = Cardinality(rs[1].lines)
  PROVE  BadgeOK(less, s, bd2, t)
<1> DEFINE N == Len(rs)
<1>0. Tells(rs[1])
  BY DEF Tells
<1>1. /\ N \in Nat /\ 1 \in 1 .. N /\ DOMAIN rs = 1 .. N /\ DOMAIN less = 1 .. N - 1
      /\ \A j \in 1 .. N - 1 : less[j] = rs[j + 1]
  BY Removed
<1>2. PICK m \in DOMAIN rs : /\ Tells(rs[m]) /\ \A j \in DOMAIN rs : m < j => ~Tells(rs[j])
                             /\ rs[m].then = "badge" =>
                                   IF rs[m].stage = "answered" THEN rs[m].lines = t ELSE Ends(rs, s, m, Like(t))
  BY <1>0 DEF BadgeOK
<1> HIDE DEF N
<1>3. CASE m = 1
  <2>1. \A j \in DOMAIN less : ~Tells(less[j])
    <3> SUFFICES ASSUME NEW j \in DOMAIN less PROVE ~Tells(less[j])
      OBVIOUS
    <3>1. j + 1 \in DOMAIN rs /\ 1 < j + 1
      BY <1>1
    <3> QED BY <1>1, <1>2, <1>3, <3>1
  <2>2. bd2 = Cardinality(t)
    <3>1. rs[1].lines = t
      BY <1>2, <1>3
    <3> QED BY <3>1
  <2> QED BY <2>1, <2>2 DEF BadgeOK
<1>4. CASE m # 1
  <2> DEFINE k == m - 1
  <2>1. k \in DOMAIN less /\ k + 1 = m /\ ~(k < 1) /\ k \in 0 .. N - 1
    BY <1>1, <1>4
  <2> HIDE DEF k
  <2>2. less[k] = rs[m] /\ \A j \in DOMAIN less : k < j => ~Tells(less[j])
    <3>1. \A j \in DOMAIN less : k < j => j + 1 \in DOMAIN rs /\ m < j + 1
      BY <1>1, <2>1
    <3> QED BY <1>1, <1>2, <2>1, <3>1
  <2>3. Ends(rs, s, m, Like(t)) => Ends(less, s, k, Like(t))
    <3>1. ~Sending(rs[1])
      BY DEF Sending
    <3>2. Ends(rs, s, m, Like(t)) => Ends(rs, s, IF k < 1 THEN k ELSE k + 1, Like(t))
      BY <2>1
    <3>3. k \in 0 .. Len(rs) - 1
      BY <2>1 DEF N
    <3> QED BY <3>1, <3>2, <3>3, EndsRemoved
  <2> QED BY <1>2, <2>1, <2>2, <2>3 DEF BadgeOK
<1> QED BY <1>3, <1>4

\* The objects that matter keep their lines.
LEMMA AgreeHeap ==
  ASSUME NEW rs, NEW s, NEW h, NEW l, NEW sh, NEW pg, NEW wr, NEW t, Agree(rs, s, h, l, sh, pg, wr, t),
         NEW h2, h2[l] = h[l] \/ h2[l] = t, sh # None => h2[sh] = h2[l]
  PROVE  Agree(rs, s, h2, l, sh, pg, wr, t)
BY DEF Agree

\* The components change, and with them what the requests call back.
LEMMA AgreeRelabelled ==
  ASSUME NEW rs \in Seq(Requests), NEW s, NEW h, NEW l, NEW sh, NEW pg, NEW wr, NEW t,
         Agree(rs, s, h, l, sh, pg, wr, t), NEW new, NEW pg2, NEW bd,
         pg2 = "order" => \A i \in DOMAIN rs : rs[i].then # "load",
         Len(new) = Len(rs), DOMAIN new = DOMAIN rs,
         \A i \in DOMAIN rs : /\ new[i].call = rs[i].call /\ new[i].then = rs[i].then
                              /\ new[i].lines = rs[i].lines /\ new[i].of = rs[i].of
                              /\ new[i].stage = rs[i].stage /\ ~new[i].live
  PROVE  /\ Agree(new, s, h, l, None, pg2, wr, t)
         /\ Limbo(new) <=> Limbo(rs)
         /\ BadgeOK(rs, s, bd, t) => BadgeOK(new, s, bd, t)
<1> DEFINE N == Len(rs)
<1>1. N \in Nat /\ DOMAIN rs = 1 .. N
  OBVIOUS
<1>2. \A n \in 0 .. N : \A c : Ends(rs, s, n, c) => Ends(new, s, n, c)
  <2> SUFFICES ASSUME NEW n \in 0 .. N, NEW c, Ends(rs, s, n, c) PROVE Ends(new, s, n, c)
    OBVIOUS
  <2>1. \A j \in 1 .. n : j \in DOMAIN rs
    BY <1>1
  <2>2. \A j \in 1 .. n : /\ Sending(new[j]) <=> Sending(rs[j])
                          /\ Sending(rs[j]) => new[j].lines = rs[j].lines
    BY <2>1 DEF Sending
  <2> QED BY <1>1, <2>2, EndsRelabelled
<1>3. Limbo(new) <=> Limbo(rs)
  BY DEF Limbo
<1>4. \A i \in DOMAIN rs : ~LivePage(new[i])
  BY DEF LivePage
<1>5. \A i \in DOMAIN rs : i \in 0 .. N
  BY <1>1
<1>6. Limbo(new) \/ Ends(new, s, Len(new), Like(t))
  <2>1. N \in 0 .. N
    BY <1>1
  <2> QED BY <1>2, <1>3, <2>1 DEF Agree
<1>7. ASSUME NEW i \in DOMAIN new PROVE RequestAgrees(new, None, pg2, wr, t, i)
  <2>1. RequestAgrees(rs, sh, pg, wr, t, i)
    BY DEF Agree
  <2> QED BY <1>4, <2>1 DEF RequestAgrees, Kind
<1>8. ASSUME NEW i \in DOMAIN new, NEW j \in DOMAIN new PROVE PairAgrees(new, i, j)
  <2>1. PairAgrees(rs, i, j)
    BY DEF Agree
  <2> QED BY <1>4, <2>1 DEF PairAgrees
<1>9. l # None /\ ((\A i \in DOMAIN new : new[i].then # "load") => h[l] = t)
  BY DEF Agree
<1>10. BadgeOK(rs, s, bd, t) => BadgeOK(new, s, bd, t)
  BY <1>2, <1>5 DEF BadgeOK, Tells
<1> QED BY <1>3, <1>6, <1>7, <1>8, <1>9, <1>10 DEF Agree

\* A request is sent that is no POST.
LEMMA AgreeAppended ==
  ASSUME NEW rs \in Seq(Requests), NEW s, NEW h, NEW l, NEW sh, NEW pg, NEW wr, NEW t,
         Agree(rs, s, h, l, sh, pg, wr, t), NEW r \in Requests, Kind(r), r.stage = "sent",
         r.call # "POST", r.then # "load",
         LivePage(r) => sh = None /\ \A i \in DOMAIN rs : ~LivePage(rs[i]),
         r.then = "submit" => sh = None /\ \A i \in DOMAIN rs : ~LivePage(rs[i]) /\ rs[i].then # "load",
         NEW bd
  PROVE  /\ Agree(Append(rs, r), s, h, l, sh, pg, wr, t)
         /\ Limbo(Append(rs, r)) <=> Limbo(rs)
         /\ ~Tells(r) /\ BadgeOK(rs, s, bd, t) => BadgeOK(Append(rs, r), s, bd, t)
         /\ r.then = "badge" /\ ~Limbo(rs) => BadgeOK(Append(rs, r), s, bd, t)
<1> DEFINE more == Append(rs, r)
           N    == Len(rs)
<1>1. /\ N \in Nat /\ DOMAIN rs = 1 .. N /\ Len(more) = N + 1 /\ DOMAIN more = 1 .. N + 1
      /\ more[N + 1] = r /\ \A i \in 1 .. N : more[i] = rs[i]
  OBVIOUS
<1>2. ~Sending(r)
  BY DEF Sending
<1>3. /\ \A n \in 0 .. N : \A c : Ends(rs, s, n, c) => Ends(more, s, n, c)
      /\ \A c : Ends(rs, s, N, c) => Ends(more, s, N + 1, c)
  BY <1>1, <1>2, EndsAppended
<1> HIDE DEF more
<1>4. \A i \in DOMAIN more : i = N + 1 \/ (i \in DOMAIN rs /\ more[i] = rs[i] /\ i < N + 1)
  BY <1>1
<1>5. Limbo(more) <=> Limbo(rs)
  <2>1. Limbo(more) => Limbo(rs)
    BY <1>1, <1>4 DEF Limbo
  <2>2. Limbo(rs) => Limbo(more)
    BY <1>1 DEF Limbo
  <2> QED BY <2>1, <2>2
<1>6. Limbo(more) \/ Ends(more, s, Len(more), Like(t))
  BY <1>1, <1>3, <1>5 DEF Agree
<1>7. ASSUME NEW i \in DOMAIN more PROVE RequestAgrees(more, sh, pg, wr, t, i)
  <2>1. CASE i = N + 1
    <3>1. more[i] = r
      BY <1>1, <2>1
    <3> QED BY <3>1 DEF RequestAgrees
  <2>2. CASE i \in DOMAIN rs /\ more[i] = rs[i]
    <3>1. RequestAgrees(rs, sh, pg, wr, t, i)
      BY <2>2 DEF Agree
    <3> QED BY <1>5, <2>2, <3>1 DEF RequestAgrees
  <2> QED BY <1>4, <2>1, <2>2
<1>8. ASSUME NEW i \in DOMAIN more, NEW j \in DOMAIN more PROVE PairAgrees(more, i, j)
  <2>1. CASE i \in DOMAIN rs /\ j \in DOMAIN rs
    <3>1. PairAgrees(rs, i, j) /\ more[i] = rs[i] /\ more[j] = rs[j]
      BY <1>1, <2>1 DEF Agree
    <3> QED BY <3>1 DEF PairAgrees
  <2>2. CASE i = N + 1
    <3>1. more[i] = r /\ ~(i < j) /\ (j = i \/ (j < i /\ j \in DOMAIN rs /\ more[j] = rs[j]))
      BY <1>1, <1>4, <2>2
    <3>2. LivePage(r) => r.then # "submit"
      BY DEF LivePage
    <3> QED BY <3>1, <3>2 DEF PairAgrees
  <2>3. CASE i \in DOMAIN rs /\ more[i] = rs[i] /\ j = N + 1
    <3>1. more[j] = r
      BY <1>1, <2>3
    <3>2. rs[i].then = "load" => r.call = "GET"
      BY <2>3 DEF Kind, Requests
    <3> QED BY <1>2, <2>3, <3>1, <3>2 DEF PairAgrees
  <2> QED BY <1>4, <2>1, <2>2, <2>3
<1>9. l # None /\ (sh # None => h[sh] = h[l]) /\ ((\A i \in DOMAIN more : more[i].then # "load") => h[l] = t)
  BY <1>1 DEF Agree
<1>10. ~Tells(r) /\ BadgeOK(rs, s, bd, t) => BadgeOK(more, s, bd, t)
  <2> SUFFICES ASSUME ~Tells(r), BadgeOK(rs, s, bd, t) PROVE BadgeOK(more, s, bd, t)
    OBVIOUS
  <2>1. CASE bd = Cardinality(t) /\ \A i \in DOMAIN rs : ~Tells(rs[i])
    <3>1. \A i \in DOMAIN more : ~Tells(more[i])
      BY <1>1, <1>4, <2>1
    <3> QED BY <2>1, <3>1 DEF BadgeOK
  <2>2. ASSUME NEW m \in DOMAIN rs, Tells(rs[m]), \A j \in DOMAIN rs : m < j => ~Tells(rs[j]),
               rs[m].then = "badge" =>
                  IF rs[m].stage = "answered" THEN rs[m].lines = t ELSE Ends(rs, s, m, Like(t))
        PROVE  BadgeOK(more, s, bd, t)
    <3>1. m \in DOMAIN more /\ more[m] = rs[m] /\ m \in 0 .. N
      BY <1>1
    <3>2. \A j \in DOMAIN more : m < j => ~Tells(more[j])
      BY <1>1, <1>4, <2>2
    <3>3. Ends(rs, s, m, Like(t)) => Ends(more, s, m, Like(t))
      BY <1>3, <3>1
    <3> QED BY <2>2, <3>1, <3>2, <3>3 DEF BadgeOK
  <2> QED BY <2>1, <2>2 DEF BadgeOK
<1>11. r.then = "badge" /\ ~Limbo(rs) => BadgeOK(more, s, bd, t)
  <2> SUFFICES ASSUME r.then = "badge", ~Limbo(rs) PROVE BadgeOK(more, s, bd, t)
    OBVIOUS
  <2>1. N + 1 \in DOMAIN more /\ \A j \in DOMAIN more : ~(N + 1 < j)
    BY <1>1
  <2>2. Ends(more, s, N + 1, Like(t))
    BY <1>1, <1>5, <1>6
  <2>3. Tells(more[N + 1])
    BY <1>1 DEF Tells
  <2> QED BY <1>1, <2>1, <2>2, <2>3 DEF BadgeOK
<1> QED BY <1>5, <1>6, <1>7, <1>8, <1>9, <1>10, <1>11 DEF Agree, more

\* r is the request q with its answer, which makes the server's basket s2 out of s.
AnswerTo(q, r, s, s2) ==
    /\ r.stage # "sent" /\ r.call = q.call /\ r.then = q.then /\ r.live = q.live
    /\ r.call = "GET" => r.lines = IF s = NoBasket THEN {} ELSE s
    /\ r.stage = "failed" => r.call = "checkout"
    /\ IF q.call = "POST" THEN s2 = q.lines ELSE s2 = s

\* The first request of those the network still carries is served.
LEMMA AgreeAnswered ==
  ASSUME NEW rs \in Seq(Requests), NEW s, NEW h, NEW l, NEW sh, NEW pg, NEW wr, NEW t, t # NoBasket,
         Agree(rs, s, h, l, sh, pg, wr, t), NEW i \in DOMAIN rs, rs[i].stage = "sent",
         \A j \in 1 .. i - 1 : rs[j].stage # "sent",
         NEW s2, NEW r \in Requests, AnswerTo(rs[i], r, s, s2),
         NEW new \in Seq(Requests), Len(new) = Len(rs), new[i] = r, \A j \in DOMAIN rs : j # i => new[j] = rs[j]
  PROVE  /\ Agree(new, s2, h, l, sh, pg, wr, t)
         /\ Limbo(rs) => Limbo(new)
         /\ \A bd : ~Limbo(rs) /\ BadgeOK(rs, s, bd, t) => BadgeOK(new, s2, bd, t)
<1> USE DEF AnswerTo
<1> DEFINE N == Len(rs)
<1>1. N \in Nat /\ DOMAIN rs = 1 .. N /\ rs[i] \in Requests
  OBVIOUS
<1>2. r.stage \in {"answered", "failed"}
  BY RequestType
<1>3. /\ Len(new) = N /\ DOMAIN new = 1 .. N /\ new[i] = r
      /\ \A j \in 1 .. N : j # i => new[j] = rs[j]
  BY <1>1
<1>4. ~Sending(new[i]) /\ (Sending(rs[i]) <=> rs[i].call = "POST")
  BY <1>3 DEF Sending
<1>5. \A n \in i .. N : \A c : Ends(rs, s, n, c) => Ends(new, s2, n, c)
  <2> SUFFICES ASSUME NEW n \in i .. N, NEW c, Ends(rs, s, n, c) PROVE Ends(new, s2, n, c)
    OBVIOUS
  <2>1. n \in Nat /\ i \in 1 .. n
    BY <1>1
  <2>2. \A j \in 1 .. n : j # i => new[j] = rs[j]
    BY <1>1, <1>3
  <2>3. CASE rs[i].call = "POST"
    <3>1. \A j \in 1 .. i - 1 : ~Sending(rs[j])
      BY DEF Sending
    <3>2. Ends(new, rs[i].lines, n, c)
      BY <1>4, <2>1, <2>2, <2>3, <3>1, EndsServed
    <3> QED BY <2>3, <3>2
  <2>4. CASE rs[i].call # "POST"
    <3>1. \A j \in 1 .. n : (Sending(new[j]) <=> Sending(rs[j])) /\ (Sending(rs[j]) => new[j].lines = rs[j].lines)
      <4> SUFFICES ASSUME NEW j \in 1 .. n
                   PROVE  (Sending(new[j]) <=> Sending(rs[j])) /\ (Sending(rs[j]) => new[j].lines = rs[j].lines)
        OBVIOUS
      <4>1. CASE j = i
        BY <1>4, <2>4, <4>1
      <4>2. CASE j # i
        BY <2>2, <4>2
      <4> QED BY <4>1, <4>2
    <3>2. Ends(new, s, n, c)
      BY <2>1, <3>1, EndsRelabelled
    <3> QED BY <2>4, <3>2
  <2> QED BY <2>3, <2>4
<1>6. \A j \in DOMAIN new : j \in DOMAIN rs /\ new[j].then = rs[j].then
                           /\ new[j].call = rs[j].call /\ (LivePage(new[j]) <=> LivePage(rs[j]))
                           /\ (Tells(new[j]) <=> Tells(rs[j])) /\ (Sending(new[j]) => Sending(rs[j]))
                           /\ (j = i \/ new[j] = rs[j])
  <2> SUFFICES ASSUME NEW j \in DOMAIN new
               PROVE  j \in DOMAIN rs /\ new[j].then = rs[j].then
                      /\ new[j].call = rs[j].call /\ (LivePage(new[j]) <=> LivePage(rs[j]))
                      /\ (Tells(new[j]) <=> Tells(rs[j])) /\ (Sending(new[j]) => Sending(rs[j]))
                      /\ (j = i \/ new[j] = rs[j])
    OBVIOUS
  <2>1. CASE j = i
    BY <1>1, <1>3, <1>4, <2>1 DEF LivePage, Tells
  <2>2. CASE j # i
    BY <1>1, <1>3, <2>2
  <2> QED BY <2>1, <2>2
<1>7. Limbo(rs) => Limbo(new)
  <2> SUFFICES ASSUME NEW j \in DOMAIN rs, rs[j].then = "submit", rs[j].stage = "answered" PROVE Limbo(new)
    BY DEF Limbo
  <2>1. j # i
    OBVIOUS
  <2> QED BY <1>1, <1>3, <2>1 DEF Limbo
<1>8. Limbo(new) \/ Ends(new, s2, Len(new), Like(t))
  <2>1. N \in i .. N
    BY <1>1
  <2> QED BY <1>3, <1>5, <1>7, <2>1 DEF Agree
\* What a GET reads, when no POST comes before it.
<1>9. ASSUME NEW n \in i .. N, rs[i].call = "GET", Ends(rs, s, n, Like(t)),
             \A j \in 1 .. n : j > i => ~Sending(rs[j])
      PROVE  r.lines = t
  <2>1. \A j \in 1 .. n : ~Sending(rs[j])
    <3> SUFFICES ASSUME NEW j \in 1 .. n PROVE ~Sending(rs[j])
      OBVIOUS
    <3>1. CASE j < i
      BY <1>1, <3>1 DEF Sending
    <3>2. CASE j = i
      BY <1>9, <3>2 DEF Sending
    <3>3. CASE j > i
      BY <1>9, <3>3
    <3> QED BY <1>1, <3>1, <3>2, <3>3
  <2>2. s \in Like(t)
    BY <1>9, <2>1 DEF Ends
  <2>3. s = t \/ (t = {} /\ s = NoBasket)
    BY <2>2 DEF Like
  <2>4. r.lines = IF s = NoBasket THEN {} ELSE s
    BY <1>9
  <2>5. CASE s = t
    BY <2>4, <2>5
  <2>6. CASE t = {} /\ s = NoBasket
    BY <2>4, <2>6
  <2> QED BY <2>3, <2>5, <2>6
<1>10. LivePage(rs[i]) => Limbo(new) \/ r.lines = t
  <2> SUFFICES ASSUME LivePage(rs[i]), ~Limbo(rs) PROVE r.lines = t
    BY <1>7
  <2>1. Ends(rs, s, N, Like(t)) /\ N \in i .. N
    BY <1>1 DEF Agree
  <2>2. rs[i].call = "GET"
    <3>1. Kind(rs[i]) /\ rs[i].then = "page"
      BY DEF Agree, RequestAgrees, LivePage
    <3> QED BY <3>1 DEF Kind
  <2>3. ASSUME NEW j \in 1 .. N, j > i PROVE ~Sending(rs[j])
    <3>1. PairAgrees(rs, i, j) /\ i < j
      BY <1>1, <2>3 DEF Agree
    <3> QED BY <3>1 DEF PairAgrees
  <2> HIDE DEF N
  <2> QED BY <1>9, <2>1, <2>2, <2>3
<1>11. rs[i].then = "load" => r.lines = t
  <2> SUFFICES ASSUME rs[i].then = "load" PROVE r.lines = t
    OBVIOUS
  <2>1. \A j \in DOMAIN rs : rs[j].call = "GET" /\ Kind(rs[j])
    BY DEF Agree, PairAgrees, RequestAgrees
  <2>2. ~Limbo(rs) /\ \A j \in 1 .. N : ~Sending(rs[j])
    BY <1>1, <2>1 DEF Limbo, Kind, Sending
  <2>3. Ends(rs, s, N, Like(t)) /\ N \in i .. N /\ rs[i].call = "GET"
    BY <1>1, <2>1, <2>2 DEF Agree
  <2>4. \A j \in 1 .. N : j > i => ~Sending(rs[j])
    BY <2>2
  <2> HIDE DEF N
  <2> QED BY <1>9, <2>3, <2>4
<1>12. ASSUME NEW j \in DOMAIN new PROVE RequestAgrees(new, sh, pg, wr, t, j)
  <2>1. RequestAgrees(rs, sh, pg, wr, t, j)
    BY <1>6 DEF Agree
  <2>2. CASE j = i
    <3>1. new[j] = r
      BY <1>3, <2>2
    <3>2. Kind(new[j])
      BY <1>6, <2>1, <2>2, <3>1 DEF RequestAgrees, Kind
    <3> QED BY <1>6, <1>10, <1>11, <2>1, <2>2, <3>1, <3>2 DEF RequestAgrees
  <2>3. CASE j # i
    <3>1. new[j] = rs[j]
      BY <1>6, <2>3
    <3> QED BY <1>7, <2>1, <3>1 DEF RequestAgrees
  <2> QED BY <2>2, <2>3
<1>13. ASSUME NEW j \in DOMAIN new, NEW k \in DOMAIN new PROVE PairAgrees(new, j, k)
  <2>1. PairAgrees(rs, j, k)
    BY <1>6 DEF Agree
  <2> QED BY <1>6, <2>1 DEF PairAgrees
<1>14. ASSUME NEW bd, ~Limbo(rs), BadgeOK(rs, s, bd, t) PROVE BadgeOK(new, s2, bd, t)
  <2>1. CASE bd = Cardinality(t) /\ \A j \in DOMAIN rs : ~Tells(rs[j])
    BY <1>6, <2>1 DEF BadgeOK
  <2>2. ASSUME NEW m \in DOMAIN rs, Tells(rs[m]), \A j \in DOMAIN rs : m < j => ~Tells(rs[j]),
               rs[m].then = "badge" =>
                  IF rs[m].stage = "answered" THEN rs[m].lines = t ELSE Ends(rs, s, m, Like(t))
        PROVE  BadgeOK(new, s2, bd, t)
    <3>1. /\ m \in DOMAIN new /\ Tells(new[m]) /\ new[m].then = rs[m].then
          /\ \A j \in DOMAIN new : m < j => ~Tells(new[j])
      BY <1>1, <1>3, <1>6, <2>2
    <3>2. ASSUME rs[m].then = "badge"
          PROVE  IF new[m].stage = "answered" THEN new[m].lines = t ELSE Ends(new, s2, m, Like(t))
      <4>1. CASE m = i
        <5>1. Kind(rs[i])
          BY DEF Agree, RequestAgrees
        <5>2. rs[i].call = "GET" /\ r.stage = "answered" /\ Ends(rs, s, i, Like(t)) /\ i \in i .. N
          BY <1>1, <1>2, <2>2, <3>2, <4>1, <5>1 DEF Kind
        <5>3. \A j \in 1 .. i : ~(j > i)
          BY <1>1
        <5>4. r.lines = t
          BY <1>9, <5>2, <5>3
        <5> QED BY <1>3, <4>1, <5>2, <5>4
      <4>2. CASE m # i /\ rs[m].stage = "answered"
        BY <1>1, <1>3, <2>2, <3>2, <4>2
      <4>3. CASE m # i /\ rs[m].stage # "answered"
        <5>1. Ends(rs, s, m, Like(t)) /\ new[m] = rs[m]
          BY <1>1, <1>3, <2>2, <3>2, <4>3
        <5>2. rs[m].stage = "sent"
          <6>1. Kind(rs[m]) /\ rs[m].stage \in {"sent", "answered", "failed"}
            BY RequestType DEF Agree, RequestAgrees
          <6> QED BY <3>2, <4>3, <6>1 DEF Kind
        <5>3. m \in i .. N
          BY <1>1, <4>3, <5>2
        <5> QED BY <1>5, <4>3, <5>1, <5>3
      <4> QED BY <4>1, <4>2, <4>3
    <3> QED BY <3>1, <3>2 DEF BadgeOK
  <2> QED BY <1>14, <2>1, <2>2 DEF BadgeOK
<1>15. l # None /\ (sh # None => h[sh] = h[l]) /\ ((\A j \in DOMAIN new : new[j].then # "load") => h[l] = t)
  BY <1>1, <1>3, <1>6 DEF Agree
<1> QED BY <1>7, <1>8, <1>12, <1>13, <1>14, <1>15 DEF Agree

\* No page and no service waits for the lines of one of the requests.
Plain(rs) == \A i \in DOMAIN rs : Kind(rs[i]) /\ rs[i].then # "load" /\ ~LivePage(rs[i])

NoSubmit(rs) == \A i \in DOMAIN rs : rs[i].then # "submit"

\* What the object x holds is posted, the service's basket from now on.
LEMMA AgreePosted ==
  ASSUME NEW rs \in Seq(Requests), NEW s, NEW sh, NEW pg, NEW wr, NEW bd, NEW h, NEW x,
         x # None, sh \in {None, x}, Plain(rs), sh # None => NoSubmit(rs),
         NEW r \in Requests, Sending(r), Kind(r), NEW t, r.lines = t, h[x] = t
  PROVE  /\ Append(rs, r) \in Seq(Requests) /\ Plain(Append(rs, r))
         /\ NoSubmit(rs) => NoSubmit(Append(rs, r))
         /\ Agree(Append(rs, r), s, h, x, sh, pg, wr, t)
         /\ r.then \in {"change", "drop"} => BadgeOK(Append(rs, r), s, bd, t)
         /\ ~Tells(r) /\ BadgeOK(rs, s, bd, t) => BadgeOK(Append(rs, r), s, bd, t)
<1> DEFINE more == Append(rs, r)
           N    == Len(rs)
<1>1. /\ N \in Nat /\ DOMAIN rs = 1 .. N /\ Len(more) = N + 1 /\ DOMAIN more = 1 .. N + 1
      /\ more[N + 1] = r /\ (\A i \in 1 .. N : more[i] = rs[i]) /\ more \in Seq(Requests)
  OBVIOUS
<1>2. \A n \in 0 .. N : \A c : Ends(rs, s, n, c) => Ends(more, s, n, c)
  BY EndsAppended
<1>3. Ends(more, s, Len(more), Like(t))
  <2>1. r.lines \in Like(t)
    BY DEF Like
  <2> QED BY <2>1, EndsAppended
<1> HIDE DEF more
<1>4. \A i \in DOMAIN more : i = N + 1 \/ (i \in DOMAIN rs /\ more[i] = rs[i] /\ i < N + 1)
  BY <1>1
<1>5. r.then # "load" /\ r.then # "submit" /\ ~LivePage(r)
  BY DEF Kind, LivePage, Sending
<1>6. Plain(more) /\ (NoSubmit(rs) => NoSubmit(more))
  BY <1>1, <1>4, <1>5 DEF Plain, NoSubmit
<1>7. \A i \in DOMAIN more : RequestAgrees(more, sh, pg, wr, t, i)
  BY <1>1, <1>6 DEF RequestAgrees, Plain, NoSubmit
<1>8. \A i, j \in DOMAIN more : PairAgrees(more, i, j)
  BY <1>6 DEF PairAgrees, Plain
<1>9. Agree(more, s, h, x, sh, pg, wr, t)
  BY <1>3, <1>7, <1>8 DEF Agree
<1>10. r.then \in {"change", "drop"} => BadgeOK(more, s, bd, t)
  <2> SUFFICES ASSUME r.then \in {"change", "drop"} PROVE BadgeOK(more, s, bd, t)
    OBVIOUS
  <2>1. N + 1 \in DOMAIN more /\ \A j \in DOMAIN more : ~(N + 1 < j)
    BY <1>1
  <2>2. Tells(more[N + 1]) /\ more[N + 1].then # "badge"
    BY <1>1 DEF Tells
  <2> QED BY <2>1, <2>2 DEF BadgeOK
<1>11. ~Tells(r) /\ BadgeOK(rs, s, bd, t) => BadgeOK(more, s, bd, t)
  <2> SUFFICES ASSUME ~Tells(r), BadgeOK(rs, s, bd, t) PROVE BadgeOK(more, s, bd, t)
    OBVIOUS
  <2>1. CASE bd = Cardinality(t) /\ \A i \in DOMAIN rs : ~Tells(rs[i])
    <3>1. \A i \in DOMAIN more : ~Tells(more[i])
      BY <1>1, <1>4, <2>1
    <3> QED BY <2>1, <3>1 DEF BadgeOK
  <2>2. ASSUME NEW m \in DOMAIN rs, Tells(rs[m]), \A j \in DOMAIN rs : m < j => ~Tells(rs[j]),
               rs[m].then = "badge" =>
                  IF rs[m].stage = "answered" THEN rs[m].lines = t ELSE Ends(rs, s, m, Like(t))
        PROVE  BadgeOK(more, s, bd, t)
    <3>1. m \in DOMAIN more /\ more[m] = rs[m] /\ m \in 0 .. N
      BY <1>1
    <3>2. \A j \in DOMAIN more : m < j => ~Tells(more[j])
      BY <1>1, <1>4, <2>2
    <3>3. Ends(rs, s, m, Like(t)) => Ends(more, s, m, Like(t))
      BY <1>2, <3>1
    <3> QED BY <2>2, <3>1, <3>2, <3>3 DEF BadgeOK
  <2> QED BY <2>1, <2>2 DEF BadgeOK
<1> QED BY <1>1, <1>6, <1>9, <1>10, <1>11 DEF more

\* Another object is wrapped up.
LEMMA AgreeWrapped ==
  ASSUME NEW rs, NEW s, NEW h, NEW l, NEW sh, NEW pg, NEW wr, NEW t, Agree(rs, s, h, l, sh, pg, wr, t),
         NEW wr2, \A i \in DOMAIN rs : rs[i].then # "load"
  PROVE  Agree(rs, s, h, l, sh, pg, wr2, t)
BY DEF Agree, RequestAgrees

\* The basket page has its basket.
LEMMA AgreeShown ==
  ASSUME NEW rs, NEW s, NEW h, NEW l, NEW pg, NEW wr, NEW t, Agree(rs, s, h, l, None, pg, wr, t),
         Plain(rs), NoSubmit(rs), NEW sh, h[sh] = h[l]
  PROVE  Agree(rs, s, h, l, sh, pg, wr, t)
BY DEF Agree, RequestAgrees, Plain, NoSubmit

\* A tab has just been loaded.
LEMMA AgreeStart ==
  ASSUME NEW s, NEW h, NEW l, l # None, NEW bd, NEW t, s \in Like(t)
  PROVE  Agree(Start, s, h, l, None, "catalog", None, t) /\ BadgeOK(Start, s, bd, t)
<1> DEFINE a == Get("load")
           b == Get("badge")
<1>1. /\ a.call = "GET" /\ a.then = "load" /\ a.stage = "sent"
      /\ b.call = "GET" /\ b.then = "badge" /\ b.stage = "sent"
  BY RequestMade DEF Get, Callbacks
<1>2. Start = <<a, b>>
  BY DEF Start
<1> HIDE DEF a, b
<1>3. DOMAIN Start = {1, 2} /\ Start[1] = a /\ Start[2] = b /\ Len(Start) = 2
  BY <1>2
<1>4. \A i \in DOMAIN Start : /\ Start[i].call = "GET" /\ Start[i].then \in {"load", "badge"}
                              /\ Start[i].stage = "sent" /\ (Start[i].then = "load" => i = 1)
  BY <1>1, <1>3
<1>5. \A i \in DOMAIN Start : ~Sending(Start[i]) /\ ~LivePage(Start[i]) /\ Kind(Start[i])
  BY <1>4 DEF Sending, LivePage, Kind
<1>6. Ends(Start, s, 2, Like(t))
  <2>1. \A k \in 1 .. 2 : k \in DOMAIN Start
    BY <1>3
  <2> QED BY <1>5, <2>1 DEF Ends
<1>7. \A i \in DOMAIN Start : RequestAgrees(Start, None, "catalog", None, t, i)
  BY <1>4, <1>5 DEF RequestAgrees
<1>8. \A i, j \in DOMAIN Start : PairAgrees(Start, i, j)
  BY <1>4, <1>5 DEF PairAgrees
<1>9. ~(\A i \in DOMAIN Start : Start[i].then # "load")
  BY <1>1, <1>3
<1>10. BadgeOK(Start, s, bd, t)
  <2>1. 2 \in DOMAIN Start /\ \A j \in DOMAIN Start : ~(2 < j)
    BY <1>3
  <2>2. Tells(Start[2]) /\ Start[2].stage # "answered"
    BY <1>1, <1>3 DEF Tells
  <2> QED BY <1>6, <2>1, <2>2 DEF BadgeOK
<1> QED BY <1>3, <1>6, <1>7, <1>8, <1>9, <1>10 DEF Agree

Agreed == \E t \in SUBSET Products : AgreeNow(t)

\* Collecting the objects nobody holds makes no difference.
LEMMA AgreeKeep ==
  ASSUME TypeInv', NEW h \in [Objects -> SUBSET Products], Keep(h), NEW t \in SUBSET Products,
         Agree(requests', stored', h, local', shown', page', wrapped', t),
         Limbo(requests') \/ BadgeOK(requests', stored', badge', t)
  PROVE  Agreed'
<1>1. \A x \in Objects : x \in InUse' => heap'[x] = h[x]
  BY KeepOK
<1>2. /\ local' # None
      /\ local' # None => heap'[local'] = h[local']
      /\ shown' # None => heap'[shown'] = h[shown'] /\ h[shown'] = h[local']
  BY <1>1 DEF TypeInv, OthersOK, InUse, Agree
<1>3. Agree(requests', stored', heap', local', shown', page', wrapped', t)
  BY <1>2, AgreeHeap
<1> QED BY <1>3 DEF Agreed, AgreeNow

\* The same, where no object is collected.
LEMMA AgreeThen ==
  ASSUME NEW t \in SUBSET Products,
         Agree(requests', stored', heap', local', shown', page', wrapped', t),
         Limbo(requests') \/ BadgeOK(requests', stored', badge', t)
  PROVE  Agreed'
BY DEF Agreed, AgreeNow

LEMMA NotSo ==
  ASSUME Steady', NEW m \in {"early", "blank", "overtaken", "loss", "late"}, NEW condition,
         Mishap(m, condition)
  PROVE  ~condition
BY DEF Steady, Spared, Mishap

\* What Agreed says of the requests.
LEMMA AgreedRequests ==
  ASSUME TypeInv, NEW t \in SUBSET Products, AgreeNow(t)
  PROVE  /\ requests \in Seq(Requests) /\ heap \in [Objects -> SUBSET Products] /\ t # NoBasket
         /\ local \in Objects /\ local # None /\ (shown # None => heap[shown] = heap[local])
         /\ \A i \in DOMAIN requests : /\ requests[i] \in Requests
                                      /\ RequestAgrees(requests, shown, page, wrapped, t, i)
         /\ \A i, j \in DOMAIN requests : PairAgrees(requests, i, j)
         /\ shown # None => Plain(requests) /\ NoSubmit(requests) /\ heap[local] = t
                            /\ BadgeOK(requests, stored, badge, t)
<1>1. /\ requests \in Seq(Requests) /\ heap \in [Objects -> SUBSET Products] /\ local \in {None} \cup Objects
  BY DEF TypeInv, OthersOK, RequestsOK
<1>2. t # NoBasket
  BY SpaAssumption
<1>3. /\ local # None /\ (shown # None => heap[shown] = heap[local])
      /\ \A i \in DOMAIN requests : RequestAgrees(requests, shown, page, wrapped, t, i)
      /\ \A i, j \in DOMAIN requests : PairAgrees(requests, i, j)
      /\ (\A i \in DOMAIN requests : requests[i].then # "load") => heap[local] = t
  BY DEF AgreeNow, Agree
<1>4. \A i \in DOMAIN requests : requests[i] \in Requests
  BY <1>1
<1>5. ASSUME shown # None
      PROVE  /\ Plain(requests) /\ NoSubmit(requests) /\ heap[local] = t
             /\ BadgeOK(requests, stored, badge, t)
  <2>1. \A i \in DOMAIN requests : /\ Kind(requests[i]) /\ ~LivePage(requests[i])
                                  /\ requests[i].then # "load" /\ requests[i].then # "submit"
    BY <1>3, <1>5 DEF RequestAgrees
  <2>2. ~Limbo(requests)
    BY <2>1 DEF Limbo
  <2> QED BY <1>3, <2>1, <2>2 DEF Plain, NoSubmit, AgreeNow
<1> QED BY <1>1, <1>2, <1>3, <1>4, <1>5

LEMMA AddToCartAgrees ==
  ASSUME TypeInv, TypeInv', NEW t \in SUBSET Products, AgreeNow(t), Steady', NEW p \in Products, AddToCart(p)
  PROVE  Agreed'
<1> DEFINE u == heap'[local]
           r == Request("POST", "change", u, None)
<1>1. /\ page = "catalog" /\ requests' = Append(requests, r)
      /\ local' = local /\ shown' = shown /\ page' = page /\ stored' = stored /\ badge' = badge
      /\ wrapped' = wrapped
  BY DEF AddToCart, Post, component, services
<1>2. u \in SUBSET Products
  BY <1>1 DEF TypeInv, OthersOK, AgreeNow, Agree
<1>3. /\ r \in Requests /\ r.call = "POST" /\ r.lines = u /\ r.then = "change" /\ r.stage = "sent"
  BY <1>2, RequestMade DEF Callbacks
<1> HIDE DEF r, u
<1>4. Sending(r) /\ Kind(r)
  BY <1>3 DEF Sending, Kind
<1>5. shown = None
  BY <1>1 DEF TypeInv, OthersOK
<1>6. Plain(requests)
  <2>1. \A i \in DOMAIN requests : requests[i].then # "load"
    BY NotSo DEF AddToCart
  <2>2. \A i \in DOMAIN requests : ~LivePage(requests[i])
    BY <1>1 DEF TypeInv, RequestsOK
  <2> QED BY <2>1, <2>2, AgreedRequests DEF Plain, RequestAgrees
<1>7. u = heap'[local]
  BY DEF u
<1>8. /\ Agree(Append(requests, r), stored, heap', local, shown, page, wrapped, u)
      /\ BadgeOK(Append(requests, r), stored, badge, u)
  BY <1>3, <1>4, <1>5, <1>6, <1>7, AgreedRequests, AgreePosted
<1> QED BY <1>1, <1>2, <1>8, AgreeThen

\* The components change.
LEMMA LeavesAgree ==
  ASSUME TypeInv, NEW t \in SUBSET Products, AgreeNow(t), NEW pg,
         pg = "order" => \A i \in DOMAIN requests : requests[i].then # "load"
  PROVE  /\ Leaves \in Seq(Requests) /\ DOMAIN Leaves = DOMAIN requests
         /\ Agree(Leaves, stored, heap, local, None, pg, wrapped, t)
         /\ Limbo(Leaves) <=> Limbo(requests)
         /\ Limbo(Leaves) \/ BadgeOK(Leaves, stored, badge, t)
         /\ \A i \in DOMAIN Leaves : ~LivePage(Leaves[i])
<1>1. requests \in Seq(Requests) /\ Agree(requests, stored, heap, local, shown, page, wrapped, t)
  BY DEF TypeInv, RequestsOK, AgreeNow
<1>2. /\ Agree(Leaves, stored, heap, local, None, pg, wrapped, t)
      /\ Limbo(Leaves) <=> Limbo(requests)
      /\ BadgeOK(requests, stored, badge, t) => BadgeOK(Leaves, stored, badge, t)
  BY <1>1, LeavesSame, AgreeRelabelled
<1>3. \A i \in DOMAIN Leaves : ~LivePage(Leaves[i])
  BY <1>1, LeavesSame DEF LivePage
<1> QED BY <1>1, <1>2, <1>3, LeavesSame DEF AgreeNow

LEMMA NavigateAgrees ==
  ASSUME TypeInv, TypeInv', NEW t \in SUBSET Products, AgreeNow(t), NEW to, Navigate(to)
  PROVE  Agreed'
<1>1. /\ page' = to /\ shown' = None /\ to # "order" /\ Keep(heap)
      /\ local' = local /\ stored' = stored /\ badge' = badge /\ wrapped' = wrapped
  BY DEF Navigate, services
<1>2. /\ Agree(requests', stored, heap, local, None, to, wrapped, t)
      /\ Limbo(requests') \/ BadgeOK(requests', stored, badge, t)
  <2>1. CASE to = "basket" /\ local # None
    <3> DEFINE r == Request("GET", "page", {}, None)
    <3>1. requests' = Append(Leaves, r)
      BY <2>1 DEF Navigate, Get
    <3>2. r \in Requests /\ r.stage = "sent" /\ r.call = "GET" /\ r.then = "page"
      BY RequestMade DEF Callbacks
    <3> HIDE DEF r
    <3>3. Kind(r) /\ ~Tells(r)
      BY <3>2 DEF Kind, Tells
    <3>4. /\ Leaves \in Seq(Requests) /\ (\A i \in DOMAIN Leaves : ~LivePage(Leaves[i]))
          /\ Agree(Leaves, stored, heap, local, None, to, wrapped, t)
          /\ Limbo(Leaves) \/ BadgeOK(Leaves, stored, badge, t)
      BY <1>1, LeavesAgree
    <3>5. /\ Agree(Append(Leaves, r), stored, heap, local, None, to, wrapped, t)
          /\ Limbo(Append(Leaves, r)) <=> Limbo(Leaves)
          /\ ~Tells(r) /\ BadgeOK(Leaves, stored, badge, t) => BadgeOK(Append(Leaves, r), stored, badge, t)
      BY <3>2, <3>3, <3>4, AgreeAppended
    <3> QED BY <3>1, <3>3, <3>4, <3>5
  <2>2. CASE ~(to = "basket" /\ local # None)
    <3>1. requests' = Leaves
      BY <2>2 DEF Navigate
    <3> QED BY <1>1, <3>1, LeavesAgree
  <2> QED BY <2>1, <2>2
<1> QED BY <1>1, <1>2, AgreedRequests, AgreeKeep

LEMMA GoForwardToOrderAgrees ==
  ASSUME TypeInv, TypeInv', NEW t \in SUBSET Products, AgreeNow(t), GoForwardToOrder
  PROVE  Agreed'
<1>1. /\ page' = "order" /\ shown' = None /\ wrapped # None /\ Keep(heap) /\ requests' = Leaves
      /\ local' = local /\ stored' = stored /\ badge' = badge /\ wrapped' = wrapped
  BY DEF GoForwardToOrder, OpensOrderPage, services
<1>2. \A i \in DOMAIN requests : requests[i].then # "load"
  BY <1>1, AgreedRequests DEF RequestAgrees
<1>3. /\ Agree(Leaves, stored, heap, local, None, "order", wrapped, t)
      /\ Limbo(Leaves) \/ BadgeOK(Leaves, stored, badge, t)
  BY <1>2, LeavesAgree
<1> QED BY <1>1, <1>3, AgreedRequests, AgreeKeep

LEMMA DeleteItemAgrees ==
  ASSUME TypeInv, TypeInv', NEW t \in SUBSET Products, AgreeNow(t), NEW p, DeleteItem(p)
  PROVE  Agreed'
<1> DEFINE h == [heap EXCEPT ![shown] = @ \ {p}]
           u == heap[shown] \ {p}
           r == Request("POST", "change", u, None)
<1>1. /\ shown # None /\ Keep(h) /\ shown \in Objects /\ requests' = Append(requests, r)
      /\ local' = shown /\ shown' = shown /\ page' = page /\ stored' = stored /\ badge' = badge
      /\ wrapped' = wrapped
  BY DEF DeleteItem, SetBasket, Post, component, services, TypeInv, OthersOK
<1>2. u \in SUBSET Products /\ h[shown] = u /\ h \in [Objects -> SUBSET Products]
  BY <1>1 DEF TypeInv, OthersOK
<1> HIDE DEF h, u
<1>3. /\ r \in Requests /\ r.call = "POST" /\ r.lines = u /\ r.then = "change" /\ r.stage = "sent"
  BY <1>2, RequestMade DEF Callbacks
<1> HIDE DEF r
<1>4. Sending(r) /\ Kind(r)
  BY <1>3 DEF Sending, Kind
<1>5. /\ Agree(Append(requests, r), stored, h, shown, shown, page, wrapped, u)
      /\ BadgeOK(Append(requests, r), stored, badge, u)
  BY <1>1, <1>2, <1>3, <1>4, AgreedRequests, AgreePosted
<1> QED BY <1>1, <1>2, <1>5, AgreeKeep

\* The page's basket is posted as it is.
LEMMA PostedAgrees ==
  ASSUME TypeInv, NEW t \in SUBSET Products, AgreeNow(t), shown # None,
         NEW rs \in Seq(Requests), Plain(rs), NoSubmit(rs), BadgeOK(rs, stored, badge, t),
         NEW then \in {"none", "checkOut"}, NEW of \in Objects \cup {None},
         NEW r, r = Request("POST", then, heap[shown], of)
  PROVE  /\ r \in Requests /\ Append(rs, r) \in Seq(Requests) /\ Plain(Append(rs, r)) /\ NoSubmit(Append(rs, r))
         /\ BadgeOK(Append(rs, r), stored, badge, t)
         /\ Agree(Append(rs, r), stored, heap, shown, shown, page, wrapped, t)
<1>1. heap[shown] = t
  BY AgreedRequests
<1>2. /\ r \in Requests /\ r.call = "POST" /\ r.lines = t /\ r.then = then /\ r.stage = "sent"
  BY <1>1, RequestMade DEF Callbacks
<1>3. Sending(r) /\ Kind(r) /\ ~Tells(r)
  BY <1>2 DEF Sending, Kind, Tells
<1> QED BY <1>1, <1>2, <1>3, AgreePosted

LEMMA ItemQuantityChangedAgrees ==
  ASSUME TypeInv, TypeInv', NEW t \in SUBSET Products, AgreeNow(t), ItemQuantityChanged
  PROVE  Agreed'
<1> DEFINE r == Request("POST", "none", heap[shown], None)
<1>1. /\ shown # None /\ Keep(heap) /\ requests' = Append(requests, r)
      /\ local' = shown /\ shown' = shown /\ page' = page /\ stored' = stored /\ badge' = badge
      /\ wrapped' = wrapped
  BY DEF ItemQuantityChanged, SetBasket, Post, component, services
<1>2. /\ BadgeOK(Append(requests, r), stored, badge, t)
      /\ Agree(Append(requests, r), stored, heap, shown, shown, page, wrapped, t)
  BY <1>1, AgreedRequests, PostedAgrees
<1> QED BY <1>1, <1>2, AgreedRequests, AgreeKeep

LEMMA CheckOutAgrees ==
  ASSUME TypeInv, TypeInv', NEW t \in SUBSET Products, AgreeNow(t), CheckOut
  PROVE  Agreed'
<1> DEFINE a == Request("POST", "none", heap[shown], None)
           b == Request("POST", "checkOut", heap[shown], shown)
<1>1. /\ shown # None /\ shown \in Objects /\ Keep(heap) /\ requests' = requests \o <<a, b>>
      /\ local' = shown /\ shown' = shown /\ page' = page /\ stored' = stored /\ badge' = badge
      /\ wrapped' = wrapped
  BY DEF CheckOut, SetBasket, Post, component, services, TypeInv, OthersOK
<1>2. /\ a \in Requests /\ Append(requests, a) \in Seq(Requests) /\ Plain(Append(requests, a))
      /\ NoSubmit(Append(requests, a)) /\ BadgeOK(Append(requests, a), stored, badge, t)
  BY <1>1, AgreedRequests, PostedAgrees
<1>3. /\ b \in Requests /\ BadgeOK(Append(Append(requests, a), b), stored, badge, t)
      /\ Agree(Append(Append(requests, a), b), stored, heap, shown, shown, page, wrapped, t)
  <2> HIDE DEF a
  <2> QED BY <1>1, <1>2, PostedAgrees
<1> HIDE DEF a, b
<1>4. requests' = Append(Append(requests, a), b)
  BY <1>1, <1>2, <1>3, AgreedRequests, TwoMore
<1> QED BY <1>1, <1>3, <1>4, AgreedRequests, AgreeKeep

LEMMA SubmitFormAgrees ==
  ASSUME TypeInv, TypeInv', NEW t \in SUBSET Products, AgreeNow(t), SubmitForm
  PROVE  Agreed'
<1> DEFINE r == Request("checkout", "submit", summary, None)
<1>1. /\ page = "order" /\ requests' = Append(requests, r) /\ summary \in SUBSET Products
      /\ UNCHANGED <<heap, local, shown, page, wrapped, badge, stored>>
  BY DEF SubmitForm, services, TypeInv, OthersOK
<1>2. /\ r \in Requests /\ r.stage = "sent" /\ r.call = "checkout" /\ r.then = "submit"
  BY <1>1, RequestMade DEF Callbacks
<1> HIDE DEF r
<1>3. Kind(r) /\ ~Tells(r) /\ ~LivePage(r)
  BY <1>2 DEF Kind, Tells, LivePage
<1>4. shown = None /\ \A i \in DOMAIN requests : ~LivePage(requests[i]) /\ requests[i].then # "load"
  <2>1. shown = None /\ \A i \in DOMAIN requests : ~LivePage(requests[i])
    BY <1>1 DEF TypeInv, OthersOK, RequestsOK
  <2> QED BY <1>1, <2>1, AgreedRequests DEF RequestAgrees
<1>5. /\ Agree(Append(requests, r), stored, heap, local, shown, page, wrapped, t)
      /\ Limbo(Append(requests, r)) <=> Limbo(requests)
      /\ ~Tells(r) /\ BadgeOK(requests, stored, badge, t) => BadgeOK(Append(requests, r), stored, badge, t)
  BY <1>2, <1>3, <1>4, AgreedRequests, AgreeAppended DEF AgreeNow
<1> QED BY <1>1, <1>3, <1>5, AgreeThen DEF AgreeNow

LEMMA ReloadAgrees ==
  ASSUME TypeInv, Steady', Reload
  PROVE  Agreed'
<1> DEFINE t == IF stored = NoBasket THEN {} ELSE stored
<1>1. /\ local' = 1 /\ shown' = None /\ wrapped' = None /\ page' = "catalog" /\ stored' = stored
      /\ Mishap("loss", requests # <<>>)
  BY DEF Reload, services
<1>2. requests = <<>>
  BY <1>1, NotSo
<1>3. requests' = Start
  BY <1>2, ReloadedIdle
<1>4. t \in SUBSET Products /\ stored \in Like(t) /\ 1 # None
  <2>1. stored \in {NoBasket} \cup SUBSET Products /\ 1 # None
    BY SpaAssumption DEF TypeInv, OthersOK
  <2>2. CASE stored = NoBasket
    <3>1. t = {}
      BY <2>2
    <3> HIDE DEF t
    <3> QED BY <2>1, <2>2, <3>1 DEF Like
  <2>3. CASE stored # NoBasket
    BY <2>1, <2>3 DEF Like
  <2> QED BY <2>1, <2>2, <2>3
<1> HIDE DEF t
<1>5. /\ Agree(Start, stored, heap', 1, None, "catalog", None, t)
      /\ BadgeOK(Start, stored, badge', t)
  BY <1>4, AgreeStart
<1> QED BY <1>1, <1>3, <1>4, <1>5, AgreeThen

\* The basket that the server answers with, or deletes, is as good as another.
LEMMA ErasedAgrees ==
  ASSUME NEW rs \in Seq(Requests), NEW s, NEW h, NEW l, NEW sh, NEW pg, NEW wr, NEW t \in SUBSET Products, NEW bd,
         Agree(rs, s, h, l, sh, pg, wr, t), Limbo(rs) \/ BadgeOK(rs, s, bd, t),
         \/ s \in {NoBasket, {}}
         \/ Limbo(rs)
         \/ \E i \in DOMAIN rs : rs[i].then = "drop" /\ rs[i].stage = "sent"
  PROVE  Agree(rs, NoBasket, h, l, sh, pg, wr, t) /\ (Limbo(rs) \/ BadgeOK(rs, NoBasket, bd, t))
<1> DEFINE N == Len(rs)
<1>1. N \in Nat /\ DOMAIN rs = 1 .. N
  OBVIOUS
<1>2. CASE Limbo(rs)
  BY <1>2 DEF Agree
<1>3. CASE s \in {NoBasket, {}}
  <2>1. s \in Like(t) => NoBasket \in Like(t)
    <3>1. CASE s = NoBasket
      BY <3>1
    <3>2. CASE s = {}
      <4>1. NoBasket # {}
        BY SpaAssumption
      <4>2. s \in Like(t) => t = {}
        BY <3>2, <4>1 DEF Like
      <4>3. t = {} => NoBasket \in Like(t)
        BY DEF Like
      <4> QED BY <4>2, <4>3
    <3> QED BY <1>3, <3>1, <3>2
  <2>2. \A n : Ends(rs, s, n, Like(t)) => Ends(rs, NoBasket, n, Like(t))
    BY <2>1 DEF Ends
  <2> QED BY <2>2 DEF Agree, BadgeOK
<1>4. ASSUME NEW i \in DOMAIN rs, rs[i].then = "drop", rs[i].stage = "sent", ~Limbo(rs)
      PROVE  Agree(rs, NoBasket, h, l, sh, pg, wr, t) /\ BadgeOK(rs, NoBasket, bd, t)
  <2>1. Sending(rs[i]) /\ Tells(rs[i])
    <3>1. Kind(rs[i]) /\ rs[i].call \in {"GET", "POST", "checkout"}
      BY RequestType DEF Agree, RequestAgrees
    <3> QED BY <1>4, <3>1 DEF Kind, Sending, Tells
  <2>2. \A n \in Nat : i <= n /\ Ends(rs, s, n, Like(t)) => Ends(rs, NoBasket, n, Like(t))
    <3> SUFFICES ASSUME NEW n \in Nat, i <= n, Ends(rs, s, n, Like(t)) PROVE Ends(rs, NoBasket, n, Like(t))
      OBVIOUS
    <3>1. i \in 1 .. n
      BY <1>1
    <3> QED BY <2>1, <3>1 DEF Ends
  <2>3. Agree(rs, NoBasket, h, l, sh, pg, wr, t)
    <3>1. i <= Len(rs) /\ Len(rs) \in Nat
      BY <1>1
    <3> QED BY <2>2, <3>1 DEF Agree
  <2>4. PICK m \in DOMAIN rs :
            /\ Tells(rs[m]) /\ \A j \in DOMAIN rs : m < j => ~Tells(rs[j])
            /\ rs[m].then = "badge" =>
                  IF rs[m].stage = "answered" THEN rs[m].lines = t ELSE Ends(rs, s, m, Like(t))
    BY <1>4, <2>1 DEF BadgeOK
  <2>5. i <= m /\ m \in Nat
    BY <1>1, <2>1, <2>4
  <2>6. rs[m].then = "badge" =>
            IF rs[m].stage = "answered" THEN rs[m].lines = t ELSE Ends(rs, NoBasket, m, Like(t))
    BY <2>2, <2>4, <2>5
  <2> QED BY <2>3, <2>4, <2>6 DEF BadgeOK
<1> QED BY <1>2, <1>3, <1>4

LEMMA OrderStartsAgrees ==
  ASSUME TypeInv, NEW t \in SUBSET Products, AgreeNow(t), Steady', OrderStarts
  PROVE  Agreed'
<1>1. /\ stored' = NoBasket /\ UNCHANGED <<requests, heap, local, shown, page, wrapped, badge>>
      /\ Mishap("late", stored # NoBasket /\ stored # {} /\ ~Dropping)
  BY DEF OrderStarts, tab, component
<1>2. stored \in {NoBasket, {}} \/ Dropping
  BY <1>1, NotSo
<1>3. \/ stored \in {NoBasket, {}}
      \/ Limbo(requests)
      \/ \E i \in DOMAIN requests : requests[i].then = "drop" /\ requests[i].stage = "sent"
  BY <1>2 DEF Dropping, Limbo
<1>4. /\ Agree(requests, NoBasket, heap, local, shown, page, wrapped, t)
      /\ Limbo(requests) \/ BadgeOK(requests, NoBasket, badge, t)
  BY <1>3, AgreedRequests, ErasedAgrees DEF AgreeNow
<1> QED BY <1>1, <1>4, AgreeThen

\* A request is served.  Only a checkout that is answered makes an order, of what the server holds.
LEMMA ServedSo ==
  ASSUME TypeInv, NEW i \in DOMAIN requests, Serve(i)
  PROVE  \E r \in Requests :
             /\ AnswerTo(requests[i], r, stored, stored')
             /\ requests' = IF requests[i].then = "none" THEN Others(i) ELSE [requests EXCEPT ![i] = r]
             /\ \/ orders' = orders
                \/ /\ orders' = Append(orders, [lines |-> stored, listed |-> requests[i].lines])
                   /\ requests[i].call = "checkout" /\ r.stage = "answered" /\ stored # NoBasket
<1>1. requests \in Seq(Requests) /\ requests[i] \in Requests /\ requests[i].lines \in SUBSET Products
  BY RequestType DEF TypeInv, RequestsOK
<1>2. PICK stage \in {"answered", "failed"}, lines \in SUBSET Products :
          /\ Answer(i, stage, lines)
          /\ requests[i].call = "GET" => lines = IF stored = NoBasket THEN {} ELSE stored
          /\ stage = "failed" => requests[i].call = "checkout"
          /\ IF requests[i].call = "POST" THEN stored' = requests[i].lines ELSE stored' = stored
          /\ \/ orders' = orders
             \/ /\ orders' = Append(orders, [lines |-> stored, listed |-> requests[i].lines])
                /\ requests[i].call = "checkout" /\ stage = "answered" /\ stored # NoBasket
  <2> DEFINE basket == IF stored = NoBasket THEN {} ELSE stored
  <2>1. basket \in SUBSET Products
    BY DEF TypeInv, OthersOK
  <2>2. CASE GetBasketById(i)
    <3>1. Answer(i, "answered", basket) /\ requests[i].call = "GET" /\ stored' = stored /\ orders' = orders
      BY <2>2 DEF GetBasketById
    <3>2. basket = IF stored = NoBasket THEN {} ELSE stored
      OBVIOUS
    <3> HIDE DEF basket
    <3> QED BY <2>1, <3>1, <3>2
  <2>3. CASE UpdateBasket(i)
    BY <1>1, <2>3 DEF UpdateBasket
  <2>4. CASE Checkout(i)
    <3>1. CASE stored = NoBasket
      BY <1>1, <2>4, <3>1 DEF Checkout
    <3>2. CASE stored # NoBasket
      BY <1>1, <2>4, <3>2 DEF Checkout
    <3> QED BY <3>1, <3>2
  <2> QED BY <2>2, <2>3, <2>4 DEF Serve
<1> DEFINE r == [requests[i] EXCEPT !.stage = stage, !.lines = lines]
<1>3. /\ r \in Requests /\ r.stage = stage /\ r.lines = lines
      /\ r.call = requests[i].call /\ r.then = requests[i].then /\ r.live = requests[i].live
  BY <1>1, <1>2 DEF Requests
<1>4. [requests EXCEPT ![i].stage = stage, ![i].lines = lines] = [requests EXCEPT ![i] = r]
  BY <1>1
<1> HIDE DEF r
<1>5. requests' = IF requests[i].then = "none" THEN Others(i) ELSE [requests EXCEPT ![i] = r]
  BY <1>2, <1>4 DEF Answer
<1> QED BY <1>2, <1>3, <1>5 DEF AnswerTo

LEMMA ServeAgrees ==
  ASSUME TypeInv, NEW t \in SUBSET Products, AgreeNow(t), Steady', NEW i \in DOMAIN requests, Serve(i)
  PROVE  Agreed'
<1>1. /\ requests \in Seq(Requests) /\ requests[i] \in Requests /\ requests[i].lines \in SUBSET Products
      /\ Kind(requests[i]) /\ t # NoBasket
      /\ UNCHANGED <<heap, local, shown, page, wrapped, badge>>
  BY RequestType, AgreedRequests DEF Serve, component, RequestAgrees
<1>2. requests[i].stage = "sent" /\ \A j \in 1 .. i - 1 : requests[j].stage # "sent"
  BY NotSo DEF Serve, Overtakes
<1>3. PICK r \in Requests :
          /\ AnswerTo(requests[i], r, stored, stored')
          /\ requests' = IF requests[i].then = "none" THEN Others(i) ELSE [requests EXCEPT ![i] = r]
  BY ServedSo
<1> DEFINE new == [requests EXCEPT ![i] = r]
<1>4. new \in Seq(Requests) /\ Len(new) = Len(requests) /\ DOMAIN new = DOMAIN requests
      /\ new[i] = r /\ \A j \in DOMAIN requests : j # i => new[j] = requests[j]
  BY <1>1, <1>3
<1>n. new = [requests EXCEPT ![i] = r]
  OBVIOUS
<1> HIDE DEF new
<1>5. /\ Agree(new, stored', heap, local, shown, page, wrapped, t)
      /\ Limbo(requests) => Limbo(new)
      /\ ~Limbo(requests) /\ BadgeOK(requests, stored, badge, t) => BadgeOK(new, stored', badge, t)
  <2>1. Agree(requests, stored, heap, local, shown, page, wrapped, t)
    BY DEF AgreeNow
  <2> QED BY <1>1, <1>2, <1>3, <1>4, <2>1, AgreeAnswered
<1>6. Limbo(new) \/ BadgeOK(new, stored', badge, t)
  BY <1>5 DEF AgreeNow
<1>7. CASE requests[i].then = "none"
  <2>1. requests' = RemoveAt(new, i)
    BY <1>1, <1>3, <1>4, <1>7, SameWithout DEF Others
  <2>2. ~Sending(new[i]) /\ ~Tells(new[i]) /\ new[i].then = "none"
    BY <1>3, <1>4, <1>7 DEF Sending, Tells, AnswerTo
  <2>3. /\ Agree(requests', stored', heap, local, shown, page, wrapped, t)
        /\ Limbo(requests') <=> Limbo(new)
    BY <1>4, <1>5, <2>1, <2>2, AgreeRemoved
  <2>4. BadgeOK(new, stored', badge, t) => BadgeOK(requests', stored', badge, t)
    BY <1>4, <2>1, <2>2, BadgeRemoved
  <2> QED BY <1>1, <1>6, <2>3, <2>4, AgreeThen
<1>8. CASE requests[i].then # "none"
  <2>1. requests' = new
    BY <1>3, <1>8, <1>n
  <2> QED BY <1>1, <1>5, <1>6, <2>1, AgreeThen
<1> QED BY <1>7, <1>8

\* An answer that has been waited for leaves the list, if the tab need not empty its basket for it.
LEMMA AnswerAgrees ==
  ASSUME TypeInv, NEW t \in SUBSET Products, AgreeNow(t), Steady', NEW i \in DOMAIN requests,
         NEW then, Answered(i, then)
  PROVE  /\ i = 1 /\ requests[i].stage = "answered" /\ requests[i].then \in then /\ stored' = stored
         /\ ~Sending(requests[i]) /\ Kind(requests[i]) /\ Others(i) \in Seq(Requests)
         /\ requests[i].then \notin {"submit", "load"} =>
               /\ Agree(Others(i), stored, heap, local, shown, page, wrapped, t)
               /\ Limbo(requests) <=> Limbo(Others(i))
               /\ ~Tells(requests[i]) => Limbo(Others(i)) \/ BadgeOK(Others(i), stored, badge, t)
<1>1. /\ requests \in Seq(Requests) /\ stored' = stored
      /\ requests[i].stage = "answered" /\ requests[i].then \in then
  BY DEF Answered, services, TypeInv, RequestsOK
<1>2. ~Sending(requests[i]) /\ Kind(requests[i])
  BY <1>1, AgreedRequests DEF Sending, RequestAgrees
<1>3. i = 1
  <2>1. ~(i > 1)
    BY NotSo DEF Answered
  <2> QED BY <1>1, <2>1
<1>4. Others(i) \in Seq(Requests)
  BY <1>1, OthersKnown
<1>5. ASSUME requests[i].then \notin {"submit", "load"}
      PROVE  /\ Agree(Others(i), stored, heap, local, shown, page, wrapped, t)
             /\ Limbo(requests) <=> Limbo(Others(i))
             /\ ~Tells(requests[i]) => Limbo(Others(i)) \/ BadgeOK(Others(i), stored, badge, t)
  <2>1. Agree(requests, stored, heap, local, shown, page, wrapped, t)
    BY DEF AgreeNow
  <2>2. /\ Agree(Others(i), stored, heap, local, shown, page, wrapped, t)
        /\ Limbo(requests) <=> Limbo(Others(i))
    BY <1>1, <1>2, <1>5, <2>1, AgreeRemoved DEF Others
  <2>3. ~Tells(requests[i]) /\ BadgeOK(requests, stored, badge, t) => BadgeOK(Others(i), stored, badge, t)
    BY <1>1, <1>2, BadgeRemoved DEF Others
  <2> QED BY <2>2, <2>3 DEF AgreeNow
<1> QED BY <1>1, <1>2, <1>3, <1>4, <1>5

LEMMA LoadedAgrees ==
  ASSUME TypeInv, NEW t \in SUBSET Products, AgreeNow(t), Steady', NEW i \in DOMAIN requests, Loaded(i)
  PROVE  Agreed'
<1>1. /\ Answered(i, {"load"}) /\ requests' = Others(i) /\ UNCHANGED <<local, page, shown, wrapped, badge>>
      /\ heap' = IF local = None THEN heap ELSE [heap EXCEPT ![local] = requests[i].lines]
  BY DEF Loaded, component
<1>2. /\ requests \in Seq(Requests) /\ stored' = stored /\ requests[i].then = "load"
      /\ requests[i].stage = "answered" /\ ~Sending(requests[i])
  BY <1>1, AgreedRequests, AnswerAgrees
<1>3. shown = None /\ requests[i].lines = t
  BY <1>2, AgreedRequests DEF RequestAgrees
<1>4. heap'[local] = t
  BY <1>1, <1>3, AgreedRequests
<1>5. Agree(requests, stored, heap', local, shown, page, wrapped, t)
  BY <1>3, <1>4, AgreeHeap DEF AgreeNow
<1>6. /\ Agree(Others(i), stored, heap', local, shown, page, wrapped, t)
      /\ Limbo(requests) <=> Limbo(Others(i))
  BY <1>2, <1>4, <1>5, AgreeRemoved DEF Others
<1>7. BadgeOK(requests, stored, badge, t) => BadgeOK(Others(i), stored, badge, t)
  <2>1. ~Tells(requests[i])
    BY <1>2 DEF Tells
  <2> QED BY <1>2, <2>1, BadgeRemoved DEF Others
<1> QED BY <1>1, <1>2, <1>6, <1>7, AgreeThen DEF AgreeNow

LEMMA BadgeArrivesAgrees ==
  ASSUME TypeInv, NEW t \in SUBSET Products, AgreeNow(t), Steady', NEW i \in DOMAIN requests, BadgeArrives(i)
  PROVE  Agreed'
<1>1. /\ Answered(i, {"badge"}) /\ requests' = Others(i) /\ badge' = Cardinality(requests[i].lines)
      /\ UNCHANGED <<heap, local, page, shown, wrapped>>
  BY DEF BadgeArrives, component
<1>2. /\ i = 1 /\ stored' = stored /\ requests[i].then = "badge" /\ requests[i].stage = "answered"
      /\ Agree(Others(i), stored, heap, local, shown, page, wrapped, t)
      /\ Limbo(requests) <=> Limbo(Others(i))
  BY <1>1, AnswerAgrees
<1>3. BadgeOK(requests, stored, badge, t) => BadgeOK(Others(i), stored, badge', t)
  BY <1>1, <1>2, AgreedRequests, BadgeTaken DEF Others
<1> QED BY <1>1, <1>2, <1>3, AgreeThen DEF AgreeNow

LEMMA BasketChangedAgrees ==
  ASSUME TypeInv, NEW t \in SUBSET Products, AgreeNow(t), Steady', NEW i \in DOMAIN requests, BasketChanged(i)
  PROVE  Agreed'
<1> DEFINE r == Get("badge")
<1>1. /\ Answered(i, {"change", "drop"}) /\ UNCHANGED <<heap, local, page, shown, wrapped, badge>>
      /\ requests' = Append(Others(i), r)
  BY AgreedRequests DEF BasketChanged, component
<1>2. /\ stored' = stored /\ Others(i) \in Seq(Requests)
      /\ Agree(Others(i), stored, heap, local, shown, page, wrapped, t)
  BY <1>1, AnswerAgrees
<1>3. r \in Requests /\ r.call = "GET" /\ r.then = "badge" /\ r.stage = "sent"
  BY RequestMade DEF Get, Callbacks
<1> HIDE DEF r
<1>4. Kind(r) /\ ~LivePage(r)
  BY <1>3 DEF Kind, LivePage
<1>5. /\ Agree(Append(Others(i), r), stored, heap, local, shown, page, wrapped, t)
      /\ Limbo(Append(Others(i), r)) <=> Limbo(Others(i))
      /\ r.then = "badge" /\ ~Limbo(Others(i)) => BadgeOK(Append(Others(i), r), stored, badge, t)
  BY <1>2, <1>3, <1>4, AgreeAppended
<1> QED BY <1>1, <1>2, <1>3, <1>5, AgreeThen

LEMMA PageArrivesAgrees ==
  ASSUME TypeInv, NEW t \in SUBSET Products, AgreeNow(t), Steady', NEW i \in DOMAIN requests, PageArrives(i)
  PROVE  Agreed'
<1>1. Answered(i, {"page"}) /\ requests' = Others(i) /\ UNCHANGED <<local, page, wrapped, badge>>
  BY DEF PageArrives
<1>2. /\ i = 1 /\ stored' = stored /\ requests[i].then = "page" /\ requests[i].stage = "answered"
      /\ requests \in Seq(Requests)
      /\ Agree(Others(i), stored, heap, local, shown, page, wrapped, t)
      /\ Limbo(requests) <=> Limbo(Others(i))
      /\ Limbo(Others(i)) \/ BadgeOK(Others(i), stored, badge, t)
  <2>1. requests[i].then = "page"
    BY <1>1, AnswerAgrees
  <2>2. ~Tells(requests[i])
    BY <2>1 DEF Tells
  <2> QED BY <1>1, <2>1, <2>2, AgreedRequests, AnswerAgrees
<1>3. CASE ~requests[i].live
  <2>1. UNCHANGED <<heap, shown>>
    BY <1>3 DEF PageArrives
  <2> QED BY <1>1, <1>2, <2>1, AgreeThen
<1>4. CASE requests[i].live
  <2>1. PICK x \in Objects \ InUse : heap' = [heap EXCEPT ![x] = requests[i].lines] /\ shown' = x
    BY <1>4 DEF PageArrives
  <2>2. LivePage(requests[i])
    BY <1>2, <1>4 DEF LivePage
  <2>3. ASSUME NEW k \in DOMAIN requests, k # i
        PROVE  /\ requests[k].then # "submit" /\ requests[k].then # "load" /\ ~LivePage(requests[k])
               /\ Kind(requests[k])
    <3>1. PairAgrees(requests, i, k) /\ RequestAgrees(requests, shown, page, wrapped, t, k) /\ ~(k < i)
      BY <1>2, AgreedRequests
    <3> QED BY <1>2, <2>2, <2>3, <3>1 DEF PairAgrees, RequestAgrees
  <2>4. shown = None /\ requests[i].lines = t
    <3>1. ~Limbo(requests)
      BY <1>2, <2>3 DEF Limbo
    <3>2. RequestAgrees(requests, shown, page, wrapped, t, i)
      BY AgreedRequests
    <3> QED BY <1>2, <2>2, <3>1, <3>2 DEF RequestAgrees
  <2>5. Plain(Others(i)) /\ NoSubmit(Others(i)) /\ \A j \in DOMAIN Others(i) : Others(i)[j].then # "load"
    BY <1>2, <2>3, OthersKnown DEF Plain, NoSubmit
  <2>6. heap'[x] = t /\ heap'[local] = heap[local] /\ heap[local] = t
    <3>1. x # local
      BY DEF InUse
    <3>2. heap[local] = t
      BY <1>2, <2>5 DEF Agree
    <3> QED BY <2>1, <2>4, <3>1, <3>2, AgreedRequests
  <2>7. Agree(Others(i), stored, heap', local, None, page, wrapped, t)
    BY <1>2, <2>4, <2>6, AgreeHeap
  <2>8. Agree(Others(i), stored, heap', local, x, page, wrapped, t)
    BY <2>5, <2>6, <2>7, AgreeShown
  <2> QED BY <1>1, <1>2, <2>1, <2>8, AgreeThen
<1> QED BY <1>3, <1>4

LEMMA CheckedOutAgrees ==
  ASSUME TypeInv, TypeInv', NEW t \in SUBSET Products, AgreeNow(t), Steady', NEW i \in DOMAIN requests,
         CheckedOut(i)
  PROVE  Agreed'
<1>1. Answered(i, {"checkOut"}) /\ Keep(heap) /\ local' = local /\ badge' = badge
  BY DEF CheckedOut
<1>2. /\ stored' = stored /\ requests[i].stage = "answered" /\ requests[i].then = "checkOut"
      /\ requests \in Seq(Requests) /\ ~Sending(requests[i]) /\ Kind(requests[i])
      /\ Others(i) \in Seq(Requests)
      /\ Agree(Others(i), stored, heap, local, shown, page, wrapped, t)
      /\ ~Tells(requests[i]) => Limbo(Others(i)) \/ BadgeOK(Others(i), stored, badge, t)
  BY <1>1, AgreedRequests, AnswerAgrees
<1>3. ~Tells(requests[i])
  BY <1>2 DEF Tells
<1>4. \A k \in DOMAIN requests : requests[k].then # "load"
  <2>1. requests[i].call # "GET"
    BY <1>2 DEF Kind
  <2> QED BY <2>1, AgreedRequests DEF PairAgrees
<1>5. CASE page = "order"
  <2>1. requests' = Others(i) /\ page' = page /\ shown' = shown
    BY <1>5 DEF CheckedOut, component
  <2>2. \A j \in DOMAIN Others(i) : Others(i)[j].then # "load"
    BY <1>2, <1>4, OthersKnown
  <2>3. Agree(Others(i), stored, heap, local, shown, page, wrapped', t)
    BY <1>2, <2>2, AgreeWrapped
  <2> QED BY <1>1, <1>2, <1>3, <2>1, <2>3, AgreedRequests, AgreeKeep
<1>6. CASE page # "order"
  <2>1. requests' = RemoveAt(Leaves, i) /\ shown' = None /\ page' = "order"
    BY <1>6 DEF CheckedOut, OpensOrderPage
  <2>2. /\ Leaves \in Seq(Requests) /\ i \in DOMAIN Leaves
        /\ Agree(Leaves, stored, heap, local, None, "order", wrapped, t)
        /\ Limbo(Leaves) \/ BadgeOK(Leaves, stored, badge, t)
    BY <1>4, LeavesAgree
  <2>3. \A j \in DOMAIN requests : Leaves[j].then = requests[j].then /\ Leaves[j].stage = requests[j].stage
    BY <1>2, LeavesSame
  <2>4. Leaves[i].then = "checkOut" /\ ~Sending(Leaves[i]) /\ ~Tells(Leaves[i])
    BY <1>2, <2>3 DEF Sending, Tells
  <2>5. /\ Agree(RemoveAt(Leaves, i), stored, heap, local, None, "order", wrapped, t)
        /\ Limbo(Leaves) <=> Limbo(RemoveAt(Leaves, i))
        /\ BadgeOK(Leaves, stored, badge, t) => BadgeOK(RemoveAt(Leaves, i), stored, badge, t)
    BY <2>2, <2>4, AgreeRemoved, BadgeRemoved
  <2>6. \A j \in DOMAIN RemoveAt(Leaves, i) : RemoveAt(Leaves, i)[j].then # "load"
    <3> DEFINE less == RemoveAt(Leaves, i)
    <3>1. PICK at \in [DOMAIN less -> DOMAIN Leaves] : \A j \in DOMAIN less : less[j] = Leaves[at[j]]
      BY <2>2, WasThere
    <3>2. DOMAIN Leaves = DOMAIN requests
      BY <1>2, LeavesSame
    <3> HIDE DEF less
    <3>3. \A j \in DOMAIN less : less[j].then # "load"
      BY <1>4, <2>3, <3>1, <3>2
    <3> QED BY <3>3 DEF less
  <2>7. Agree(RemoveAt(Leaves, i), stored, heap, local, None, "order", wrapped', t)
    BY <2>5, <2>6, AgreeWrapped
  <2> QED BY <1>1, <1>2, <2>1, <2>2, <2>5, <2>7, AgreedRequests, AgreeKeep
<1> QED BY <1>5, <1>6

LEMMA SubmittedAgrees ==
  ASSUME TypeInv, TypeInv', NEW t \in SUBSET Products, AgreeNow(t), Steady', NEW i \in DOMAIN requests,
         Submitted(i)
  PROVE  Agreed'
<1> DEFINE rs == RemoveAt(Leaves, i)
           r  == Request("POST", "drop", {}, None)
           h  == [heap EXCEPT ![local] = {}]
<1>1. /\ Answered(i, {"submit"}) /\ DropBasket(rs) /\ local' = local /\ badge' = badge
      /\ page' = "orders" /\ shown' = None /\ wrapped' = wrapped
  BY DEF Submitted
<1>2. requests' = Append(rs, r) /\ Keep(h)
  BY <1>1, AgreedRequests DEF DropBasket, Post
<1>3. /\ stored' = stored /\ requests[i].then = "submit" /\ Kind(requests[i])
      /\ requests \in Seq(Requests)
  BY <1>1, AgreedRequests, AnswerAgrees
<1>4. \A k \in DOMAIN requests : requests[k].then # "load" /\ Kind(requests[k])
  <2>1. requests[i].call # "GET"
    BY <1>3 DEF Kind
  <2> QED BY <2>1, AgreedRequests DEF PairAgrees, RequestAgrees
<1>5. rs \in Seq(Requests) /\ Plain(rs)
  <2>1. /\ Leaves \in Seq(Requests) /\ i \in DOMAIN Leaves /\ DOMAIN Leaves = DOMAIN requests
        /\ \A j \in DOMAIN requests : /\ Leaves[j].call = requests[j].call /\ Leaves[j].then = requests[j].then
                                     /\ Leaves[j].stage = requests[j].stage /\ ~Leaves[j].live
    BY <1>3, LeavesSame
  <2>2. Plain(Leaves)
    BY <1>4, <2>1 DEF Plain, Kind, LivePage
  <2>3. rs \in Seq(Requests)
    BY <2>1, Removed
  <2>4. PICK at \in [DOMAIN rs -> DOMAIN Leaves] : \A j \in DOMAIN rs : rs[j] = Leaves[at[j]]
    BY <2>1, WasThere
  <2> HIDE DEF rs
  <2> QED BY <2>2, <2>3, <2>4 DEF Plain
<1>6. /\ r \in Requests /\ r.call = "POST" /\ r.lines = {} /\ r.then = "drop" /\ r.stage = "sent"
  BY RequestMade DEF Callbacks
<1>7. h[local] = {} /\ h \in [Objects -> SUBSET Products]
  BY AgreedRequests
<1> HIDE DEF rs, r, h
<1>8. Sending(r) /\ Kind(r)
  BY <1>6 DEF Sending, Kind
<1>9. /\ Agree(Append(rs, r), stored, h, local, None, "orders", wrapped, {})
      /\ BadgeOK(Append(rs, r), stored, badge, {})
  BY <1>5, <1>6, <1>7, <1>8, AgreedRequests, AgreePosted
<1> QED BY <1>1, <1>2, <1>3, <1>7, <1>9, AgreeKeep

LEMMA RefusedAgrees ==
  ASSUME TypeInv, NEW t \in SUBSET Products, AgreeNow(t), NEW i \in DOMAIN requests, Refused(i)
  PROVE  Agreed'
<1>1. /\ requests \in Seq(Requests) /\ requests[i].stage = "failed" /\ ~Sending(requests[i])
      /\ requests[i].then = "submit"
  BY AgreedRequests DEF Refused, Sending, RequestAgrees, Kind
<1>2. /\ requests' = RemoveAt(requests, i)
      /\ UNCHANGED <<heap, local, shown, page, wrapped, badge, stored>>
  BY <1>1 DEF Refused, CallFails, SubmitFails, Others, services
<1>3. /\ Agree(requests', stored, heap, local, shown, page, wrapped, t)
      /\ Limbo(requests) <=> Limbo(requests')
  BY <1>1, <1>2, AgreeRemoved DEF AgreeNow
<1>4. BadgeOK(requests, stored, badge, t) => BadgeOK(requests', stored, badge, t)
  <2>1. ~Tells(requests[i])
    BY <1>1 DEF Tells
  <2> QED BY <1>1, <1>2, <2>1, BadgeRemoved
<1> QED BY <1>2, <1>3, <1>4, AgreeThen DEF AgreeNow

AgreeInv == Steady => Agreed

LEMMA AgreeInit == SpaInit => AgreeInv
<1> SUFFICES ASSUME SpaInit PROVE Agreed
  BY DEF AgreeInv
<1>1. requests = Start /\ shown = None /\ wrapped = None /\ page = "catalog" /\ local = 1
      /\ stored \in {NoBasket} \cup SUBSET Products
  BY DEF SpaInit
<1>2. PICK t \in SUBSET Products : stored \in Like(t)
  <2>1. CASE stored = NoBasket
    <3>1. stored \in Like({})
      BY <2>1 DEF Like
    <3> QED BY <3>1
  <2>2. CASE stored \in SUBSET Products
    BY <2>2 DEF Like
  <2> QED BY <1>1, <2>1, <2>2
<1>3. Agree(Start, stored, heap, 1, None, "catalog", None, t) /\ BadgeOK(Start, stored, badge, t)
  BY <1>2, SpaAssumption, AgreeStart
<1> QED BY <1>1, <1>3 DEF Agreed, AgreeNow

LEMMA AgreeNext == TypeInv /\ TypeInv' /\ AgreeInv /\ [SpaNext]_spaVars => AgreeInv'
<1> SUFFICES ASSUME TypeInv, TypeInv', AgreeInv, [SpaNext]_spaVars, Steady'
             PROVE  Agreed'
  BY DEF AgreeInv
<1>1. PICK t \in SUBSET Products : AgreeNow(t)
  <2>1. mishaps \subseteq mishaps'
    BY Remembered
  <2> QED BY <2>1 DEF AgreeInv, Agreed, Steady, Spared
<1>2. CASE UNCHANGED spaVars
  <2>1. /\ UNCHANGED <<requests, stored, heap, local, shown, page, wrapped, badge>>
    BY <1>2 DEF spaVars, tab, component, services
  <2> QED BY <1>1, <2>1, AgreeThen DEF AgreeNow
<1>3. CASE UserStep
  <2>1. ~CheckOutTooSoon
    <3>1. ~Mishap("blank", TRUE)
      BY NotSo
    <3> QED BY <3>1 DEF CheckOutTooSoon
  <2> QED BY <1>1, <1>3, <2>1, AddToCartAgrees, DeleteItemAgrees, NavigateAgrees, GoForwardToOrderAgrees,
             ItemQuantityChangedAgrees, CheckOutAgrees, SubmitFormAgrees, ReloadAgrees
      DEF UserStep
<1>4. ASSUME NEW i \in DOMAIN requests, Serve(i) \/ Lose(i) \/ Callback(i) PROVE Agreed'
  <2>1. ~Lose(i)
    <3>1. ~Mishap("loss", TRUE)
      BY NotSo
    <3> QED BY <3>1 DEF Lose
  <2> QED BY <1>1, <1>4, <2>1, ServeAgrees, LoadedAgrees, BadgeArrivesAgrees, PageArrivesAgrees,
             BasketChangedAgrees, CheckedOutAgrees, SubmittedAgrees, RefusedAgrees
      DEF Callback
<1> QED BY <1>1, <1>2, <1>3, <1>4, OrderStartsAgrees DEF SpaNext

LEMMA AgreedInTheEnd == TypeInv /\ AgreeInv => TabAgreesWithServer
<1> SUFFICES ASSUME TypeInv, AgreeInv, requests = <<>>, Steady
             PROVE  /\ heap[local] = (IF stored = NoBasket THEN {} ELSE stored)
                    /\ badge = Cardinality(heap[local])
  BY DEF TabAgreesWithServer, Steady
<1>1. PICK t \in SUBSET Products : AgreeNow(t)
  BY DEF AgreeInv, Agreed
<1>2. DOMAIN requests = {} /\ Len(requests) = 0
  OBVIOUS
<1>3. ~Limbo(requests)
  BY <1>2 DEF Limbo
<1>4. heap[local] = t /\ stored \in Like(t)
  BY <1>1, <1>2, <1>3 DEF AgreeNow, Agree, Ends
<1>5. badge = Cardinality(t)
  BY <1>1, <1>2, <1>3 DEF AgreeNow, BadgeOK
<1>6. t = IF stored = NoBasket THEN {} ELSE stored
  <2>1. t # NoBasket /\ (stored = t \/ (t = {} /\ stored = NoBasket))
    BY <1>1, <1>4, AgreedRequests DEF Like
  <2>2. CASE stored = t
    BY <2>1, <2>2
  <2>3. CASE t = {} /\ stored = NoBasket
    BY <2>3
  <2> QED BY <2>1, <2>2, <2>3
<1> QED BY <1>4, <1>5, <1>6

\* Whenever nothing is under way, the tab holds the basket the server holds and its badge counts
\* the lines, unless a product was added before the basket was there or Checkout was clicked before
\* the page had one, or a request overtook another or was lost, or Ordering emptied the basket late.
THEOREM TabAgreesWithServerCorrect == SpaSpec => []TabAgreesWithServer
BY SpaTypeInit, SpaTypeNext, AgreeInit, AgreeNext, AgreedInTheEnd, PTL DEF SpaSpec

---------------------------------------------------------------------------
(***************************************************************************)
(* Nothing is ordered twice.  What the tab or the server holds, or will    *)
(* hold, are products that have been ordered less often than they were put *)
(* into the basket.                                                        *)
(***************************************************************************)
Ordering(os, p) == {k \in DOMAIN os : p \in os[k].lines}

Orderable(os, ad) == {p \in Products : Cardinality(Ordering(os, p)) < ad[p]}

\* The basket page has been left for good once a checkout is called, and no other checkout
\* begins before the basket has been emptied.
RequestFits(r, i, sh, pg) ==
    /\ Kind(r)
    /\ r.then = "load" => i = 1 /\ sh = None /\ pg # "order"
    /\ r.then = "checkOut" => pg # "order"
    /\ r.then = "submit" => sh = None /\ (pg = "order" => r.live)

PairFits(rs, i, j) ==
    /\ rs[i].then = "load" => rs[j].then \notin {"checkOut", "submit", "drop"}
    /\ rs[i].then = "checkOut" => rs[j].then # "submit" /\ (rs[j].then = "checkOut" => i = j)
    /\ rs[i].then = "submit" => (rs[j].then = "submit" => i = j) /\ (rs[j].then = "drop" => j < i)
    /\ LivePage(rs[i]) /\ rs[j].then \in {"submit", "drop"} => j < i

Fit(rs, sh, pg) ==
    /\ \A i \in DOMAIN rs : RequestFits(rs[i], i, sh, pg)
    /\ \A i, j \in DOMAIN rs : PairFits(rs, i, j)

\* After the i-th request the server's basket will be emptied.
Dropped(rs, i) == \E k \in DOMAIN rs : i < k /\ rs[k].then = "drop" /\ Sending(rs[k])

\* The tab waits for the lines that the request brings.
Brings(r) == (r.then = "load" \/ LivePage(r)) /\ r.stage = "answered"

\* The lines that may still be ordered are among those of A.
Within(rs, s, h, l, sh, A) ==
    /\ h[l] \subseteq A
    /\ sh # None => h[sh] \subseteq A
    /\ s = NoBasket \/ s \subseteq A \/ Dropped(rs, 0)
    /\ \A i \in DOMAIN rs : /\ Sending(rs[i]) => rs[i].lines \subseteq A \/ Dropped(rs, i)
                            /\ Brings(rs[i]) => rs[i].lines \subseteq A

Once(rs, s, h, l, sh, pg, A) ==
    /\ l # None
    /\ Fit(rs, sh, pg)
    /\ Limbo(rs) \/ Within(rs, s, h, l, sh, A)

Counted(os, ad) == \A p \in Products : Cardinality(Ordering(os, p)) <= ad[p]

OnceNow ==
    /\ Once(requests, stored, heap, local, shown, page, Orderable(orders, added))
    /\ Counted(orders, added)

Uncrowded == Spared({"overtaken", "loss", "history", "blank", "again"})

\* A request leaves the list that brings no limbo to an end.
LEMMA OnceRemoved ==
  ASSUME NEW rs \in Seq(Requests), NEW s, NEW h, NEW l, NEW sh, NEW pg, NEW A,
         Once(rs, s, h, l, sh, pg, A), NEW i \in DOMAIN rs, ~Sending(rs[i]),
         NEW less, less = RemoveAt(rs, i)
  PROVE  /\ Fit(less, sh, pg)
         /\ ~(rs[i].then = "submit" /\ rs[i].stage = "answered") => Once(less, s, h, l, sh, pg, A)
<1>1. PICK at \in [DOMAIN less -> DOMAIN rs] :
          /\ \A j \in DOMAIN less : at[j] # i /\ less[j] = rs[at[j]] /\ j <= at[j]
          /\ \A j, k \in DOMAIN less : at[j] < at[k] <=> j < k
          /\ \A m \in DOMAIN rs : m # i => \E j \in DOMAIN less : at[j] = m
  BY WasThere
<1>2. DOMAIN rs = 1 .. Len(rs) /\ DOMAIN less \subseteq Nat \ {0}
  BY RemovedDomain
<1>3. ASSUME NEW j \in DOMAIN less PROVE RequestFits(less[j], j, sh, pg)
  <2> DEFINE a == at[j]
  <2>1. a \in DOMAIN rs /\ less[j] = rs[a] /\ (a = 1 => j = 1)
    BY <1>1, <1>2
  <2> HIDE DEF a
  <2>2. RequestFits(rs[a], a, sh, pg)
    BY <2>1 DEF Once, Fit
  <2> QED BY <2>1, <2>2 DEF RequestFits
<1>4. ASSUME NEW j \in DOMAIN less, NEW k \in DOMAIN less PROVE PairFits(less, j, k)
  <2> DEFINE a == at[j]
             b == at[k]
  <2>1. a \in DOMAIN rs /\ less[j] = rs[a] /\ b \in DOMAIN rs /\ less[k] = rs[b]
    BY <1>1
  <2>2. /\ a < b <=> j < k
        /\ b < a <=> k < j
    BY <1>1
  <2>3. a = b => j = k
    <3>1. ~(j < k) /\ ~(k < j) => j = k
      BY <1>2
    <3>2. a = b => ~(a < b) /\ ~(b < a)
      BY <1>2, <2>1
    <3> QED BY <2>2, <3>1, <3>2
  <2> HIDE DEF a, b
  <2>4. PairFits(rs, a, b)
    BY <2>1 DEF Once, Fit
  <2> QED BY <2>1, <2>2, <2>3, <2>4 DEF PairFits
<1>5. Fit(less, sh, pg)
  BY <1>3, <1>4 DEF Fit
<1>6. ASSUME ~(rs[i].then = "submit" /\ rs[i].stage = "answered"), Limbo(rs) PROVE Limbo(less)
  <2>1. PICK m \in DOMAIN rs : rs[m].then = "submit" /\ rs[m].stage = "answered"
    BY <1>6 DEF Limbo
  <2>2. PICK j \in DOMAIN less : at[j] = m
    BY <1>1, <1>6, <2>1
  <2> QED BY <1>1, <2>1, <2>2 DEF Limbo
<1>7. ASSUME Within(rs, s, h, l, sh, A) PROVE Within(less, s, h, l, sh, A)
  <2>1. ASSUME NEW m \in DOMAIN rs, rs[m].then = "drop", Sending(rs[m])
        PROVE  \E k \in DOMAIN less : at[k] = m /\ 0 < k /\ less[k].then = "drop" /\ Sending(less[k])
    <3>1. PICK k \in DOMAIN less : at[k] = m
      BY <1>1, <2>1
    <3> QED BY <1>1, <1>2, <2>1, <3>1
  <2>2. Dropped(rs, 0) => Dropped(less, 0)
    BY <2>1 DEF Dropped
  <2>3. ASSUME NEW j \in DOMAIN less, Dropped(rs, at[j]) PROVE Dropped(less, j)
    <3>1. PICK m \in DOMAIN rs : at[j] < m /\ rs[m].then = "drop" /\ Sending(rs[m])
      BY <2>3 DEF Dropped
    <3>2. PICK k \in DOMAIN less : at[k] = m /\ less[k].then = "drop" /\ Sending(less[k])
      BY <2>1, <3>1
    <3>3. j < k
      BY <1>1, <3>1, <3>2
    <3> QED BY <3>2, <3>3 DEF Dropped
  <2>4. \A j \in DOMAIN less : at[j] \in DOMAIN rs /\ less[j] = rs[at[j]]
    BY <1>1
  <2> QED BY <1>7, <2>2, <2>3, <2>4 DEF Within
<1> QED BY <1>5, <1>6, <1>7 DEF Once

\* The components change, and with them what the requests call back.
LEMMA OnceRelabelled ==
  ASSUME NEW rs \in Seq(Requests), NEW s, NEW h, NEW l, NEW sh, NEW pg, NEW A,
         Once(rs, s, h, l, sh, pg, A), NEW new, NEW pg2,
         pg2 = "order" => \A i \in DOMAIN rs : rs[i].then \notin {"load", "checkOut", "submit"},
         DOMAIN new = DOMAIN rs,
         \A i \in DOMAIN rs : /\ new[i].call = rs[i].call /\ new[i].then = rs[i].then
                              /\ new[i].lines = rs[i].lines /\ new[i].of = rs[i].of
                              /\ new[i].stage = rs[i].stage /\ ~new[i].live
  PROVE  Once(new, s, h, l, None, pg2, A)
<1>1. \A i \in DOMAIN rs : ~LivePage(new[i]) /\ (Sending(new[i]) <=> Sending(rs[i])) /\ (Brings(new[i]) => Brings(rs[i]))
  BY DEF LivePage, Sending, Brings
<1>2. \A i \in DOMAIN new : RequestFits(new[i], i, None, pg2)
  BY DEF Once, Fit, RequestFits, Kind
<1>3. ASSUME NEW i \in DOMAIN new, NEW j \in DOMAIN new PROVE PairFits(new, i, j)
  <2>1. PairFits(rs, i, j)
    BY DEF Once, Fit
  <2> QED BY <1>1, <2>1 DEF PairFits
<1>4. Limbo(rs) => Limbo(new)
  BY DEF Limbo
<1>5. \A i : Dropped(rs, i) => Dropped(new, i)
  BY <1>1 DEF Dropped
<1>6. Within(rs, s, h, l, sh, A) => Within(new, s, h, l, None, A)
  BY <1>1, <1>5 DEF Within
<1> QED BY <1>2, <1>3, <1>4, <1>6 DEF Once, Fit

\* What a request that is sent next must be.
Follows(r, rs, sh, pg) ==
    /\ Kind(r) /\ r.stage = "sent" /\ r.then # "load"
    /\ r.then = "checkOut" => pg # "order" /\ \A i \in DOMAIN rs : rs[i].then \notin {"load", "checkOut", "submit"}
    /\ r.then = "submit" => /\ sh = None /\ (pg = "order" => r.live)
                            /\ \A i \in DOMAIN rs : rs[i].then \notin {"load", "checkOut", "submit"} /\ ~LivePage(rs[i])
    /\ r.then = "drop" => \A i \in DOMAIN rs : rs[i].then \notin {"load", "submit"} /\ ~LivePage(rs[i])

\* A request is sent.
LEMMA FitAppended ==
  ASSUME NEW rs \in Seq(Requests), NEW sh, NEW pg, Fit(rs, sh, pg), NEW r \in Requests, Follows(r, rs, sh, pg)
  PROVE  Fit(Append(rs, r), sh, pg)
<1> DEFINE more == Append(rs, r)
           N    == Len(rs)
<1>1. /\ N \in Nat /\ DOMAIN rs = 1 .. N /\ Len(more) = N + 1 /\ DOMAIN more = 1 .. N + 1
      /\ more[N + 1] = r /\ \A i \in 1 .. N : more[i] = rs[i]
  OBVIOUS
<1> HIDE DEF more
<1>2. \A i \in DOMAIN more : (i = N + 1 /\ more[i] = r) \/ (i \in DOMAIN rs /\ more[i] = rs[i] /\ i < N + 1)
  BY <1>1
<1> HIDE DEF N
<1>3. \A i \in DOMAIN more : RequestFits(more[i], i, sh, pg)
  BY <1>2 DEF RequestFits, Fit, Follows
<1>4. ASSUME NEW i \in DOMAIN more, NEW j \in DOMAIN more PROVE PairFits(more, i, j)
  <2>1. CASE i \in DOMAIN rs /\ more[i] = rs[i] /\ j \in DOMAIN rs /\ more[j] = rs[j]
    BY <2>1 DEF PairFits, Fit
  <2>2. CASE i = N + 1 /\ more[i] = r /\ j \in DOMAIN rs /\ more[j] = rs[j] /\ j < N + 1
    BY <2>2 DEF PairFits, Follows
  <2>3. CASE i \in DOMAIN rs /\ more[i] = rs[i] /\ j = N + 1 /\ more[j] = r
    BY <2>3 DEF PairFits, Follows
  <2>4. CASE i = N + 1 /\ j = N + 1 /\ more[i] = r
    BY <2>4 DEF PairFits, LivePage
  <2> QED BY <1>2, <2>1, <2>2, <2>3, <2>4
<1> QED BY <1>3, <1>4 DEF Fit, more

LEMMA OnceAppended ==
  ASSUME NEW rs \in Seq(Requests), NEW s, NEW h, NEW l, NEW sh, NEW pg, NEW A,
         Once(rs, s, h, l, sh, pg, A), NEW r \in Requests, Follows(r, rs, sh, pg),
         Sending(r) => Limbo(rs) \/ r.lines \subseteq A
  PROVE  Append(rs, r) \in Seq(Requests) /\ Once(Append(rs, r), s, h, l, sh, pg, A)
<1> DEFINE more == Append(rs, r)
           N    == Len(rs)
<1>1. /\ N \in Nat /\ DOMAIN rs = 1 .. N /\ Len(more) = N + 1 /\ DOMAIN more = 1 .. N + 1
      /\ more[N + 1] = r /\ (\A i \in 1 .. N : more[i] = rs[i]) /\ more \in Seq(Requests)
  OBVIOUS
<1>2. Fit(more, sh, pg)
  BY FitAppended DEF Once
<1> HIDE DEF more
<1>3. \A i \in DOMAIN more : (i = N + 1 /\ more[i] = r) \/ (i \in DOMAIN rs /\ more[i] = rs[i])
  BY <1>1
<1>4. \A i \in DOMAIN rs : i \in DOMAIN more /\ more[i] = rs[i]
  BY <1>1
<1> HIDE DEF N
<1>5. Limbo(rs) => Limbo(more)
  BY <1>4 DEF Limbo
<1>6. \A i : Dropped(rs, i) => Dropped(more, i)
  BY <1>4 DEF Dropped
<1>7. ~Brings(r)
  BY DEF Brings, Follows
<1>8. ASSUME ~Limbo(rs), Within(rs, s, h, l, sh, A) PROVE Within(more, s, h, l, sh, A)
  <2>1. \A i \in DOMAIN more : /\ Sending(more[i]) => more[i].lines \subseteq A \/ Dropped(more, i)
                               /\ Brings(more[i]) => more[i].lines \subseteq A
    BY <1>3, <1>6, <1>7, <1>8 DEF Within
  <2> QED BY <1>6, <1>8, <2>1 DEF Within
<1> QED BY <1>1, <1>2, <1>5, <1>8 DEF Once, more

\* The tab empties its basket after a checkout.
LEMMA OnceDropped ==
  ASSUME NEW rs \in Seq(Requests), NEW s, NEW h, NEW l, l # None, NEW pg, NEW A, Fit(rs, None, pg),
         NEW r \in Requests, Follows(r, rs, None, pg), r.then = "drop", r.call = "POST", r.lines = {}, h[l] = {}
  PROVE  Once(Append(rs, r), s, h, l, None, pg, A)
<1> DEFINE more == Append(rs, r)
           N    == Len(rs)
<1>1. /\ N \in Nat /\ DOMAIN rs = 1 .. N /\ Len(more) = N + 1 /\ DOMAIN more = 1 .. N + 1
      /\ more[N + 1] = r /\ (\A i \in 1 .. N : more[i] = rs[i])
  OBVIOUS
<1>2. Fit(more, None, pg)
  BY FitAppended
<1> HIDE DEF more
<1>3. Sending(r)
  BY DEF Sending, Follows
<1>4. \A i \in 0 .. N : Dropped(more, i)
  BY <1>1, <1>3 DEF Dropped
<1>5. \A i \in DOMAIN more : (i = N + 1 /\ more[i] = r) \/ (i \in DOMAIN rs /\ more[i] = rs[i] /\ i \in 0 .. N)
  BY <1>1
<1>6. 0 \in 0 .. N
  BY <1>1
<1> HIDE DEF N
<1>7. \A i \in DOMAIN more : ~Brings(more[i])
  BY <1>5 DEF Brings, Follows
<1>8. Within(more, s, h, l, None, A)
  BY <1>4, <1>5, <1>6, <1>7 DEF Within
<1> QED BY <1>2, <1>8 DEF Once, more

\* The objects that matter hold other lines.
LEMMA OnceHeap ==
  ASSUME NEW rs, NEW s, NEW h, NEW l, NEW sh, NEW pg, NEW A, Once(rs, s, h, l, sh, pg, A),
         NEW h2, NEW l2, l2 # None, Limbo(rs) \/ (h2[l2] \subseteq A /\ (sh # None => h2[sh] \subseteq A))
  PROVE  Once(rs, s, h2, l2, sh, pg, A)
BY DEF Once, Within

\* More may be ordered.
LEMMA OnceMore ==
  ASSUME NEW rs, NEW s, NEW h, NEW l, NEW sh, NEW pg, NEW A, Once(rs, s, h, l, sh, pg, A),
         NEW B, A \subseteq B
  PROVE  Once(rs, s, h, l, sh, pg, B)
<1>1. \A C : C \subseteq A => C \subseteq B
  OBVIOUS
<1>2. Within(rs, s, h, l, sh, A) => Within(rs, s, h, l, sh, B)
  BY <1>1 DEF Within
<1> QED BY <1>2 DEF Once

\* The server's basket is deleted.
LEMMA OnceErased ==
  ASSUME NEW rs, NEW s, NEW h, NEW l, NEW sh, NEW pg, NEW A, Once(rs, s, h, l, sh, pg, A)
  PROVE  Once(rs, NoBasket, h, l, sh, pg, A)
BY DEF Once, Within

\* The basket page has its basket.
LEMMA OnceShown ==
  ASSUME NEW rs, NEW s, NEW h, NEW l, NEW pg, NEW A, Once(rs, s, h, l, None, pg, A),
         \A i \in DOMAIN rs : rs[i].then \notin {"load", "submit"}, NEW sh, h[sh] \subseteq A
  PROVE  Once(rs, s, h, l, sh, pg, A)
BY DEF Once, Fit, RequestFits, Within

\* A tab has just been loaded.
LEMMA OnceStart ==
  ASSUME NEW s, NEW h, NEW l, l # None, NEW A, s = NoBasket \/ s \subseteq A, h[l] = {}
  PROVE  Once(Start, s, h, l, None, "catalog", A)
<1> DEFINE a == Get("load")
           b == Get("badge")
<1>1. /\ a.call = "GET" /\ a.then = "load" /\ a.stage = "sent"
      /\ b.call = "GET" /\ b.then = "badge" /\ b.stage = "sent"
  BY RequestMade DEF Get, Callbacks
<1>2. Start = <<a, b>>
  BY DEF Start
<1> HIDE DEF a, b
<1>3. DOMAIN Start = {1, 2} /\ Start[1] = a /\ Start[2] = b
  BY <1>2
<1>4. \A i \in DOMAIN Start : /\ Start[i].call = "GET" /\ Start[i].then \in {"load", "badge"}
                              /\ Start[i].stage = "sent" /\ (Start[i].then = "load" => i = 1)
  BY <1>1, <1>3
<1>5. \A i \in DOMAIN Start : ~Sending(Start[i]) /\ ~LivePage(Start[i]) /\ Kind(Start[i]) /\ ~Brings(Start[i])
  BY <1>4 DEF Sending, LivePage, Kind, Brings
<1>6. Fit(Start, None, "catalog")
  <2>1. \A i \in DOMAIN Start : RequestFits(Start[i], i, None, "catalog")
    BY <1>4, <1>5 DEF RequestFits
  <2>2. \A i, j \in DOMAIN Start : PairFits(Start, i, j)
    BY <1>4, <1>5 DEF PairFits
  <2> QED BY <2>1, <2>2 DEF Fit
<1>7. Within(Start, s, h, l, None, A)
  BY <1>5 DEF Within
<1> QED BY <1>6, <1>7 DEF Once

\* The first request of those the network still carries is served.
LEMMA OnceAnswered ==
  ASSUME NEW rs \in Seq(Requests), NEW s, NEW h, NEW l, NEW sh, NEW pg, NEW A,
         Once(rs, s, h, l, sh, pg, A), NEW i \in DOMAIN rs, rs[i].stage = "sent",
         \A j \in 1 .. i - 1 : rs[j].stage # "sent",
         NEW s2, NEW r \in Requests, AnswerTo(rs[i], r, s, s2),
         NEW new \in Seq(Requests), Len(new) = Len(rs), new[i] = r, \A j \in DOMAIN rs : j # i => new[j] = rs[j]
  PROVE  Once(new, s2, h, l, sh, pg, A)
<1> USE DEF AnswerTo
<1>1. DOMAIN rs = 1 .. Len(rs) /\ Len(rs) \in Nat /\ DOMAIN new = DOMAIN rs
  OBVIOUS
<1>2. /\ Kind(rs[i]) => Kind(r)
      /\ r.then = rs[i].then /\ (LivePage(r) <=> LivePage(rs[i])) /\ ~Sending(r)
  BY DEF Kind, LivePage, Sending
<1>3. ASSUME NEW j \in DOMAIN new
      PROVE  /\ new[j].then = rs[j].then /\ (LivePage(new[j]) <=> LivePage(rs[j]))
             /\ Kind(rs[j]) => Kind(new[j])
             /\ new[j].live = rs[j].live
  <2>1. CASE j = i
    BY <1>2, <2>1
  <2>2. CASE j # i
    BY <1>1, <2>2
  <2> QED BY <2>1, <2>2
<1>4. Fit(new, sh, pg)
  <2>1. \A j \in DOMAIN new : RequestFits(new[j], j, sh, pg)
    BY <1>1, <1>3 DEF RequestFits, Once, Fit
  <2>2. ASSUME NEW j \in DOMAIN new, NEW k \in DOMAIN new PROVE PairFits(new, j, k)
    <3>1. PairFits(rs, j, k)
      BY <1>1 DEF Once, Fit
    <3> QED BY <1>3, <3>1 DEF PairFits
  <2> QED BY <2>1, <2>2 DEF Fit
<1>5. Limbo(rs) => Limbo(new)
  <2> SUFFICES ASSUME NEW j \in DOMAIN rs, rs[j].then = "submit", rs[j].stage = "answered" PROVE Limbo(new)
    BY DEF Limbo
  <2>1. j # i
    OBVIOUS
  <2> QED BY <1>1, <2>1 DEF Limbo
<1>6. ASSUME Within(rs, s, h, l, sh, A) PROVE Within(new, s2, h, l, sh, A)
  <2>1. ASSUME NEW j \in {0} \cup DOMAIN rs, Dropped(rs, j), i <= j PROVE Dropped(new, j)
    <3>1. PICK k \in DOMAIN rs : j < k /\ rs[k].then = "drop" /\ Sending(rs[k])
      BY <2>1 DEF Dropped
    <3>2. k # i
      BY <1>1, <2>1, <3>1
    <3> QED BY <1>1, <3>1, <3>2 DEF Dropped
\* Nothing before the request is under way to the server.
  <2>2. \A k \in DOMAIN rs : Sending(rs[k]) => k = i \/ i < k
    <3> SUFFICES ASSUME NEW k \in DOMAIN rs, Sending(rs[k]), ~(k = i), ~(i < k) PROVE FALSE
      OBVIOUS
    <3>1. k \in 1 .. i - 1
      BY <1>1
    <3> QED BY <3>1 DEF Sending
  <2>3. \A j \in DOMAIN new : Sending(new[j]) => i < j /\ new[j] = rs[j]
    <3> SUFFICES ASSUME NEW j \in DOMAIN new, Sending(new[j]) PROVE i < j /\ new[j] = rs[j]
      OBVIOUS
    <3>1. j # i
      BY <1>2
    <3> QED BY <1>1, <2>2, <3>1
  <2>4. ASSUME NEW j \in DOMAIN new, Sending(new[j]) PROVE new[j].lines \subseteq A \/ Dropped(new, j)
    <3>1. i < j /\ new[j] = rs[j] /\ j \in DOMAIN rs
      BY <1>1, <2>3, <2>4
    <3>2. rs[j].lines \subseteq A \/ Dropped(rs, j)
      BY <1>6, <2>4, <3>1 DEF Within
    <3>3. i <= j
      BY <1>1, <3>1
    <3> QED BY <2>1, <3>1, <3>2, <3>3
  <2>5. ASSUME NEW k \in DOMAIN rs, rs[k].then = "drop", k # i, Sending(rs[k]) PROVE Dropped(new, 0)
    <3>1. 0 < k /\ new[k] = rs[k] /\ k \in DOMAIN new
      BY <1>1, <2>5
    <3> QED BY <2>5, <3>1 DEF Dropped
  <2>6. s2 = NoBasket \/ s2 \subseteq A \/ Dropped(new, 0)
    <3>1. CASE rs[i].call = "POST"
      <4>1. s2 = rs[i].lines /\ Sending(rs[i])
        BY <3>1 DEF Sending
      <4>2. CASE rs[i].lines \subseteq A
        BY <4>1, <4>2
      <4>3. CASE Dropped(rs, i)
        <5>1. PICK k \in DOMAIN rs : i < k /\ rs[k].then = "drop" /\ Sending(rs[k])
          BY <4>3 DEF Dropped
        <5>2. k # i
          BY <1>1, <5>1
        <5> QED BY <2>5, <5>1, <5>2
      <4> QED BY <1>6, <4>1, <4>2, <4>3 DEF Within
    <3>2. CASE rs[i].call # "POST"
      <4>1. s2 = s /\ ~Sending(rs[i])
        BY <3>2 DEF Sending
      <4>2. CASE Dropped(rs, 0)
        BY <2>5, <4>1, <4>2 DEF Dropped
      <4> QED BY <1>6, <4>1, <4>2 DEF Within
    <3> QED BY <3>1, <3>2
  <2>7. ASSUME Brings(r) PROVE r.lines \subseteq A
    <3>1. rs[i].then = "load" \/ LivePage(rs[i])
      BY <1>2, <2>7 DEF Brings
    <3>2. r.call = "GET" /\ RequestFits(rs[i], i, sh, pg)
      <4>1. RequestFits(rs[i], i, sh, pg)
        BY DEF Once, Fit
      <4> QED BY <3>1, <4>1 DEF RequestFits, Kind, LivePage
    <3>3. ~Dropped(rs, 0)
      <4> SUFFICES ASSUME NEW k \in DOMAIN rs, rs[k].then = "drop", Sending(rs[k]) PROVE FALSE
        BY DEF Dropped
      <4>1. PairFits(rs, i, k)
        BY DEF Once, Fit
      <4>2. k < i
        BY <3>1, <4>1 DEF PairFits
      <4> QED BY <1>1, <2>2, <4>2
    <3>4. s = NoBasket \/ s \subseteq A
      BY <1>6, <3>3 DEF Within
    <3>5. CASE s = NoBasket
      <4>1. r.lines = {}
        BY <3>2, <3>5
      <4> QED BY <4>1
    <3>6. CASE s # NoBasket /\ s \subseteq A
      BY <3>2, <3>6
    <3> QED BY <3>4, <3>5, <3>6
  <2>8. \A j \in DOMAIN new : Brings(new[j]) => new[j].lines \subseteq A
    <3> SUFFICES ASSUME NEW j \in DOMAIN new, Brings(new[j]) PROVE new[j].lines \subseteq A
      OBVIOUS
    <3>1. CASE j = i
      BY <2>7, <3>1
    <3>2. CASE j # i
      BY <1>1, <1>6, <3>2 DEF Within
    <3> QED BY <3>1, <3>2
  <2> QED BY <1>6, <2>4, <2>6, <2>8 DEF Within
<1> QED BY <1>4, <1>5, <1>6 DEF Once

\* One more order.
LEMMA OrderCounted ==
  ASSUME NEW S, NEW os \in Seq(S), NEW o \in S, NEW p
  PROVE  /\ p \in o.lines => Cardinality(Ordering(Append(os, o), p)) = Cardinality(Ordering(os, p)) + 1
         /\ p \notin o.lines => Cardinality(Ordering(Append(os, o), p)) = Cardinality(Ordering(os, p))
         /\ Cardinality(Ordering(os, p)) \in Nat
<1> DEFINE more == Append(os, o)
           N    == Len(os)
<1>1. /\ N \in Nat /\ DOMAIN os = 1 .. N /\ DOMAIN more = 1 .. N + 1
      /\ more[N + 1] = o /\ \A k \in 1 .. N : more[k] = os[k]
  OBVIOUS
<1> HIDE DEF more, N
<1>2. /\ p \in o.lines => Ordering(more, p) = Ordering(os, p) \cup {N + 1}
      /\ p \notin o.lines => Ordering(more, p) = Ordering(os, p)
      /\ N + 1 \notin Ordering(os, p)
  BY <1>1 DEF Ordering
<1>3. IsFiniteSet(Ordering(os, p))
  <2>1. Ordering(os, p) \subseteq 1 .. N /\ IsFiniteSet(1 .. N)
    BY <1>1, FS_Interval DEF Ordering
  <2> QED BY <2>1, FS_Subset
<1>4. Cardinality(Ordering(os, p)) \in Nat
  BY <1>3, FS_CardinalityType
<1>5. Cardinality(Ordering(os, p) \cup {N + 1}) = Cardinality(Ordering(os, p)) + 1
  BY <1>2, <1>3, FS_AddElement
<1> QED BY <1>2, <1>4, <1>5 DEF more

LEMMA NotThis ==
  ASSUME Uncrowded', NEW m \in {"overtaken", "loss", "history", "blank", "again"}, NEW condition,
         Mishap(m, condition)
  PROVE  ~condition
BY DEF Uncrowded, Spared, Mishap

\* What OnceNow says of the requests.
LEMMA OnceRequests ==
  ASSUME TypeInv, OnceNow, NEW A, A = Orderable(orders, added)
  PROVE  /\ requests \in Seq(Requests) /\ heap \in [Objects -> SUBSET Products]
         /\ local \in Objects /\ local # None
         /\ Once(requests, stored, heap, local, shown, page, A)
         /\ Limbo(requests) \/ heap[local] \subseteq A
         /\ \A i \in DOMAIN requests : requests[i] \in Requests /\ RequestFits(requests[i], i, shown, page)
         /\ \A i, j \in DOMAIN requests : PairFits(requests, i, j)
         /\ shown # None => /\ shown \in Objects /\ page = "basket" /\ heap[shown] \subseteq A /\ ~Limbo(requests)
                            /\ \A i \in DOMAIN requests : requests[i].then \notin {"load", "submit"}
<1>1. /\ requests \in Seq(Requests) /\ heap \in [Objects -> SUBSET Products] /\ local \in {None} \cup Objects
      /\ shown \in {None} \cup Objects /\ (shown # None => page = "basket")
  BY DEF TypeInv, OthersOK, RequestsOK
<1>2. Once(requests, stored, heap, local, shown, page, A)
  BY DEF OnceNow
<1>3. \A i \in DOMAIN requests : requests[i] \in Requests /\ RequestFits(requests[i], i, shown, page)
  BY <1>1, <1>2 DEF Once, Fit
<1>4. \A i, j \in DOMAIN requests : PairFits(requests, i, j)
  BY <1>2 DEF Once, Fit
<1>5. shown # None => ~Limbo(requests) /\ \A i \in DOMAIN requests : requests[i].then \notin {"load", "submit"}
  BY <1>3 DEF RequestFits, Limbo
<1> QED BY <1>1, <1>2, <1>3, <1>4, <1>5 DEF Once, Within

\* No product is put into the basket and none is ordered.
LEMMA OnceThen ==
  ASSUME OnceNow, UNCHANGED history, NEW A, A = Orderable(orders, added),
         Once(requests', stored', heap', local', shown', page', A)
  PROVE  OnceNow'
BY DEF OnceNow, history

\* Collecting the objects nobody holds makes no difference.
LEMMA OnceKeep ==
  ASSUME OnceNow, UNCHANGED history, TypeInv', NEW h \in [Objects -> SUBSET Products], Keep(h),
         NEW A, A = Orderable(orders, added), Once(requests', stored', h, local', shown', page', A)
  PROVE  OnceNow'
<1>1. \A x \in Objects : x \in InUse' => heap'[x] = h[x]
  BY KeepOK
<1>2. /\ local' # None
      /\ local' # None => heap'[local'] = h[local']
      /\ shown' # None => heap'[shown'] = h[shown']
  BY <1>1 DEF TypeInv, OthersOK, InUse, Once
<1>3. Once(requests', stored', heap', local', shown', page', A)
  <2>1. Limbo(requests') \/ (heap'[local'] \subseteq A /\ (shown' # None => heap'[shown'] \subseteq A))
    BY <1>2 DEF Once, Within
  <2> QED BY <1>2, <2>1, OnceHeap
<1> QED BY <1>3, OnceThen

\* An answer that has been waited for is the first.
LEMMA AnswerFirst ==
  ASSUME TypeInv, OnceNow, Uncrowded', NEW i \in DOMAIN requests, NEW then, Answered(i, then)
  PROVE  /\ i = 1 /\ requests[i] \in Requests /\ requests[i].stage = "answered" /\ requests[i].then \in then
         /\ ~Sending(requests[i]) /\ stored' = stored /\ UNCHANGED history
<1>1. /\ requests \in Seq(Requests) /\ requests[i].stage = "answered" /\ requests[i].then \in then
      /\ UNCHANGED history /\ stored' = stored
  BY DEF Answered, services, TypeInv, RequestsOK
<1>2. ~(i > 1)
  BY NotThis DEF Answered
<1> QED BY <1>1, <1>2 DEF Sending

LEMMA LeavesOnce ==
  ASSUME TypeInv, OnceNow, NEW A, A = Orderable(orders, added), NEW pg,
         pg = "order" => \A i \in DOMAIN requests : requests[i].then \notin {"load", "checkOut", "submit"}
  PROVE  Leaves \in Seq(Requests) /\ Once(Leaves, stored, heap, local, None, pg, A)
BY OnceRequests, LeavesSame, OnceRelabelled

LEMMA AddToCartOnce ==
  ASSUME TypeInv, TypeInv', OnceNow, NEW p \in Products, AddToCart(p)
  PROVE  OnceNow'
<1> DEFINE A == Orderable(orders, added)
           B == Orderable(orders, added')
           u == heap'[local]
           r == Request("POST", "change", u, None)
<1>1. /\ page = "catalog" /\ requests' = Append(requests, r) /\ heap' = [heap EXCEPT ![local] = @ \cup {p}]
      /\ local' = local /\ shown' = shown /\ page' = page /\ stored' = stored /\ orders' = orders
      /\ added' = IF p \in heap[local] THEN added ELSE [added EXCEPT ![p] = @ + 1]
      /\ shown = None /\ added \in [Products -> Nat]
  BY DEF AddToCart, Post, component, services, TypeInv, OthersOK
<1>2. /\ requests \in Seq(Requests) /\ heap \in [Objects -> SUBSET Products] /\ local \in Objects /\ local # None
      /\ Once(requests, stored, heap, local, shown, page, A)
      /\ Limbo(requests) \/ heap[local] \subseteq A
  BY OnceRequests
<1>3. u = heap[local] \cup {p} /\ u \in SUBSET Products
  BY <1>1, <1>2
\* The number of orders does not grow.
<1>4. \A q \in Products : Cardinality(Ordering(orders, q)) <= added[q] /\ Cardinality(Ordering(orders, q)) \in Nat
  <2>1. orders \in Seq([lines : SUBSET Products, listed : SUBSET Products])
    BY DEF TypeInv, OthersOK
  <2>2. ASSUME NEW q \in Products PROVE Cardinality(Ordering(orders, q)) \in Nat
    <3>1. Ordering(orders, q) \subseteq 1 .. Len(orders) /\ IsFiniteSet(1 .. Len(orders))
      BY <2>1, FS_Interval DEF Ordering
    <3> QED BY <3>1, FS_Subset, FS_CardinalityType
  <2> QED BY <2>2 DEF OnceNow, Counted
<1>5. A \subseteq B /\ Counted(orders, added') /\ (p \notin heap[local] => p \in B)
  <2>1. CASE p \in heap[local]
    <3>1. added' = added
      BY <1>1, <2>1
    <3> QED BY <2>1, <3>1 DEF OnceNow
  <2>2. CASE p \notin heap[local]
    <3>1. \A q \in Products : added'[q] = (IF q = p THEN added[q] + 1 ELSE added[q]) /\ added[q] \in Nat
      BY <1>1, <2>2
    <3> DEFINE C(q) == Cardinality(Ordering(orders, q))
    <3>2. \A q \in Products : C(q) <= added[q] /\ C(q) \in Nat
      BY <1>4
    <3>3. \A q \in Products : /\ C(q) <= added'[q]
                              /\ C(q) < added[q] => C(q) < added'[q]
                              /\ C(p) < added'[p]
      <4> HIDE DEF C
      <4> QED BY <3>1, <3>2
    <3> QED BY <3>3 DEF Orderable, Counted
  <2> QED BY <2>1, <2>2
<1>6. Limbo(requests) \/ u \subseteq B
  BY <1>2, <1>3, <1>5
<1>7. /\ r \in Requests /\ r.call = "POST" /\ r.lines = u /\ r.then = "change" /\ r.stage = "sent"
  BY <1>3, RequestMade DEF Callbacks
<1>u. u = heap'[local]
  OBVIOUS
<1> HIDE DEF A, B, u, r
<1>8. Follows(r, requests, shown, page)
  BY <1>7 DEF Follows, Kind
<1>9. Once(requests, stored, heap', local, shown, page, B)
  <2>1. Once(requests, stored, heap, local, shown, page, B)
    BY <1>2, <1>5, OnceMore
  <2>2. Limbo(requests) \/ (heap'[local] \subseteq B /\ (shown # None => heap'[shown] \subseteq B))
    BY <1>1, <1>6, <1>u
  <2> QED BY <1>2, <2>1, <2>2, OnceHeap
<1>10. Once(Append(requests, r), stored, heap', local, shown, page, B)
  BY <1>2, <1>6, <1>7, <1>8, <1>9, OnceAppended
<1> QED BY <1>1, <1>5, <1>10 DEF OnceNow, B

LEMMA NavigateOnce ==
  ASSUME TypeInv, TypeInv', OnceNow, NEW to, Navigate(to)
  PROVE  OnceNow'
<1> DEFINE A == Orderable(orders, added)
<1>1. /\ page' = to /\ shown' = None /\ to # "order" /\ Keep(heap) /\ local' = local /\ stored' = stored
      /\ UNCHANGED history
  BY DEF Navigate, services
<1>2. Leaves \in Seq(Requests) /\ Once(Leaves, stored, heap, local, None, to, A)
  BY <1>1, LeavesOnce
<1>3. Once(requests', stored, heap, local, None, to, A)
  <2>1. CASE to = "basket" /\ local # None
    <3> DEFINE r == Request("GET", "page", {}, None)
    <3>1. requests' = Append(Leaves, r)
      BY <2>1 DEF Navigate, Get
    <3>2. r \in Requests /\ r.stage = "sent" /\ r.call = "GET" /\ r.then = "page"
      BY RequestMade DEF Callbacks
    <3> HIDE DEF r, A
    <3>3. Follows(r, Leaves, None, to) /\ ~Sending(r)
      BY <3>2 DEF Follows, Kind, Sending
    <3> QED BY <1>2, <3>1, <3>2, <3>3, OnceAppended
  <2>2. CASE ~(to = "basket" /\ local # None)
    <3>1. requests' = Leaves
      BY <2>2 DEF Navigate
    <3> QED BY <1>2, <3>1
  <2> QED BY <2>1, <2>2
<1>4. A = Orderable(orders, added)
  OBVIOUS
<1> HIDE DEF A
<1> QED BY <1>1, <1>3, <1>4, OnceRequests, OnceKeep

\* The checkout that is posted is the only one.
Alone(rs, r) == r.then = "checkOut" => \A i \in DOMAIN rs : rs[i].then # "checkOut"

\* What the basket page shows is posted, the service's basket from now on.
LEMMA PostedOnce ==
  ASSUME NEW rs \in Seq(Requests), NEW s, NEW h, NEW x, NEW l, x # None, NEW pg, pg # "order", NEW A,
         Once(rs, s, h, l, x, pg, A), NEW r \in Requests, r.call = "POST", r.stage = "sent",
         r.then \in {"change", "none", "checkOut"}, r.lines \subseteq A, Alone(rs, r),
         NEW h2, h2[x] \subseteq A
  PROVE  Append(rs, r) \in Seq(Requests) /\ Once(Append(rs, r), s, h2, x, x, pg, A)
<1>1. Once(rs, s, h2, x, x, pg, A)
  BY OnceHeap
<1>2. Follows(r, rs, x, pg)
  <2>1. \A i \in DOMAIN rs : rs[i].then \notin {"load", "submit"}
    BY DEF Once, Fit, RequestFits
  <2> QED BY <2>1 DEF Follows, Kind, Alone
<1> QED BY <1>1, <1>2, OnceAppended

LEMMA DeleteItemOnce ==
  ASSUME TypeInv, TypeInv', OnceNow, NEW p, DeleteItem(p)
  PROVE  OnceNow'
<1> DEFINE A == Orderable(orders, added)
           h == [heap EXCEPT ![shown] = @ \ {p}]
           u == heap[shown] \ {p}
           r == Request("POST", "change", u, None)
<1>1. /\ shown # None /\ Keep(h) /\ shown \in Objects /\ requests' = Append(requests, r)
      /\ local' = shown /\ shown' = shown /\ page' = page /\ stored' = stored /\ UNCHANGED history
  BY DEF DeleteItem, SetBasket, Post, component, services, TypeInv, OthersOK
<1>2. /\ requests \in Seq(Requests) /\ heap \in [Objects -> SUBSET Products] /\ page # "order"
      /\ Once(requests, stored, heap, local, shown, page, A) /\ heap[shown] \subseteq A
  BY <1>1, OnceRequests
<1>3. u \in SUBSET Products /\ u \subseteq A /\ h[shown] \subseteq A /\ h \in [Objects -> SUBSET Products]
  BY <1>1, <1>2
<1>4. A = Orderable(orders, added)
  OBVIOUS
<1> HIDE DEF A, h, u
<1>p. /\ r \in Requests /\ r.call = "POST" /\ r.lines = u /\ r.then \in {"change", "none"} /\ r.stage = "sent"
  BY <1>3, RequestMade DEF Callbacks
<1> HIDE DEF r
<1>a. Alone(requests, r)
  BY <1>p DEF Alone
<1>5. Once(Append(requests, r), stored, h, shown, shown, page, A)
  BY <1>1, <1>2, <1>3, <1>p, <1>a, PostedOnce
<1> QED BY <1>1, <1>3, <1>4, <1>5, OnceKeep

LEMMA ItemQuantityChangedOnce ==
  ASSUME TypeInv, TypeInv', OnceNow, ItemQuantityChanged
  PROVE  OnceNow'
<1> DEFINE A == Orderable(orders, added)
           u == heap[shown]
           r == Request("POST", "none", u, None)
<1>1. /\ shown # None /\ Keep(heap) /\ shown \in Objects /\ requests' = Append(requests, r)
      /\ local' = shown /\ shown' = shown /\ page' = page /\ stored' = stored /\ UNCHANGED history
  BY DEF ItemQuantityChanged, SetBasket, Post, component, services, TypeInv, OthersOK
<1>2. /\ requests \in Seq(Requests) /\ heap \in [Objects -> SUBSET Products] /\ page # "order"
      /\ Once(requests, stored, heap, local, shown, page, A) /\ heap[shown] \subseteq A
  BY <1>1, OnceRequests
<1>3. u \in SUBSET Products /\ u \subseteq A
  BY <1>1, <1>2
<1>4. A = Orderable(orders, added)
  OBVIOUS
<1> HIDE DEF A, u
<1>p. /\ r \in Requests /\ r.call = "POST" /\ r.lines = u /\ r.then \in {"change", "none"} /\ r.stage = "sent"
  BY <1>3, RequestMade DEF Callbacks
<1> HIDE DEF r
<1>a. Alone(requests, r)
  BY <1>p DEF Alone
<1>5. Once(Append(requests, r), stored, heap, shown, shown, page, A)
  BY <1>1, <1>2, <1>3, <1>p, <1>a, PostedOnce
<1> QED BY <1>1, <1>2, <1>4, <1>5, OnceKeep

LEMMA CheckOutOnce ==
  ASSUME TypeInv, TypeInv', OnceNow, Uncrowded', CheckOut
  PROVE  OnceNow'
<1> DEFINE A == Orderable(orders, added)
           u == heap[shown]
           a == Request("POST", "none", u, None)
           b == Request("POST", "checkOut", u, shown)
<1>1. /\ shown # None /\ shown \in Objects /\ Keep(heap) /\ requests' = requests \o <<a, b>>
      /\ local' = shown /\ shown' = shown /\ page' = page /\ stored' = stored /\ UNCHANGED history
  BY DEF CheckOut, SetBasket, Post, component, services, TypeInv, OthersOK
<1>2. /\ requests \in Seq(Requests) /\ heap \in [Objects -> SUBSET Products] /\ page # "order"
      /\ Once(requests, stored, heap, local, shown, page, A) /\ heap[shown] \subseteq A
  BY <1>1, OnceRequests
<1>3. u \in SUBSET Products /\ u \subseteq A
  BY <1>1, <1>2
<1>4. A = Orderable(orders, added)
  OBVIOUS
<1>5. \A i \in DOMAIN requests : requests[i].then # "checkOut"
  <2>1. ~CheckingOut
    BY NotThis DEF CheckOut
  <2> QED BY <2>1 DEF CheckingOut
<1> HIDE DEF A, u
<1>p. /\ a \in Requests /\ a.call = "POST" /\ a.lines = u /\ a.then = "none" /\ a.stage = "sent"
      /\ b \in Requests /\ b.call = "POST" /\ b.lines = u /\ b.then = "checkOut" /\ b.stage = "sent"
  BY <1>1, <1>3, RequestMade DEF Callbacks
<1> HIDE DEF a, b
<1> DEFINE rs == Append(requests, a)
<1>6. rs \in Seq(Requests) /\ Once(rs, stored, heap, shown, shown, page, A)
  <2>1. Alone(requests, a)
    BY <1>p DEF Alone
  <2> QED BY <1>1, <1>2, <1>3, <1>p, <2>1, PostedOnce
<1>7. Alone(rs, b)
  <2>1. \A i \in DOMAIN rs : rs[i] = a \/ (i \in DOMAIN requests /\ rs[i] = requests[i])
    BY <1>2
  <2> HIDE DEF rs
  <2> QED BY <1>5, <1>p, <2>1 DEF Alone
<1> HIDE DEF rs
<1>8. Once(Append(rs, b), stored, heap, shown, shown, page, A)
  BY <1>1, <1>2, <1>3, <1>6, <1>7, <1>p, PostedOnce
<1>9. requests' = Append(Append(requests, a), b)
  BY <1>1, <1>2, <1>p, TwoMore
<1> QED BY <1>1, <1>2, <1>4, <1>8, <1>9, OnceKeep DEF rs

LEMMA SubmitFormOnce ==
  ASSUME TypeInv, OnceNow, SubmitForm
  PROVE  OnceNow'
<1> DEFINE A == Orderable(orders, added)
           r == Request("checkout", "submit", summary, None)
<1>1. /\ page = "order" /\ ~processing /\ requests' = Append(requests, r) /\ summary \in SUBSET Products
      /\ UNCHANGED <<heap, local, shown, page, stored>> /\ UNCHANGED history
  BY DEF SubmitForm, services, TypeInv, OthersOK
<1>2. /\ r \in Requests /\ r.stage = "sent" /\ r.call = "checkout" /\ r.then = "submit" /\ r.live
  BY <1>1, RequestMade DEF Callbacks
<1>3. A = Orderable(orders, added)
  OBVIOUS
<1> HIDE DEF r, A
<1>4. /\ requests \in Seq(Requests) /\ Once(requests, stored, heap, local, shown, page, A)
  BY <1>3, OnceRequests
<1>5. Follows(r, requests, shown, page) /\ ~Sending(r)
  <2>1. shown = None /\ \A i \in DOMAIN requests : ~LivePage(requests[i]) /\ ~LiveSubmit(requests[i])
    BY <1>1 DEF TypeInv, OthersOK, RequestsOK
  <2>2. \A i \in DOMAIN requests : requests[i].then \notin {"load", "checkOut", "submit"}
    BY <1>1, <1>4, <2>1 DEF Once, Fit, RequestFits, LiveSubmit
  <2> QED BY <1>2, <2>1, <2>2 DEF Follows, Kind, Sending
<1>6. Once(Append(requests, r), stored, heap, local, shown, page, A)
  BY <1>2, <1>4, <1>5, OnceAppended
<1> QED BY <1>1, <1>3, <1>6, OnceThen

LEMMA ReloadOnce ==
  ASSUME TypeInv, OnceNow, Uncrowded', Reload
  PROVE  OnceNow'
<1> DEFINE A == Orderable(orders, added)
<1>1. /\ local' = 1 /\ shown' = None /\ page' = "catalog" /\ stored' = stored /\ UNCHANGED history
      /\ heap' = [x \in Objects |-> {}] /\ Mishap("loss", requests # <<>>)
  BY DEF Reload, services
<1>2. requests = <<>>
  BY <1>1, NotThis
<1>3. requests' = Start
  BY <1>2, ReloadedIdle
<1>4. stored = NoBasket \/ stored \subseteq A
  <2>1. DOMAIN requests = {}
    BY <1>2
  <2>2. Once(requests, stored, heap, local, shown, page, A)
    BY DEF OnceNow
  <2> QED BY <2>1, <2>2 DEF Once, Limbo, Within, Dropped
<1>5. 1 # None /\ heap'[1] = {}
  BY <1>1, SpaAssumption
<1>6. A = Orderable(orders, added)
  OBVIOUS
<1> HIDE DEF A
<1>7. Once(Start, stored, heap', 1, None, "catalog", A)
  BY <1>4, <1>5, OnceStart
<1> QED BY <1>1, <1>3, <1>6, <1>7, OnceThen

\* The products of a new order could still be ordered.  Afterwards perhaps no more, which is
\* why nothing is claimed of the baskets until the tab has emptied its own.
LEMMA OrderOnce ==
  ASSUME TypeInv, OnceNow, NEW i \in DOMAIN requests, requests[i].stage = "sent", requests[i].call = "checkout",
         \A j \in 1 .. i - 1 : requests[j].stage # "sent", stored # NoBasket,
         orders' = Append(orders, [lines |-> stored, listed |-> requests[i].lines]), added' = added
  PROVE  Counted(orders', added')
<1> DEFINE A == Orderable(orders, added)
           o == [lines |-> stored, listed |-> requests[i].lines]
           S == [lines : SUBSET Products, listed : SUBSET Products]
<1>1. /\ requests \in Seq(Requests) /\ DOMAIN requests \subseteq Nat /\ requests[i] \in Requests
      /\ orders \in Seq(S) /\ added \in [Products -> Nat] /\ stored \in SUBSET Products
  BY DEF TypeInv, OthersOK, RequestsOK
<1>2. o \in S /\ o.lines = stored
  BY <1>1, RequestType
<1>3. requests[i].then = "submit" /\ \A j \in DOMAIN requests : PairFits(requests, i, j)
  <2>1. RequestFits(requests[i], i, shown, page) /\ \A j \in DOMAIN requests : PairFits(requests, i, j)
    BY OnceRequests
  <2> QED BY <2>1 DEF RequestFits, Kind
<1>4. ~Limbo(requests)
  <2> SUFFICES ASSUME NEW j \in DOMAIN requests, requests[j].then = "submit", requests[j].stage = "answered"
               PROVE  FALSE
    BY DEF Limbo
  <2>1. j = i
    BY <1>3 DEF PairFits
  <2> QED BY <2>1
<1>5. ~Dropped(requests, 0)
  <2> SUFFICES ASSUME NEW k \in DOMAIN requests, 0 < k, requests[k].then = "drop", Sending(requests[k])
               PROVE  FALSE
    BY DEF Dropped
  <2>1. k < i
    BY <1>3 DEF PairFits
  <2>2. k \in 1 .. i - 1
    BY <1>1, <2>1
  <2> QED BY <2>2 DEF Sending
<1>6. stored \subseteq A
  BY <1>4, <1>5, OnceRequests DEF Once, Within
<1> SUFFICES ASSUME NEW p \in Products PROVE Cardinality(Ordering(Append(orders, o), p)) <= added[p]
  BY DEF Counted
<1> DEFINE n == Cardinality(Ordering(orders, p))
<1>7. n <= added[p] /\ (p \in stored => n < added[p]) /\ added[p] \in Nat
  BY <1>1, <1>6 DEF OnceNow, Counted, Orderable
<1> HIDE DEF o, S
<1>8. /\ n \in Nat
      /\ p \in stored => Cardinality(Ordering(Append(orders, o), p)) = n + 1
      /\ p \notin stored => Cardinality(Ordering(Append(orders, o), p)) = n
  BY <1>1, <1>2, OrderCounted
<1> HIDE DEF n
<1> QED BY <1>7, <1>8

LEMMA ServeOnce ==
  ASSUME TypeInv, OnceNow, Uncrowded', NEW i \in DOMAIN requests, Serve(i)
  PROVE  OnceNow'
<1> DEFINE A == Orderable(orders, added)
<1>1. /\ requests \in Seq(Requests) /\ requests[i] \in Requests
      /\ Once(requests, stored, heap, local, shown, page, A)
  BY OnceRequests
<1>2. /\ requests[i].stage = "sent" /\ \A j \in 1 .. i - 1 : requests[j].stage # "sent"
      /\ UNCHANGED <<heap, local, shown, page, added>>
  BY NotThis DEF Serve, Overtakes, component
<1>3. PICK r \in Requests :
          /\ AnswerTo(requests[i], r, stored, stored')
          /\ requests' = IF requests[i].then = "none" THEN Others(i) ELSE [requests EXCEPT ![i] = r]
          /\ \/ orders' = orders
             \/ /\ orders' = Append(orders, [lines |-> stored, listed |-> requests[i].lines])
                /\ requests[i].call = "checkout" /\ r.stage = "answered" /\ stored # NoBasket
  BY ServedSo
<1> DEFINE new == [requests EXCEPT ![i] = r]
<1>4. new \in Seq(Requests) /\ Len(new) = Len(requests) /\ DOMAIN new = DOMAIN requests
      /\ new[i] = r /\ \A j \in DOMAIN requests : j # i => new[j] = requests[j]
  BY <1>1, <1>3
<1>5. new = [requests EXCEPT ![i] = r] /\ A = Orderable(orders, added)
  OBVIOUS
<1> HIDE DEF new, A
<1>6. Once(new, stored', heap, local, shown, page, A)
  BY <1>1, <1>2, <1>3, <1>4, OnceAnswered
<1>7. Once(requests', stored', heap, local, shown, page, A)
  <2>1. CASE requests[i].then = "none"
    <3>1. requests' = RemoveAt(new, i)
      BY <1>1, <1>3, <1>4, <2>1, SameWithout DEF Others
    <3>2. ~Sending(new[i]) /\ new[i].then = "none"
      BY <1>3, <1>4, <2>1 DEF Sending, AnswerTo
    <3> QED BY <1>4, <1>6, <3>1, <3>2, OnceRemoved
  <2>2. CASE requests[i].then # "none"
    <3>1. requests' = new
      BY <1>3, <1>5, <2>2
    <3> QED BY <1>6, <3>1
  <2> QED BY <2>1, <2>2
<1>8. CASE orders' = orders
  BY <1>2, <1>5, <1>7, <1>8, OnceThen DEF history
<1>9. CASE /\ orders' = Append(orders, [lines |-> stored, listed |-> requests[i].lines])
           /\ requests[i].call = "checkout" /\ r.stage = "answered" /\ stored # NoBasket
  <2>1. requests[i].then = "submit"
    <3>1. RequestFits(requests[i], i, shown, page)
      BY OnceRequests
    <3> QED BY <1>9, <3>1 DEF RequestFits, Kind
  <2>2. requests' = new /\ r.then = "submit"
    BY <1>3, <1>5, <2>1 DEF AnswerTo
  <2>3. Limbo(requests')
    BY <1>4, <1>9, <2>2 DEF Limbo
  <2>4. Once(requests', stored', heap', local', shown', page', Orderable(orders', added'))
    BY <1>2, <1>7, <2>3 DEF Once
  <2>5. Counted(orders', added')
    BY <1>2, <1>9, OrderOnce
  <2> QED BY <2>4, <2>5 DEF OnceNow
<1> QED BY <1>3, <1>8, <1>9

LEMMA OrderStartsOnce ==
  ASSUME TypeInv, OnceNow, OrderStarts
  PROVE  OnceNow'
<1>1. stored' = NoBasket /\ UNCHANGED <<requests, heap, local, shown, page>> /\ UNCHANGED history
  BY DEF OrderStarts, tab, component
<1>2. Once(requests, NoBasket, heap, local, shown, page, Orderable(orders, added))
  BY OnceErased DEF OnceNow
<1> QED BY <1>1, <1>2, OnceThen

LEMMA LoadedOnce ==
  ASSUME TypeInv, OnceNow, Uncrowded', NEW i \in DOMAIN requests, Loaded(i)
  PROVE  OnceNow'
<1> DEFINE A == Orderable(orders, added)
<1>1. /\ Answered(i, {"load"}) /\ requests' = RemoveAt(requests, i) /\ UNCHANGED <<local, page, shown>>
      /\ heap' = [heap EXCEPT ![local] = requests[i].lines]
  BY OnceRequests DEF Loaded, component, Others
<1>2. /\ requests[i].then = "load" /\ requests[i].stage = "answered" /\ ~Sending(requests[i])
      /\ stored' = stored /\ UNCHANGED history
  BY <1>1, AnswerFirst
<1>3. /\ requests \in Seq(Requests) /\ heap \in [Objects -> SUBSET Products] /\ local \in Objects /\ local # None
      /\ Once(requests, stored, heap, local, shown, page, A)
  BY OnceRequests
<1>4. shown = None /\ ~Limbo(requests)
  <2>1. RequestFits(requests[i], i, shown, page) /\ \A j \in DOMAIN requests : PairFits(requests, i, j)
    BY OnceRequests
  <2> QED BY <1>2, <2>1 DEF RequestFits, PairFits, Limbo
<1>5. heap'[local] \subseteq A
  <2>1. Brings(requests[i])
    BY <1>2 DEF Brings
  <2>2. requests[i].lines \subseteq A
    BY <1>3, <1>4, <2>1 DEF Once, Within
  <2> QED BY <1>1, <1>3, <2>2
<1>6. A = Orderable(orders, added)
  OBVIOUS
<1> HIDE DEF A
<1>7. Once(requests, stored, heap', local, shown, page, A)
  <2>1. Limbo(requests) \/ (heap'[local] \subseteq A /\ (shown # None => heap'[shown] \subseteq A))
    BY <1>4, <1>5
  <2> QED BY <1>3, <2>1, OnceHeap
<1>8. Once(requests', stored, heap', local, shown, page, A)
  BY <1>1, <1>2, <1>3, <1>7, OnceRemoved
<1> QED BY <1>1, <1>2, <1>6, <1>8, OnceThen

\* An answer leaves the list, and the tab need not empty its basket for it.
LEMMA AnswerOnce ==
  ASSUME TypeInv, OnceNow, Uncrowded', NEW i \in DOMAIN requests, NEW then, Answered(i, then),
         requests[i].then # "submit", NEW A, A = Orderable(orders, added)
  PROVE  Others(i) \in Seq(Requests) /\ Once(Others(i), stored, heap, local, shown, page, A)
<1>1. requests \in Seq(Requests) /\ Once(requests, stored, heap, local, shown, page, A)
  BY OnceRequests
<1>2. ~Sending(requests[i])
  BY AnswerFirst
<1> QED BY <1>1, <1>2, OthersKnown, OnceRemoved DEF Others

LEMMA BadgeArrivesOnce ==
  ASSUME TypeInv, OnceNow, Uncrowded', NEW i \in DOMAIN requests, BadgeArrives(i)
  PROVE  OnceNow'
<1>1. Answered(i, {"badge"}) /\ requests' = Others(i) /\ UNCHANGED <<heap, local, page, shown>>
  BY DEF BadgeArrives, component
<1>2. requests[i].then = "badge" /\ stored' = stored /\ UNCHANGED history
  BY <1>1, AnswerFirst
<1>3. Once(Others(i), stored, heap, local, shown, page, Orderable(orders, added))
  BY <1>1, <1>2, AnswerOnce
<1> QED BY <1>1, <1>2, <1>3, OnceThen

LEMMA BasketChangedOnce ==
  ASSUME TypeInv, OnceNow, Uncrowded', NEW i \in DOMAIN requests, BasketChanged(i)
  PROVE  OnceNow'
<1> DEFINE A == Orderable(orders, added)
           r == Get("badge")
<1>1. /\ Answered(i, {"change", "drop"}) /\ requests' = Append(Others(i), r)
      /\ UNCHANGED <<heap, local, page, shown>>
  BY OnceRequests DEF BasketChanged, component
<1>2. requests[i].then \in {"change", "drop"} /\ stored' = stored /\ UNCHANGED history
  BY <1>1, AnswerFirst
<1>3. Others(i) \in Seq(Requests) /\ Once(Others(i), stored, heap, local, shown, page, A)
  BY <1>1, <1>2, AnswerOnce
<1>4. r \in Requests /\ r.call = "GET" /\ r.then = "badge" /\ r.stage = "sent"
  BY RequestMade DEF Get, Callbacks
<1>5. A = Orderable(orders, added)
  OBVIOUS
<1> HIDE DEF r, A
<1>6. Follows(r, Others(i), shown, page) /\ ~Sending(r)
  BY <1>4 DEF Follows, Kind, Sending
<1>7. Once(Append(Others(i), r), stored, heap, local, shown, page, A)
  BY <1>3, <1>4, <1>6, OnceAppended
<1> QED BY <1>1, <1>2, <1>5, <1>7, OnceThen

LEMMA PageArrivesOnce ==
  ASSUME TypeInv, OnceNow, Uncrowded', NEW i \in DOMAIN requests, PageArrives(i)
  PROVE  OnceNow'
<1> DEFINE A == Orderable(orders, added)
<1>1. Answered(i, {"page"}) /\ requests' = Others(i) /\ UNCHANGED <<local, page>>
  BY DEF PageArrives
<1>2. /\ i = 1 /\ requests[i].then = "page" /\ requests[i].stage = "answered" /\ stored' = stored
      /\ UNCHANGED history
  BY <1>1, AnswerFirst
<1>3. A = Orderable(orders, added)
  OBVIOUS
<1>4. Others(i) \in Seq(Requests) /\ Once(Others(i), stored, heap, local, shown, page, A)
  BY <1>1, <1>2, AnswerOnce
<1> HIDE DEF A
<1>5. CASE ~requests[i].live
  <2>1. UNCHANGED <<heap, shown>>
    BY <1>5 DEF PageArrives
  <2> QED BY <1>1, <1>2, <1>3, <1>4, <2>1, OnceThen
<1>6. CASE requests[i].live
  <2>1. PICK x \in Objects \ InUse : heap' = [heap EXCEPT ![x] = requests[i].lines] /\ shown' = x
    BY <1>6 DEF PageArrives
  <2>2. /\ requests \in Seq(Requests) /\ heap \in [Objects -> SUBSET Products]
        /\ local \in Objects /\ local # None
        /\ Once(requests, stored, heap, local, shown, page, A)
    BY <1>3, OnceRequests
  <2>3. DOMAIN requests \subseteq Nat \ {0}
    BY <2>2
  <2>4. ASSUME NEW k \in DOMAIN requests PROVE requests[k].then # "submit" /\ (k # i => requests[k].then # "load")
    <3>1. RequestFits(requests[k], k, shown, page) /\ PairFits(requests, i, k)
      BY OnceRequests
    <3>2. ~(k < i)
      BY <1>2, <2>3
    <3> QED BY <1>2, <1>6, <3>1, <3>2 DEF RequestFits, PairFits, LivePage
  <2>5. ~Limbo(requests)
    BY <2>4 DEF Limbo
  <2>6. \A j \in DOMAIN Others(i) : Others(i)[j].then \notin {"load", "submit"}
    BY <2>2, <2>4, OthersKnown
  <2>7. heap'[x] \subseteq A /\ heap'[local] = heap[local] /\ heap[local] \subseteq A
    <3>1. Brings(requests[i])
      BY <1>2, <1>6 DEF Brings, LivePage
    <3>2. requests[i].lines \subseteq A /\ heap[local] \subseteq A
      BY <2>2, <2>5, <3>1 DEF Once, Within
    <3>3. x # local
      BY DEF InUse
    <3> QED BY <2>1, <2>2, <3>2, <3>3
  <2>8. Once(Others(i), stored, heap, local, None, page, A)
    BY <1>4 DEF Once, Fit, RequestFits, Within
  <2>9. Once(Others(i), stored, heap', local, None, page, A)
    BY <2>2, <2>7, <2>8, OnceHeap
  <2>10. Once(Others(i), stored, heap', local, x, page, A)
    BY <2>6, <2>7, <2>9, OnceShown
  <2> QED BY <1>1, <1>2, <1>3, <2>1, <2>10, OnceThen
<1> QED BY <1>5, <1>6

LEMMA CheckedOutOnce ==
  ASSUME TypeInv, TypeInv', OnceNow, Uncrowded', NEW i \in DOMAIN requests, CheckedOut(i)
  PROVE  OnceNow'
<1> DEFINE A == Orderable(orders, added)
<1>1. Answered(i, {"checkOut"}) /\ Keep(heap) /\ local' = local
  BY DEF CheckedOut
<1>2. /\ requests[i].then = "checkOut" /\ requests[i].stage = "answered" /\ ~Sending(requests[i])
      /\ stored' = stored /\ UNCHANGED history
  BY <1>1, AnswerFirst
<1>3. /\ requests \in Seq(Requests) /\ heap \in [Objects -> SUBSET Products]
      /\ \A k \in DOMAIN requests : PairFits(requests, i, k) /\ PairFits(requests, k, i)
      /\ RequestFits(requests[i], i, shown, page)
  BY OnceRequests
<1>4. page # "order"
  BY <1>2, <1>3 DEF RequestFits
<1>5. requests' = RemoveAt(Leaves, i) /\ shown' = None /\ page' = "order"
  BY <1>4 DEF CheckedOut, OpensOrderPage
\* Leaves keeps the checkout whose callback this is; the list without it opens the order page.
<1>6. \A k \in DOMAIN requests : k # i => requests[k].then \notin {"load", "checkOut", "submit"}
  BY <1>2, <1>3 DEF PairFits
<1>7. /\ Leaves \in Seq(Requests) /\ Once(Leaves, stored, heap, local, None, page, A)
      /\ DOMAIN Leaves = DOMAIN requests
      /\ \A k \in DOMAIN requests : Leaves[k].then = requests[k].then /\ Leaves[k].stage = requests[k].stage
  BY <1>3, <1>4, LeavesOnce, LeavesSame
<1>8. Once(RemoveAt(Leaves, i), stored, heap, local, None, page, A)
  <2>1. Leaves[i].then = "checkOut" /\ ~Sending(Leaves[i])
    BY <1>2, <1>7 DEF Sending
  <2> QED BY <1>7, <2>1, OnceRemoved
<1>9. \A j \in DOMAIN RemoveAt(Leaves, i) : RemoveAt(Leaves, i)[j].then \notin {"load", "checkOut", "submit"}
  <2> DEFINE less == RemoveAt(Leaves, i)
  <2>1. PICK at \in [DOMAIN less -> DOMAIN Leaves] : \A j \in DOMAIN less : at[j] # i /\ less[j] = Leaves[at[j]]
    BY <1>7, WasThere
  <2> HIDE DEF less
  <2>2. \A j \in DOMAIN less : less[j].then \notin {"load", "checkOut", "submit"}
    BY <1>6, <1>7, <2>1
  <2> QED BY <2>2 DEF less
<1>10. A = Orderable(orders, added)
  OBVIOUS
<1> HIDE DEF A
<1>11. Once(RemoveAt(Leaves, i), stored, heap, local, None, "order", A)
  BY <1>8, <1>9 DEF Once, Fit, RequestFits
<1> QED BY <1>1, <1>2, <1>3, <1>5, <1>10, <1>11, OnceKeep

LEMMA SubmittedOnce ==
  ASSUME TypeInv, TypeInv', OnceNow, Uncrowded', NEW i \in DOMAIN requests, Submitted(i)
  PROVE  OnceNow'
<1> DEFINE A  == Orderable(orders, added)
           rs == RemoveAt(Leaves, i)
           r  == Request("POST", "drop", {}, None)
           h  == [heap EXCEPT ![local] = {}]
<1>1. /\ Answered(i, {"submit"}) /\ DropBasket(rs) /\ local' = local /\ page' = "orders" /\ shown' = None
  BY DEF Submitted
<1>2. /\ requests[i].then = "submit" /\ ~Sending(requests[i]) /\ stored' = stored /\ UNCHANGED history
  BY <1>1, AnswerFirst
<1>3. /\ requests \in Seq(Requests) /\ heap \in [Objects -> SUBSET Products] /\ local \in Objects /\ local # None
      /\ \A k \in DOMAIN requests : PairFits(requests, i, k) /\ PairFits(requests, k, i)
  BY OnceRequests
<1>4. requests' = Append(rs, r) /\ Keep(h)
  BY <1>1, <1>3 DEF DropBasket, Post
<1>5. /\ Leaves \in Seq(Requests) /\ Once(Leaves, stored, heap, local, None, "orders", A)
      /\ DOMAIN Leaves = DOMAIN requests
      /\ \A k \in DOMAIN requests : Leaves[k].then = requests[k].then /\ Leaves[k].call = requests[k].call
                                   /\ Leaves[k].stage = requests[k].stage /\ ~Leaves[k].live
  BY <1>3, LeavesOnce, LeavesSame
<1>6. /\ rs \in Seq(Requests) /\ Fit(rs, None, "orders")
  <2>1. ~Sending(Leaves[i])
    BY <1>2, <1>5 DEF Sending
  <2> QED BY <1>5, <2>1, Removed, OnceRemoved
<1>7. \A j \in DOMAIN rs : rs[j].then \notin {"load", "submit"} /\ ~LivePage(rs[j])
  <2>1. PICK at \in [DOMAIN rs -> DOMAIN Leaves] : \A j \in DOMAIN rs : at[j] # i /\ rs[j] = Leaves[at[j]]
    BY <1>5, WasThere
  <2>2. \A k \in DOMAIN requests : k # i => requests[k].then \notin {"load", "submit"}
    BY <1>2, <1>3 DEF PairFits
  <2> HIDE DEF rs
  <2> QED BY <1>5, <2>1, <2>2 DEF LivePage
<1>8. /\ r \in Requests /\ r.call = "POST" /\ r.lines = {} /\ r.then = "drop" /\ r.stage = "sent"
  BY RequestMade DEF Callbacks
<1>9. h[local] = {} /\ h \in [Objects -> SUBSET Products] /\ A = Orderable(orders, added)
  BY <1>3
<1> HIDE DEF A, rs, r, h
<1>10. Follows(r, rs, None, "orders")
  BY <1>7, <1>8 DEF Follows, Kind
<1>11. Once(Append(rs, r), stored, h, local, None, "orders", A)
  BY <1>3, <1>6, <1>8, <1>9, <1>10, OnceDropped
<1> QED BY <1>1, <1>2, <1>4, <1>9, <1>11, OnceKeep

LEMMA RefusedOnce ==
  ASSUME TypeInv, OnceNow, NEW i \in DOMAIN requests, Refused(i)
  PROVE  OnceNow'
<1>1. /\ requests \in Seq(Requests) /\ Once(requests, stored, heap, local, shown, page, Orderable(orders, added))
      /\ requests[i].stage = "failed" /\ ~Sending(requests[i]) /\ requests[i].then = "submit"
  BY OnceRequests DEF Refused, Sending, RequestFits, Kind
<1>2. /\ requests' = RemoveAt(requests, i)
      /\ UNCHANGED <<heap, local, shown, page, stored>> /\ UNCHANGED history
  BY <1>1 DEF Refused, CallFails, SubmitFails, Others, services
<1>3. Once(requests', stored, heap, local, shown, page, Orderable(orders, added))
  BY <1>1, <1>2, OnceRemoved
<1> QED BY <1>2, <1>3, OnceThen

OnceInv == Uncrowded => OnceNow

LEMMA OnceInit == SpaInit => OnceInv
<1> SUFFICES ASSUME SpaInit PROVE OnceNow
  BY DEF OnceInv
<1> DEFINE A == Orderable(orders, added)
<1>1. /\ requests = Start /\ shown = None /\ page = "catalog" /\ local = 1 /\ orders = <<>>
      /\ heap = [x \in Objects |-> {}] /\ stored \in {NoBasket} \cup SUBSET Products
      /\ added = [p \in Products |-> IF stored # NoBasket /\ p \in stored THEN 1 ELSE 0]
  BY DEF SpaInit
<1>2. \A p : Cardinality(Ordering(orders, p)) = 0
  <2>1. \A p : Ordering(orders, p) = {}
    BY <1>1 DEF Ordering
  <2> QED BY <2>1, FS_EmptySet
<1>3. Counted(orders, added)
  BY <1>1, <1>2 DEF Counted
<1>4. stored = NoBasket \/ stored \subseteq A
  BY <1>1, <1>2 DEF Orderable
<1>5. heap[1] = {} /\ 1 # None
  BY <1>1, SpaAssumption
<1> HIDE DEF A
<1>6. Once(Start, stored, heap, 1, None, "catalog", A)
  BY <1>4, <1>5, OnceStart
<1> QED BY <1>1, <1>3, <1>6 DEF OnceNow, A

LEMMA OnceNext == TypeInv /\ TypeInv' /\ OnceInv /\ [SpaNext]_spaVars => OnceInv'
<1> SUFFICES ASSUME TypeInv, TypeInv', OnceInv, [SpaNext]_spaVars, Uncrowded'
             PROVE  OnceNow'
  BY DEF OnceInv
<1>1. OnceNow
  <2>1. mishaps \subseteq mishaps'
    BY Remembered
  <2> QED BY <2>1 DEF OnceInv, Uncrowded, Spared
<1>2. CASE UNCHANGED spaVars
  BY <1>1, <1>2 DEF spaVars, tab, component, services, history, OnceNow
<1>3. CASE UserStep
  <2>1. ~CheckOutTooSoon /\ ~GoForwardToOrder
    <3>1. ~Mishap("blank", TRUE) /\ ~Mishap("history", TRUE)
      BY NotThis
    <3> QED BY <3>1 DEF CheckOutTooSoon, GoForwardToOrder
  <2> QED BY <1>1, <1>3, <2>1, AddToCartOnce, DeleteItemOnce, NavigateOnce, ItemQuantityChangedOnce,
             CheckOutOnce, SubmitFormOnce, ReloadOnce
      DEF UserStep
<1>4. ASSUME NEW i \in DOMAIN requests, Serve(i) \/ Lose(i) \/ Callback(i) PROVE OnceNow'
  <2>1. ~Lose(i)
    <3>1. ~Mishap("loss", TRUE)
      BY NotThis
    <3> QED BY <3>1 DEF Lose
  <2> QED BY <1>1, <1>4, <2>1, ServeOnce, LoadedOnce, BadgeArrivesOnce, PageArrivesOnce, BasketChangedOnce,
             CheckedOutOnce, SubmittedOnce, RefusedOnce
      DEF Callback
<1> QED BY <1>1, <1>2, <1>3, <1>4, OrderStartsOnce DEF SpaNext

\* No product is ordered more often than the user put it into the basket, however often the user
\* adds, deletes, checks out and places orders, unless Checkout is clicked while it is under way or
\* before the page has its basket, a request overtakes another or is lost, or the order page is
\* opened from the browser's history.
THEOREM NothingIsOrderedTwiceCorrect == SpaSpec => []NothingIsOrderedTwice
<1>1. OnceInv => NothingIsOrderedTwice
  BY DEF OnceInv, Uncrowded, OnceNow, Counted, Ordering, NothingIsOrderedTwice
<1> QED BY <1>1, SpaTypeInit, SpaTypeNext, OnceInit, OnceNext, PTL DEF SpaSpec
=============================================================================
