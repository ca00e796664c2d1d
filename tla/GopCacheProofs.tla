--------------------------- MODULE GopCacheProofs ---------------------------
(***************************************************************************)
(* Proofs about the GOP ring, for every gop_cache_num, every frame limit   *)
(* and every stream.  The argument has two layers: lemmas about the ring   *)
(* arithmetic turn a step on slots and indices into a step on the sequence *)
(* CachedGops, and everything else is proved about that sequence.          *)
(***************************************************************************)
EXTENDS GopCache, SequenceTheorems, TLAPS

-----------------------------------------------------------------------------
(***************************************************************************)
(* Ring arithmetic.                                                        *)
(***************************************************************************)

\* The ring has at least one slot.
LEMMA RingSize ==
  /\ Keep \in Nat
  /\ gopSize \in Nat \ {0}
  /\ gopSize = Keep + 1
  /\ Slots = 0 .. Keep
BY GopCacheAssumption DEF Keep, gopSize, Slots

\* The four index computations of gop_cache.go, without the modulo.
LEMMA RingIndices ==
  ASSUME NEW f \in Slots, NEW l \in Slots
  PROVE  /\ (l + 1) % gopSize = IF l = Keep THEN 0 ELSE l + 1
         /\ (l - 1 + gopSize) % gopSize = IF l = 0 THEN Keep ELSE l - 1
         /\ (l + gopSize - f) % gopSize = IF f <= l THEN l - f ELSE l + gopSize - f
         /\ (f + l) % gopSize = IF f + l < gopSize THEN f + l ELSE f + l - gopSize
<1>. USE RingSize
<1>1. (l + 1) % gopSize = IF l = Keep THEN 0 ELSE l + 1
  OBVIOUS
<1>2. (l - 1 + gopSize) % gopSize = IF l = 0 THEN Keep ELSE l - 1
  OBVIOUS
<1>3. (l + gopSize - f) % gopSize = IF f <= l THEN l - f ELSE l + gopSize - f
  <2>1. CASE f <= l
    <3>1. l + gopSize - f = (l - f) + gopSize /\ l - f \in 0 .. Keep
      BY <2>1
    <3>. QED BY <2>1, <3>1
  <2>2. CASE f > l
    BY <2>2
  <2>. QED BY <2>1, <2>2
<1>4. (f + l) % gopSize = IF f + l < gopSize THEN f + l ELSE f + l - gopSize
  <2>1. CASE f + l < gopSize
    BY <2>1
  <2>2. CASE f + l >= gopSize
    <3>. DEFINE r == f + l - gopSize
    <3>1. f + l = r + gopSize /\ r \in 0 .. Keep
      BY <2>2
    <3>2. (r + gopSize) % gopSize = r
      <4>. HIDE DEF r
      <4>. QED BY <3>1
    <3>. QED BY <2>2, <3>1, <3>2
  <2>. QED BY <2>1, <2>2
<1>. QED BY <1>1, <1>2, <1>3, <1>4, Zenon

-----------------------------------------------------------------------------
(***************************************************************************)
(* Type correctness.                                                       *)
(***************************************************************************)

\* A step keeps the indices inside the ring and messages in the slots.
LEMMA TypeStep == TypeOK /\ [Next]_cacheVars => TypeOK'
<1>. USE RingSize, GopCacheAssumption
<1>. SUFFICES ASSUME TypeOK, [Next]_cacheVars
              PROVE  TypeOK'
  OBVIOUS
<1>1. ASSUME fed < MaxMsgs, NEW k \in Kinds, Feed([kind |-> k, seq |-> fed + 1])
      PROVE  TypeOK'
  <2>. DEFINE msg == [kind |-> k, seq |-> fed + 1]
  <2>1. msg \in Message
    BY DEF TypeOK, Message
  <2>2. /\ videoheader' \in Message \cup {NoMsg}
        /\ audioheader' \in Message \cup {NoMsg}
        /\ fed' \in 0 .. MaxMsgs
        /\ hist' \in Seq(Message)
    BY <1>1, <2>1 DEF TypeOK, Feed, FeedHeader
  <2>3. CASE FeedNewGop(msg)
    <3>1. first' \in Slots /\ last' \in Slots
      BY <2>3, RingIndices DEF TypeOK, FeedNewGop
    <3>2. data' \in [Slots -> Seq(Message)]
      BY <2>1, <2>3 DEF TypeOK, FeedNewGop
    <3>. QED BY <2>2, <3>1, <3>2 DEF TypeOK
  <2>4. CASE FeedLastGop(msg)
    <3>1. data' \in [Slots -> Seq(Message)]
      BY <2>1, <2>4, RingIndices DEF TypeOK, FeedLastGop
    <3>. QED BY <2>2, <2>4, <3>1 DEF TypeOK, FeedLastGop
  <2>5. CASE UNCHANGED ring
    BY <2>2, <2>5 DEF TypeOK, ring
  <2>. QED BY <1>1, <2>3, <2>4, <2>5 DEF Feed
<1>2. CASE Clear
  BY <1>2 DEF TypeOK, Clear
<1>3. CASE UNCHANGED cacheVars
  BY <1>3 DEF TypeOK, cacheVars
<1>. QED BY <1>1, <1>2, <1>3 DEF Next, FeedNext

\* The indices stay inside the ring and the slots hold messages, whatever the
\* program feeds to the cache.
THEOREM TypeCorrect == Spec => []TypeOK
<1>1. Init => TypeOK
  BY RingSize, GopCacheAssumption DEF Init, TypeOK
<1>. QED BY <1>1, TypeStep, PTL DEF Spec

-----------------------------------------------------------------------------
(***************************************************************************)
(* From slots to the sequence of cached GOPs.                              *)
(***************************************************************************)

\* The number of GOPs between two indices, the slot of the i-th of them, and
\* the GOPs themselves, all without the modulo.
CountOf(f, l) == IF f <= l THEN l - f ELSE l + gopSize - f
SlotOf(f, i)  == IF f + i - 1 < gopSize THEN f + i - 1 ELSE f + i - 1 - gopSize
PrevOf(l)     == IF l = 0 THEN Keep ELSE l - 1
GopsOf(d, f, l) == [i \in 1 .. CountOf(f, l) |-> d[SlotOf(f, i)]]

\* What a reader of the ring sees through GetGopCount and GetGopDataAt.
LEMMA CachedGopsOf == TypeOK => CachedGops = GopsOf(data, first, last)
<1>. SUFFICES ASSUME TypeOK
              PROVE  CachedGops = GopsOf(data, first, last)
  OBVIOUS
<1>. USE RingSize
<1>1. first \in Slots /\ last \in Slots
  BY DEF TypeOK
<1>2. GetGopCount = CountOf(first, last)
  BY <1>1, RingIndices DEF GetGopCount, CountOf
<1>3. CountOf(first, last) \in 0 .. Keep
  BY <1>1 DEF CountOf
<1>4. ASSUME NEW i \in 1 .. CountOf(first, last)
      PROVE  GetGopDataAt(i - 1) = data[SlotOf(first, i)]
  <2>1. i - 1 \in Slots /\ i - 1 \in 0 .. GetGopCount - 1
    BY <1>2, <1>3, <1>4
  <2>2. (first + (i - 1)) % gopSize = SlotOf(first, i)
    BY <1>1, <2>1, RingIndices DEF SlotOf
  <2>. QED BY <2>1, <2>2 DEF GetGopDataAt
<1>. QED BY <1>2, <1>4 DEF CachedGops, GopsOf

\* The same for the state after a step.
LEMMA CachedGopsOfPrime == TypeOK' => CachedGops' = GopsOf(data', first', last')
<1>1. (TypeOK => CachedGops = GopsOf(data, first, last))'
  BY CachedGopsOf, PTL
<1>. QED BY <1>1 DEF GopsOf, CountOf, SlotOf

\* The cached GOPs are a sequence of at most Keep sequences of messages.
LEMMA GopsOfType ==
  ASSUME NEW f \in Slots, NEW l \in Slots, NEW d \in [Slots -> Seq(Message)]
  PROVE  /\ CountOf(f, l) \in 0 .. Keep
         /\ GopsOf(d, f, l) \in Seq(Seq(Message))
         /\ Len(GopsOf(d, f, l)) = CountOf(f, l)
<1>. USE RingSize
<1>1. CountOf(f, l) \in 0 .. Keep
  BY DEF CountOf
<1>2. ASSUME NEW i \in 1 .. CountOf(f, l)
      PROVE  SlotOf(f, i) \in Slots
  BY <1>1 DEF SlotOf
<1>3. \A i \in 1 .. CountOf(f, l) : d[SlotOf(f, i)] \in Seq(Message)
  BY <1>2
<1>. QED BY <1>1, <1>2, <1>3 DEF GopsOf

\* Which slot holds the i-th GOP, and how many there are, without the modulo.
LEMMA SlotFacts ==
  ASSUME NEW f \in Slots, NEW l \in Slots, NEW i \in 1 .. CountOf(f, l)
  PROVE  /\ SlotOf(f, i) \in Slots
         /\ SlotOf(f, i) = PrevOf(l) <=> i = CountOf(f, l)
BY RingSize DEF CountOf, SlotOf, PrevOf

\* feedLastGop writes to the slot of the newest GOP.
LEMMA PrevFacts ==
  ASSUME NEW l \in Slots
  PROVE  PrevOf(l) \in Slots /\ (l - 1 + gopSize) % gopSize = PrevOf(l)
<1>1. PrevOf(l) \in Slots
  BY RingSize DEF PrevOf
<1>2. (l - 1 + gopSize) % gopSize = PrevOf(l)
  BY RingIndices DEF PrevOf
<1>. QED BY <1>1, <1>2

\* isGopRingFull: all slots but one are in use.
LEMMA RingFull ==
  ASSUME NEW f \in Slots, NEW l \in Slots
  PROVE  (l + 1) % gopSize = f <=> CountOf(f, l) = Keep
<1>. DEFINE wrapped == IF l = Keep THEN 0 ELSE l + 1
<1>1. (l + 1) % gopSize = wrapped
  BY RingIndices
<1>2. CountOf(f, l) = Keep <=> wrapped = f
  BY RingSize DEF CountOf
<1>. HIDE DEF wrapped
<1>. QED BY <1>1, <1>2, Zenon

\* A sequence that agrees with s and has e after it is s with e appended.
LEMMA SeqAppend ==
  ASSUME NEW S, NEW s \in Seq(S), NEW t \in Seq(S), NEW e \in S,
         Len(t) = Len(s) + 1,
         \A i \in 1 .. Len(s) : t[i] = s[i],
         t[Len(s) + 1] = e
  PROVE  t = Append(s, e)
<1>1. /\ Append(s, e) \in Seq(S)
      /\ Len(Append(s, e)) = Len(s) + 1
      /\ \A i \in 1 .. Len(s) + 1 :
           Append(s, e)[i] = IF i = Len(s) + 1 THEN e ELSE s[i]
  OBVIOUS
<1>2. \A i \in 1 .. Len(t) : t[i] = Append(s, e)[i]
  BY <1>1
<1>. QED BY <1>1, <1>2, SeqEqual

\* feedNewGop appends a GOP of one frame, after dropping the oldest one when
\* the ring was full.
LEMMA NewGopStep ==
  ASSUME TypeOK, TypeOK', NEW msg \in Message, Keep > 0, FeedNewGop(msg)
  PROVE  CachedGops' = Append(IF Len(CachedGops) < Keep THEN CachedGops
                              ELSE Tail(CachedGops), <<msg>>)
<1>. DEFINE gops  == GopsOf(data, first, last)
            gops1 == GopsOf(data', first', last')
            kept  == IF Len(gops) < Keep THEN gops ELSE Tail(gops)
<1>. USE RingSize
<1>1. /\ first \in Slots /\ last \in Slots /\ data \in [Slots -> Seq(Message)]
      /\ first' \in Slots /\ last' \in Slots /\ data' \in [Slots -> Seq(Message)]
  BY DEF TypeOK
<1>2. CachedGops = gops /\ CachedGops' = gops1
  BY CachedGopsOf, CachedGopsOfPrime
<1>3. /\ last' = IF last = Keep THEN 0 ELSE last + 1
      /\ data' = [data EXCEPT ![last] = <<msg>>]
  BY <1>1, RingIndices DEF FeedNewGop
<1>4. IsGopRingFull <=> CountOf(first, last) = Keep
  BY <1>1, RingFull DEF IsGopRingFull
<1>5. /\ CountOf(first, last) \in 0 .. Keep
      /\ gops \in Seq(Seq(Message))
      /\ Len(gops) = CountOf(first, last)
  BY <1>1, GopsOfType
<1>6. ASSUME NEW i \in 1 .. CountOf(first, last)
      PROVE  SlotOf(first, i) \in Slots /\ gops[i] = data[SlotOf(first, i)]
  <2>1. SlotOf(first, i) \in Slots
    BY <1>1, SlotFacts
  <2>. QED BY <2>1 DEF GopsOf
<1>7. gops1 \in Seq(Seq(Message)) /\ Len(gops1) = CountOf(first', last')
  BY <1>1, GopsOfType
<1>8. ASSUME NEW i \in 1 .. CountOf(first', last')
      PROVE  gops1[i] = data'[SlotOf(first', i)]
  BY DEF GopsOf
<1>9. CASE ~IsGopRingFull
  <2>. HIDE DEF gops, gops1, kept
  <2>1. first' = first
    BY <1>9 DEF FeedNewGop
  <2>2. CountOf(first', last') = CountOf(first, last) + 1
    BY <1>1, <1>3, <1>4, <1>9, <2>1 DEF CountOf
  <2>3. SlotOf(first, CountOf(first, last) + 1) = last
    BY <1>1 DEF CountOf, SlotOf
  <2>4. ASSUME NEW i \in 1 .. CountOf(first, last)
        PROVE  gops1[i] = gops[i]
    <3>1. SlotOf(first, i) # last
      BY <1>1 DEF CountOf, SlotOf
    <3>. QED BY <1>1, <1>3, <1>5, <1>6, <1>7, <1>8, <2>1, <2>2, <3>1
  <2>5. gops1[CountOf(first, last) + 1] = <<msg>>
    <3>1. CountOf(first, last) + 1 \in 1 .. CountOf(first', last')
      BY <1>5, <2>2
    <3>2. gops1[CountOf(first, last) + 1] = data'[last]
      BY <1>6, <1>7, <1>8, <2>1, <2>3, <3>1
    <3>. QED BY <1>1, <1>3, <3>2
  <2>6. kept = gops
    BY <1>4, <1>5, <1>9 DEF kept
  <2>7. gops1 = Append(gops, <<msg>>)
    BY <1>5, <1>6, <1>7, <1>8, <2>2, <2>4, <2>5, SeqAppend
  <2>. QED BY <1>2, <2>6, <2>7 DEF kept
<1>10. CASE IsGopRingFull
  <2>. HIDE DEF gops, gops1, kept
  <2>1. first' = IF first = Keep THEN 0 ELSE first + 1
    BY <1>1, <1>10, RingIndices DEF FeedNewGop
  <2>2. CountOf(first, last) = Keep /\ CountOf(first', last') = Keep
    BY <1>1, <1>3, <1>4, <1>10, <2>1 DEF CountOf
  <2>3. SlotOf(first', Keep) = last
    BY <1>1, <2>1, <2>2 DEF CountOf, SlotOf
  <2>4. ASSUME NEW i \in 1 .. Keep - 1
        PROVE  gops1[i] = gops[i + 1]
    <3>1. SlotOf(first', i) = SlotOf(first, i + 1)
      BY <1>1, <2>1, <2>2 DEF CountOf, SlotOf
    <3>2. SlotOf(first, i + 1) # last
      BY <1>1, <2>2 DEF CountOf, SlotOf
    <3>3. /\ gops1[i] = data'[SlotOf(first', i)]
          /\ gops[i + 1] = data[SlotOf(first, i + 1)]
          /\ SlotOf(first, i + 1) \in Slots
      BY <1>6, <1>8, <2>2
    <3>. QED BY <1>1, <1>3, <3>1, <3>2, <3>3
  <2>5. gops1[Keep] = <<msg>>
    <3>1. Keep \in 1 .. CountOf(first', last')
      BY <2>2
    <3>2. gops1[Keep] = data'[last]
      BY <1>8, <2>3, <3>1
    <3>. QED BY <1>1, <1>3, <3>2
  <2>6. kept = Tail(gops)
    BY <1>5, <2>2 DEF kept
  <2>7. /\ Tail(gops) \in Seq(Seq(Message))
        /\ Len(Tail(gops)) = Keep - 1
        /\ \A i \in 1 .. Keep - 1 : Tail(gops)[i] = gops[i + 1]
    BY <1>5, <2>2
  <2>8. gops1 = Append(Tail(gops), <<msg>>)
    <3>. DEFINE rest == Tail(gops)
    <3>. HIDE DEF rest
    <3>1. /\ rest \in Seq(Seq(Message)) /\ <<msg>> \in Seq(Message)
          /\ Len(gops1) = Len(rest) + 1
          /\ \A i \in 1 .. Len(rest) : gops1[i] = rest[i]
          /\ gops1[Len(rest) + 1] = <<msg>>
      BY <1>7, <2>2, <2>4, <2>5, <2>7 DEF rest
    <3>2. gops1 = Append(rest, <<msg>>)
      BY <1>7, <3>1, SeqAppend
    <3>. QED BY <3>2 DEF rest
  <2>. QED BY <1>2, <2>6, <2>8 DEF kept
<1>. QED BY <1>9, <1>10

\* feedLastGop gives the frame to the newest GOP, or drops it.
LEMMA LastGopStep ==
  ASSUME TypeOK, TypeOK', NEW msg \in Message, FeedLastGop(msg)
  PROVE  CachedGops' =
           IF /\ CachedGops # << >>
              /\ \/ SingleGopMaxFrameNum = 0
                 \/ Len(CachedGops[Len(CachedGops)]) <= SingleGopMaxFrameNum
           THEN [CachedGops EXCEPT ![Len(CachedGops)] = Append(@, msg)]
           ELSE CachedGops
<1>. DEFINE gops  == GopsOf(data, first, last)
            gops1 == GopsOf(data', first', last')
            n     == CountOf(first, last)
            idx   == PrevOf(last)
<1>. USE RingSize
<1>1. /\ first \in Slots /\ last \in Slots /\ data \in [Slots -> Seq(Message)]
      /\ first' = first /\ last' = last
      /\ data' \in [Slots -> Seq(Message)]
  BY DEF TypeOK, FeedLastGop
<1>2. CachedGops = gops /\ CachedGops' = gops1
  BY CachedGopsOf, CachedGopsOfPrime
<1>3. idx \in Slots /\ (last - 1 + gopSize) % gopSize = idx
  BY <1>1, PrevFacts
<1>4. /\ n \in 0 .. Keep
      /\ gops \in Seq(Seq(Message)) /\ Len(gops) = n
      /\ gops1 \in Seq(Seq(Message)) /\ Len(gops1) = n
  BY <1>1, GopsOfType
<1>5. ASSUME NEW i \in 1 .. n
      PROVE  /\ gops[i] = data[SlotOf(first, i)]
             /\ gops1[i] = data'[SlotOf(first, i)]
             /\ SlotOf(first, i) \in Slots
             /\ SlotOf(first, i) = idx <=> i = n
  <2>1. SlotOf(first, i) \in Slots /\ (SlotOf(first, i) = idx <=> i = n)
    BY <1>1, SlotFacts
  <2>. QED BY <1>1, <2>1 DEF GopsOf
<1>6. first = last <=> n = 0
  BY <1>1 DEF CountOf
<1>7. gops = << >> <=> n = 0
  BY <1>4
<1>. DEFINE room(k) == SingleGopMaxFrameNum = 0 \/ k <= SingleGopMaxFrameNum
            takes   == first # last /\ room(Len(data[idx]))
<1>8. data' = IF takes THEN [data EXCEPT ![idx] = Append(@, msg)] ELSE data
  BY <1>3 DEF FeedLastGop, IsGopRingEmpty
<1>. HIDE DEF gops, gops1, n, idx
<1>9. CASE takes
  <2>1. n \in 1 .. n /\ n \in 1 .. Len(gops)
    BY <1>4, <1>6, <1>9
  <2>2. gops[n] = data[idx]
    BY <1>5, <2>1
  <2>3. data'[idx] = Append(data[idx], msg)
    BY <1>1, <1>3, <1>8, <1>9
  <2>4. Append(gops[n], msg) \in Seq(Message)
    BY <1>4, <2>1
  <2>. DEFINE longer == [gops EXCEPT ![n] = Append(@, msg)]
  <2>5. /\ longer \in Seq(Seq(Message))
        /\ Len(longer) = n
        /\ \A i \in 1 .. n : longer[i] = IF i = n THEN Append(gops[n], msg) ELSE gops[i]
    BY <1>4, <2>1, <2>4
  <2>6. ASSUME NEW i \in 1 .. n
        PROVE  gops1[i] = longer[i]
    <3>1. CASE i = n
      BY <1>5, <2>1, <2>2, <2>3, <2>5, <3>1
    <3>2. CASE i # n
      <4>1. data'[SlotOf(first, i)] = data[SlotOf(first, i)]
        BY <1>1, <1>3, <1>5, <1>8, <1>9, <3>2
      <4>. QED BY <1>5, <2>5, <3>2, <4>1
    <3>. QED BY <3>1, <3>2
  <2>. HIDE DEF longer
  <2>7. gops1 = longer
    BY <1>4, <2>5, <2>6, SeqEqual
  <2>. QED BY <1>2, <1>4, <1>6, <1>7, <1>9, <2>2, <2>7 DEF longer
<1>10. CASE ~takes
  <2>1. data' = data
    BY <1>8, <1>10
  <2>2. \A i \in 1 .. n : gops1[i] = gops[i]
    BY <1>5, <2>1
  <2>3. gops1 = gops
    BY <1>4, <2>2, SeqEqual
  <2>4. CASE first = last
    BY <1>2, <1>6, <1>7, <2>3, <2>4
  <2>5. CASE first # last
    <3>1. n \in 1 .. n
      BY <1>4, <1>6, <2>5
    <3>2. gops[n] = data[idx]
      BY <1>5, <3>1
    <3>. QED BY <1>2, <1>4, <1>10, <2>3, <2>5, <3>2
  <2>. QED BY <2>4, <2>5
<1>. QED BY <1>9, <1>10

-----------------------------------------------------------------------------
(***************************************************************************)
(* What the cache hands out can be replayed.                               *)
(***************************************************************************)

\* The inductive form: the cached frames are also no younger than the stream.
OrderedUpTo(gops, n) ==
  /\ Replayable(gops)
  /\ \A g \in DOMAIN gops : \A i \in DOMAIN gops[g] : gops[g][i].seq <= n

CacheInv == OrderedUpTo(CachedGops, fed)

\* Every message has a natural number as its sequence number.
LEMMA SeqNumbers ==
  ASSUME NEW w \in Seq(Seq(Message)), NEW g \in DOMAIN w, NEW i \in DOMAIN w[g]
  PROVE  w[g][i].seq \in Nat
<1>1. w[g] \in Seq(Message)
  OBVIOUS
<1>2. w[g][i] \in Message
  BY <1>1
<1>. QED BY <1>2 DEF Message

\* Opening a GOP with the next message of the stream keeps the order.
LEMMA OrderedAppend ==
  ASSUME NEW w \in Seq(Seq(Message)), NEW n \in Nat, NEW msg \in Message,
         OrderedUpTo(w, n), IsVideoKeyNalu(msg), msg.seq = n + 1
  PROVE  OrderedUpTo(Append(w, <<msg>>), n + 1)
<1>. DEFINE v == Append(w, <<msg>>)
<1>1. /\ DOMAIN w = 1 .. Len(w)
      /\ DOMAIN v = 1 .. Len(w) + 1
      /\ \A g \in DOMAIN w : v[g] = w[g] /\ g \in DOMAIN v
      /\ v[Len(w) + 1] = <<msg>>
  OBVIOUS
<1>2. \A g \in DOMAIN v : g \in DOMAIN w \/ g = Len(w) + 1
  BY <1>1
<1>4. \A g \in DOMAIN w : \A i \in DOMAIN w[g] : w[g][i].seq \in Nat
  BY SeqNumbers
<1>. HIDE DEF v
<1>5. ASSUME NEW g \in DOMAIN v, NEW i \in DOMAIN v[g]
      PROVE  v[g][i].seq <= n + 1
  <2>1. CASE g \in DOMAIN w
    BY <1>1, <1>4, <2>1 DEF OrderedUpTo
  <2>2. CASE g = Len(w) + 1
    BY <1>1, <2>2
  <2>. QED BY <1>2, <2>1, <2>2
<1>6. ASSUME NEW g \in DOMAIN v
      PROVE  /\ v[g] # << >>
             /\ \A i \in DOMAIN v[g] : IsVideoKeyNalu(v[g][i]) <=> i = 1
             /\ \A i, j \in DOMAIN v[g] : i < j => v[g][i].seq < v[g][j].seq
  <2>1. CASE g \in DOMAIN w
    BY <1>1, <2>1 DEF OrderedUpTo, Replayable
  <2>2. CASE g = Len(w) + 1
    <3>1. v[g] = <<msg>> /\ DOMAIN v[g] = {1}
      BY <1>1, <2>2
    <3>. QED BY <3>1
  <2>. QED BY <1>2, <2>1, <2>2
<1>7. ASSUME NEW g \in DOMAIN v, NEW h \in DOMAIN v, g < h,
             NEW i \in DOMAIN v[g], NEW j \in DOMAIN v[h]
      PROVE  v[g][i].seq < v[h][j].seq
  <2>1. g \in DOMAIN w
    BY <1>1, <1>7
  <2>2. CASE h \in DOMAIN w
    BY <1>1, <1>7, <2>1, <2>2 DEF OrderedUpTo, Replayable
  <2>3. CASE h = Len(w) + 1
    BY <1>1, <1>4, <2>1, <2>3 DEF OrderedUpTo
  <2>. QED BY <1>2, <2>2, <2>3
<1>. QED BY <1>5, <1>6, <1>7 DEF OrderedUpTo, Replayable, v

\* Dropping the oldest GOP keeps the order.
LEMMA OrderedTail ==
  ASSUME NEW w \in Seq(Seq(Message)), w # << >>, NEW n \in Nat, OrderedUpTo(w, n)
  PROVE  OrderedUpTo(Tail(w), n)
<1>1. /\ Tail(w) \in Seq(Seq(Message))
      /\ \A g \in DOMAIN Tail(w) : /\ g + 1 \in DOMAIN w
                                  /\ Tail(w)[g] = w[g + 1]
                                  /\ g \in Nat
  OBVIOUS
<1>. DEFINE v == Tail(w)
<1>. HIDE DEF v
<1>2. \A g \in DOMAIN v : g + 1 \in DOMAIN w /\ v[g] = w[g + 1] /\ g \in Nat
  BY <1>1 DEF v
<1>3. ASSUME NEW g \in DOMAIN v
      PROVE  /\ v[g] # << >>
             /\ \A i \in DOMAIN v[g] : IsVideoKeyNalu(v[g][i]) <=> i = 1
             /\ \A i, j \in DOMAIN v[g] : i < j => v[g][i].seq < v[g][j].seq
             /\ \A i \in DOMAIN v[g] : v[g][i].seq <= n
  BY <1>2 DEF OrderedUpTo, Replayable
<1>4. ASSUME NEW g \in DOMAIN v, NEW h \in DOMAIN v, g < h,
             NEW i \in DOMAIN v[g], NEW j \in DOMAIN v[h]
      PROVE  v[g][i].seq < v[h][j].seq
  <2>1. g + 1 < h + 1
    BY <1>2, <1>4
  <2>. QED BY <1>2, <2>1 DEF OrderedUpTo, Replayable
<1>5. OrderedUpTo(v, n)
  BY <1>3, <1>4 DEF OrderedUpTo, Replayable
<1>. QED BY <1>5 DEF v

\* The next message of the stream may join the newest GOP unless it is a key.
LEMMA OrderedExtend ==
  ASSUME NEW w \in Seq(Seq(Message)), w # << >>, NEW n \in Nat,
         NEW msg \in Message,
         OrderedUpTo(w, n), ~IsVideoKeyNalu(msg), msg.seq = n + 1
  PROVE  OrderedUpTo([w EXCEPT ![Len(w)] = Append(@, msg)], n + 1)
<1>. DEFINE top == Len(w)
            old == w[top]
            new == Append(old, msg)
            v   == [w EXCEPT ![top] = new]
<1>1. /\ top \in DOMAIN w /\ DOMAIN v = DOMAIN w
      /\ \A g \in DOMAIN w : g \in Nat /\ g <= top
      /\ v[top] = new
      /\ \A g \in DOMAIN w : g # top => v[g] = w[g]
      /\ \A g \in DOMAIN w : w[g] \in Seq(Message)
  OBVIOUS
<1>2. /\ old \in Seq(Message)
      /\ DOMAIN old = 1 .. Len(old)
      /\ DOMAIN new = 1 .. Len(old) + 1
      /\ \A i \in DOMAIN old : new[i] = old[i]
      /\ new[Len(old) + 1] = msg
      /\ \A i \in DOMAIN new : i \in DOMAIN old \/ i = Len(old) + 1
  BY <1>1
<1>3. \A g \in DOMAIN w : \A i \in DOMAIN w[g] : w[g][i].seq \in Nat /\ w[g][i].seq <= n
  BY SeqNumbers DEF OrderedUpTo
<1>. HIDE DEF v, new, old, top
<1>4. /\ old # << >>
      /\ \A i \in DOMAIN old : IsVideoKeyNalu(old[i]) <=> i = 1
      /\ \A i, j \in DOMAIN old : i < j => old[i].seq < old[j].seq
      /\ \A i \in DOMAIN old : old[i].seq \in Nat /\ old[i].seq <= n
  BY <1>1, <1>3 DEF OrderedUpTo, Replayable, old
<1>5. Len(old) >= 1
  BY <1>2, <1>4
<1>6. /\ new # << >>
      /\ \A i \in DOMAIN new : IsVideoKeyNalu(new[i]) <=> i = 1
      /\ \A i, j \in DOMAIN new : i < j => new[i].seq < new[j].seq
      /\ \A i \in DOMAIN new : new[i].seq <= n + 1
  <2>1. new # << >>
    BY <1>2, <1>5
  <2>2. \A i \in DOMAIN new : IsVideoKeyNalu(new[i]) <=> i = 1
    BY <1>2, <1>4, <1>5
  <2>3. \A i, j \in DOMAIN new : i < j => new[i].seq < new[j].seq
    BY <1>2, <1>4
  <2>4. \A i \in DOMAIN new : new[i].seq <= n + 1
    BY <1>2, <1>4
  <2>. QED BY <2>1, <2>2, <2>3, <2>4
<1>7. ASSUME NEW g \in DOMAIN v, NEW h \in DOMAIN v, g < h,
             NEW i \in DOMAIN v[g], NEW j \in DOMAIN v[h]
      PROVE  v[g][i].seq < v[h][j].seq
  <2>1. g # top /\ g \in DOMAIN w /\ h \in DOMAIN w
    BY <1>1, <1>7
  <2>2. i \in DOMAIN w[g] /\ v[g] = w[g]
    BY <1>1, <2>1
  <2>3. CASE h # top
    BY <1>1, <1>7, <2>1, <2>2, <2>3 DEF OrderedUpTo, Replayable
  <2>4. CASE h = top /\ j \in DOMAIN old
    <3>1. v[h][j] = w[h][j] /\ j \in DOMAIN w[h]
      BY <1>1, <1>2, <2>4 DEF old
    <3>. QED BY <1>7, <2>1, <2>2, <3>1 DEF OrderedUpTo, Replayable
  <2>5. CASE h = top /\ j = Len(old) + 1
    BY <1>1, <1>2, <1>3, <2>1, <2>2, <2>5
  <2>. QED BY <1>1, <1>2, <2>3, <2>4, <2>5
<1>8. ASSUME NEW g \in DOMAIN v
      PROVE  /\ v[g] # << >>
             /\ \A i \in DOMAIN v[g] : IsVideoKeyNalu(v[g][i]) <=> i = 1
             /\ \A i, j \in DOMAIN v[g] : i < j => v[g][i].seq < v[g][j].seq
             /\ \A i \in DOMAIN v[g] : v[g][i].seq <= n + 1
  <2>1. CASE g = top
    BY <1>1, <1>6, <2>1
  <2>2. CASE g # top
    BY <1>1, <1>3, <2>2 DEF OrderedUpTo, Replayable
  <2>. QED BY <2>1, <2>2
<1>9. OrderedUpTo(v, n + 1)
  BY <1>7, <1>8 DEF OrderedUpTo, Replayable
<1>. QED BY <1>9 DEF v, new, old, top

\* Messages that are not frames, and the bound on fed.
LEMMA OrderedLater ==
  ASSUME NEW w \in Seq(Seq(Message)), NEW n \in Nat, OrderedUpTo(w, n)
  PROVE  OrderedUpTo(w, n + 1)
<1>1. \A g \in DOMAIN w : \A i \in DOMAIN w[g] : w[g][i].seq <= n + 1
  BY SeqNumbers DEF OrderedUpTo
<1>. QED BY <1>1 DEF OrderedUpTo

\* The four ways a step of the ring changes what the cache hands out.
GopsKept    == CachedGops' = CachedGops /\ fed' \in {fed, fed + 1}
GopsCleared == CachedGops' = << >> /\ fed' = fed
GopOpened   ==
  \E msg \in Message :
    /\ IsVideoKeyNalu(msg) /\ msg.seq = fed + 1 /\ fed' = fed + 1
    /\ Keep > 0
    /\ CachedGops' = Append(IF Len(CachedGops) < Keep THEN CachedGops
                            ELSE Tail(CachedGops), <<msg>>)
GopExtended ==
  \E msg \in Message :
    /\ ~IsVideoKeyNalu(msg) /\ msg.seq = fed + 1 /\ fed' = fed + 1
    /\ CachedGops # << >>
    /\ \/ SingleGopMaxFrameNum = 0
       \/ Len(CachedGops[Len(CachedGops)]) <= SingleGopMaxFrameNum
    /\ CachedGops' = [CachedGops EXCEPT ![Len(CachedGops)] = Append(@, msg)]

\* What one step of the program does to the cached GOPs.
LEMMA CachedGopsStep ==
  ASSUME TypeOK, TypeOK', [Next]_cacheVars
  PROVE  GopsKept \/ GopsCleared \/ GopOpened \/ GopExtended
<1>1. ASSUME UNCHANGED ring PROVE CachedGops' = CachedGops
  BY <1>1 DEF ring, CachedGops, GetGopCount, GetGopDataAt
<1>2. CASE UNCHANGED cacheVars
  BY <1>1, <1>2 DEF cacheVars, ring, GopsKept
<1>3. CASE Clear
  <2>1. first' = 0 /\ last' = 0 /\ fed' = fed
    BY <1>3 DEF Clear
  <2>2. CountOf(first', last') = 0
    BY <2>1, RingSize DEF CountOf
  <2>3. CachedGops' = << >>
    BY <2>2, CachedGopsOfPrime DEF GopsOf
  <2>. QED BY <2>1, <2>3 DEF GopsCleared
<1>4. ASSUME NEW k \in Kinds, fed < MaxMsgs, Feed([kind |-> k, seq |-> fed + 1])
      PROVE  GopsKept \/ GopOpened \/ GopExtended
  <2>. DEFINE msg == [kind |-> k, seq |-> fed + 1]
  <2>1. /\ msg \in Message /\ msg.seq = fed + 1 /\ fed' = fed + 1
    BY <1>4, GopCacheAssumption DEF TypeOK, Message, Feed
  <2>. HIDE DEF msg
  <2>2. CASE UNCHANGED ring
    BY <1>1, <2>1, <2>2 DEF GopsKept
  <2>3. CASE gopSize > 1 /\ IsVideoKeyNalu(msg) /\ FeedNewGop(msg)
    <3>1. Keep > 0
      BY <2>3, RingSize
    <3>. QED BY <2>1, <2>3, <3>1, NewGopStep DEF GopOpened
  <2>4. CASE ~IsVideoKeyNalu(msg) /\ FeedLastGop(msg)
    <3>. DEFINE takes == /\ CachedGops # << >>
                         /\ \/ SingleGopMaxFrameNum = 0
                            \/ Len(CachedGops[Len(CachedGops)]) <= SingleGopMaxFrameNum
                longer == [CachedGops EXCEPT ![Len(CachedGops)] = Append(@, msg)]
    <3>1. CachedGops' = IF takes THEN longer ELSE CachedGops
      BY <2>1, <2>4, LastGopStep
    <3>2. CASE takes
      BY <2>1, <2>4, <3>1, <3>2, Zenon DEF GopExtended
    <3>3. CASE ~takes
      <4>. HIDE DEF takes, longer
      <4>. QED BY <2>1, <3>1, <3>3 DEF GopsKept
    <3>. QED BY <3>2, <3>3
  <2>. QED BY <1>4, <2>2, <2>3, <2>4 DEF Feed, msg
<1>. QED BY <1>2, <1>3, <1>4 DEF Next, FeedNext

\* The cached GOPs are a sequence of sequences of messages.
LEMMA CachedGopsType == TypeOK => CachedGops \in Seq(Seq(Message)) /\ Len(CachedGops) <= Keep
<1>. SUFFICES ASSUME TypeOK
              PROVE  CachedGops \in Seq(Seq(Message)) /\ Len(CachedGops) <= Keep
  OBVIOUS
<1>1. first \in Slots /\ last \in Slots /\ data \in [Slots -> Seq(Message)]
  BY DEF TypeOK
<1>2. /\ CountOf(first, last) \in 0 .. Keep
      /\ GopsOf(data, first, last) \in Seq(Seq(Message))
      /\ Len(GopsOf(data, first, last)) = CountOf(first, last)
  BY <1>1, GopsOfType
<1>. QED BY <1>2, CachedGopsOf, RingSize

\* A new cache is well-typed and hands out no GOP.
LEMMA InitGops == Init => TypeOK /\ CachedGops = << >>
<1>. SUFFICES ASSUME Init
              PROVE  TypeOK /\ CachedGops = << >>
  OBVIOUS
<1>1. TypeOK
  BY RingSize, GopCacheAssumption DEF Init, TypeOK
<1>2. CountOf(first, last) = 0
  BY RingSize DEF Init, CountOf
<1>. QED BY <1>1, <1>2, CachedGopsOf DEF GopsOf

\* A step keeps the order.
LEMMA CacheInvStep == TypeOK /\ TypeOK' /\ CacheInv /\ [Next]_cacheVars => CacheInv'
<1>. SUFFICES ASSUME TypeOK, TypeOK', CacheInv, [Next]_cacheVars
              PROVE  OrderedUpTo(CachedGops', fed')
  BY DEF CacheInv, OrderedUpTo, Replayable
<1>1. fed \in Nat /\ CachedGops \in Seq(Seq(Message))
  BY CachedGopsType, GopCacheAssumption DEF TypeOK
<1>2. OrderedUpTo(CachedGops, fed)
  BY DEF CacheInv
<1>3. CASE GopsKept
  BY <1>1, <1>2, <1>3, OrderedLater DEF GopsKept
<1>4. CASE GopsCleared
  BY <1>4 DEF GopsCleared, OrderedUpTo, Replayable
<1>5. CASE GopOpened
  <2>1. PICK msg \in Message :
          /\ IsVideoKeyNalu(msg) /\ msg.seq = fed + 1 /\ fed' = fed + 1
          /\ Keep > 0
          /\ CachedGops' = Append(IF Len(CachedGops) < Keep THEN CachedGops
                                  ELSE Tail(CachedGops), <<msg>>)
    BY <1>5 DEF GopOpened
  <2>2. CASE Len(CachedGops) < Keep
    BY <1>1, <1>2, <2>1, <2>2, OrderedAppend
  <2>3. CASE ~(Len(CachedGops) < Keep)
    <3>1. CachedGops # << >>
      BY <1>1, <2>1, <2>3, RingSize
    <3>2. Tail(CachedGops) \in Seq(Seq(Message))
      BY <1>1, <3>1
    <3>3. OrderedUpTo(Tail(CachedGops), fed)
      BY <1>1, <1>2, <3>1, OrderedTail
    <3>. QED BY <1>1, <2>1, <2>3, <3>2, <3>3, OrderedAppend
  <2>. QED BY <2>2, <2>3
<1>6. CASE GopExtended
  BY <1>1, <1>2, <1>6, OrderedExtend DEF GopExtended
<1>. QED BY <1>3, <1>4, <1>5, <1>6, CachedGopsStep

\* For every stream, the GOPs that the cache hands out start with their only
\* key frame and are in stream order, within a GOP and from one to the next.
THEOREM ReplayableAlways == Spec => []GopsReplayable
<1>1. Init => CacheInv
  BY InitGops DEF CacheInv, OrderedUpTo, Replayable
<1>2. CacheInv => GopsReplayable
  BY DEF CacheInv, OrderedUpTo, GopsReplayable
<1>. QED BY <1>1, <1>2, CacheInvStep, TypeCorrect, PTL DEF Spec

\* No GOP of the cache outgrows the limit by more than one frame.
THEOREM FrameBoundAlways == Spec => []GopFrameBound
<1>1. Init => GopFrameBound
  BY InitGops DEF GopFrameBound
<1>2. TypeOK /\ TypeOK' /\ GopFrameBound /\ [Next]_cacheVars => GopFrameBound'
  <2>. SUFFICES ASSUME TypeOK, TypeOK', GopFrameBound, [Next]_cacheVars,
                       SingleGopMaxFrameNum > 0,
                       NEW g \in DOMAIN CachedGops'
                PROVE  Len(CachedGops'[g]) <= SingleGopMaxFrameNum + 1
    BY DEF GopFrameBound
  <2>. USE GopCacheAssumption
  <2>1. CachedGops \in Seq(Seq(Message))
    BY CachedGopsType
  <2>2. \A h \in DOMAIN CachedGops : Len(CachedGops[h]) <= SingleGopMaxFrameNum + 1
    BY DEF GopFrameBound
  <2>3. CASE GopsKept
    BY <2>2, <2>3 DEF GopsKept
  <2>4. CASE GopsCleared
    BY <2>4 DEF GopsCleared
  <2>5. CASE GopOpened
    <3>. DEFINE kept == IF Len(CachedGops) < Keep THEN CachedGops ELSE Tail(CachedGops)
    <3>1. PICK msg \in Message : Keep > 0 /\ CachedGops' = Append(kept, <<msg>>)
      BY <2>5 DEF GopOpened
    <3>2. /\ kept \in Seq(Seq(Message))
          /\ \A h \in DOMAIN kept : Len(kept[h]) <= SingleGopMaxFrameNum + 1
      <4>1. CASE Len(CachedGops) < Keep
        BY ONLY <4>1, <2>1, <2>2
      <4>2. CASE ~ Len(CachedGops) < Keep
        <5>1. CachedGops # << >>
          BY <4>2, <3>1, <2>1, RingSize
        <5>2. /\ Tail(CachedGops) \in Seq(Seq(Message))
              /\ \A h \in DOMAIN Tail(CachedGops) :
                   /\ h + 1 \in DOMAIN CachedGops
                   /\ Tail(CachedGops)[h] = CachedGops[h + 1]
          BY ONLY <5>1, <2>1
        <5>3. kept = Tail(CachedGops)
          BY ONLY <4>2
        <5>. QED BY ONLY <5>2, <5>3, <2>2
      <4>. QED BY <4>1, <4>2
    <3>. HIDE DEF kept
    <3>3. CASE g \in DOMAIN kept
      <4>1. CachedGops'[g] = kept[g]
        BY <3>1, <3>2, <3>3
      <4>. QED BY <3>2, <3>3, <4>1
    <3>4. CASE g = Len(kept) + 1
      <4>1. CachedGops'[g] = <<msg>>
        BY <3>1, <3>2, <3>4
      <4>. QED BY <4>1
    <3>. QED BY <3>1, <3>2, <3>3, <3>4
  <2>6. CASE GopExtended
    <3>. DEFINE top == Len(CachedGops)
    <3>1. PICK msg \in Message :
            /\ CachedGops # << >>
            /\ SingleGopMaxFrameNum = 0 \/ Len(CachedGops[top]) <= SingleGopMaxFrameNum
            /\ CachedGops' = [CachedGops EXCEPT ![top] = Append(@, msg)]
      BY <2>6, Zenon DEF GopExtended
    <3>2. top \in DOMAIN CachedGops /\ CachedGops[top] \in Seq(Message)
      BY <2>1, <3>1
    <3>3. CASE g = top
      BY <3>1, <3>2, <3>3
    <3>4. CASE g # top
      BY <2>2, <3>1, <3>2, <3>4
    <3>. QED BY <3>3, <3>4
  <2>. QED BY <2>3, <2>4, <2>5, <2>6, CachedGopsStep
<1>. QED BY <1>1, <1>2, TypeCorrect, PTL DEF Spec

-----------------------------------------------------------------------------
(***************************************************************************)
(* The ring implements the window of GOPs.                                 *)
(***************************************************************************)

\* Whatever the stream, the slots and indices behave like the bounded window
\* of GopWindow: no GOP is lost before its time and none is resurrected.
THEOREM Refinement == Spec => RefinesGopWindow
<1>. USE GopCacheAssumption
<1>1. Init => Window!Init
  BY InitGops DEF Init, NoMsg, Window!Init, Window!NoMsg
<1>2. TypeOK /\ TypeOK' /\ [Next]_cacheVars => [Window!Next]_(Window!wvars)
  <2>. SUFFICES ASSUME TypeOK, TypeOK', [Next]_cacheVars
                PROVE  Window!Next \/ UNCHANGED <<CachedGops, videoheader, audioheader>>
    BY DEF Window!wvars
  <2>. DEFINE Messages == [kind : Kinds, seq : 1 .. MaxMsgs]
  <2>0. CachedGops \in Seq(Seq(Message)) /\ Len(CachedGops) <= Keep
    BY CachedGopsType
  <2>1. ASSUME UNCHANGED ring PROVE CachedGops' = CachedGops
    BY <2>1 DEF ring, CachedGops, GetGopCount, GetGopDataAt
  <2>2. CASE UNCHANGED cacheVars
    BY <2>1, <2>2 DEF cacheVars, ring
  <2>3. CASE Clear
    <3>1. first' = 0 /\ last' = 0 /\ UNCHANGED <<videoheader, audioheader>>
      BY <2>3 DEF Clear
    <3>2. CountOf(first', last') = 0
      BY <3>1, RingSize DEF CountOf
    <3>3. CachedGops' = << >>
      BY <3>2, CachedGopsOfPrime DEF GopsOf
    <3>. QED BY <3>1, <3>3 DEF Window!Next, Window!Clear
  <2>4. ASSUME NEW k \in Kinds, fed < MaxMsgs, Feed([kind |-> k, seq |-> fed + 1])
        PROVE  Window!Next \/ UNCHANGED <<CachedGops, videoheader, audioheader>>
    <3>. DEFINE msg == [kind |-> k, seq |-> fed + 1]
    <3>1. msg \in Messages /\ msg \in Message /\ msg.kind = k /\ k \in MsgKinds
      BY <2>4 DEF TypeOK, Message
    <3>. HIDE DEF msg
    <3>2. CASE k \in {"metadata", "aacHeader", "videoHeader"}
      <4>1. UNCHANGED ring /\ FeedHeader(msg)
        BY <2>4, <3>1, <3>2 DEF Feed, IsFrame, msg
      <4>2. CachedGops' = CachedGops
        BY <2>1, <4>1
      <4>3. CASE k = "metadata"
        BY <3>1, <4>1, <4>2, <4>3 DEF FeedHeader
      <4>4. CASE k # "metadata"
        <5>1. Window!StoreHeader(msg)
          BY <3>1, <3>2, <4>1, <4>2, <4>4 DEF FeedHeader, Window!StoreHeader
        <5>. QED BY <3>1, <5>1 DEF Window!Next
      <4>. QED BY <4>3, <4>4
    <3>3. CASE k = "key"
      <4>1. FeedHeader(msg) /\ IsVideoKeyNalu(msg)
        BY <2>4, <3>1, <3>3 DEF Feed, IsVideoKeyNalu, msg
      <4>2. CASE Keep > 0
        <5>1. FeedNewGop(msg)
          BY <2>4, <3>1, <3>3, <4>1, <4>2, RingSize DEF Feed, IsFrame, msg
        <5>2. CachedGops' = Append(IF Len(CachedGops) < Keep THEN CachedGops
                                  ELSE Tail(CachedGops), <<msg>>)
          BY <3>1, <4>2, <5>1, NewGopStep
        <5>3. Window!OpenGop(msg)
          BY <3>1, <3>3, <4>1, <4>2, <5>2 DEF FeedHeader, IsVideoKeyNalu,
               Window!OpenGop, Window!Evicted, Window!IsVideoKeyNalu
        <5>. QED BY <3>1, <5>3 DEF Window!Next
      <4>3. CASE Keep = 0
        <5>1. UNCHANGED ring
          BY <2>4, <4>3, RingSize DEF Feed, msg
        <5>. QED BY <2>1, <3>1, <3>3, <4>1, <5>1 DEF FeedHeader
      <4>. QED BY <4>2, <4>3, RingSize
    <3>4. CASE k \in {"inter", "aac", "rawAudio"}
      <4>1. FeedHeader(msg) /\ ~IsVideoKeyNalu(msg)
        BY <2>4, <3>1, <3>4 DEF Feed, IsVideoKeyNalu, msg
      <4>. DEFINE takes == /\ CachedGops # << >>
                           /\ \/ SingleGopMaxFrameNum = 0
                              \/ Len(CachedGops[Len(CachedGops)]) <= SingleGopMaxFrameNum
                  longer == [CachedGops EXCEPT ![Len(CachedGops)] = Append(@, msg)]
      <4>2. CachedGops' = IF takes THEN longer ELSE CachedGops
        <5>1. CASE Keep > 0
          <6>1. FeedLastGop(msg)
            BY <2>4, <3>1, <3>4, <4>1, <5>1, RingSize DEF Feed, IsFrame, msg
          <6>. QED BY <3>1, <6>1, LastGopStep
        <5>2. CASE Keep = 0
          <6>1. UNCHANGED ring
            BY <2>4, <5>2, RingSize DEF Feed, msg
          <6>2. CachedGops = << >>
            BY <2>0, <5>2
          <6>. QED BY <2>1, <6>1, <6>2
        <5>. QED BY <5>1, <5>2, RingSize
      <4>3. Window!ExtendGop(msg)
        BY <3>1, <3>4, <4>1, <4>2 DEF FeedHeader, Window!ExtendGop, Window!HasRoom
      <4>. QED BY <3>1, <4>3 DEF Window!Next
    <3>. QED BY <3>1, <3>2, <3>3, <3>4 DEF MsgKinds, AudioKinds, VideoKinds
  <2>. QED BY <2>2, <2>3, <2>4 DEF Next, FeedNext
<1>. QED BY <1>1, <1>2, TypeCorrect, PTL DEF Spec, RefinesGopWindow, Window!Spec
=============================================================================
