-------------------------- MODULE HookSessionProofs --------------------------
(***************************************************************************)
(* Proofs about the fan-out of a stream, for every set of subscribers,     *)
(* every gop_cache_num and frame limit, every stream and any number of     *)
(* publishers one after another.                                           *)
(*                                                                         *)
(* Lemmas about minima, induction and sequences come first, then the walk  *)
(* over the consumers (types), the cache, what a consumer is given in one  *)
(* visit, and last the invariant about everything it was ever given.       *)
(***************************************************************************)
EXTENDS HookSession, WellFoundedInduction, SequenceTheorems, TLAPS

\* The proofs about the GOP cache, on the cache of the session.
G == INSTANCE GopCacheProofs

-----------------------------------------------------------------------------
(***************************************************************************)
(* Minima, maxima and induction over a set of natural numbers.             *)
(***************************************************************************)

\* A set of natural numbers has a least element.
LEMMA MinExists ==
  ASSUME NEW S \in SUBSET Nat, S # {}
  PROVE  \E x \in S : \A y \in S : x <= y
<1>. DEFINE R == OpToRel(<, Nat)
<1>1. IsWellFoundedOn(R, Nat)
  BY NatLessThanWellFounded
<1>2. ASSUME NEW x \in Nat, NEW y \in Nat, y < x
      PROVE  <<y, x>> \in R
  BY <1>2 DEF OpToRel
<1>. HIDE DEF R
<1>3. PICK x \in S : \A y \in S : <<y, x>> \notin R
  BY <1>1, WFMin
<1>4. ASSUME NEW y \in S
      PROVE  x <= y
  <2>1. x \in Nat /\ y \in Nat /\ <<y, x>> \notin R
    BY <1>3
  <2>. QED BY <1>2, <2>1
<1>. QED BY <1>4

\* A set of natural numbers up to n has a greatest element.
LEMMA MaxExists ==
  ASSUME NEW n \in Nat, NEW S \in SUBSET (0 .. n), S # {}
  PROVE  \E x \in S : \A y \in S : y <= x
<1>. DEFINE T == {n - x : x \in S}
<1>1. T \in SUBSET Nat /\ T # {}
  <2>1. \A x \in S : x \in Int /\ n - x \in Nat /\ n - x \in T
    OBVIOUS
  <2>. QED BY <2>1
<1>2. PICK t \in T : \A u \in T : t <= u
  <2>. HIDE DEF T
  <2>. QED BY <1>1, MinExists
<1>3. PICK x \in S : t = n - x
  OBVIOUS
<1>4. ASSUME NEW y \in S
      PROVE  y <= x
  <2>1. n - y \in T
    OBVIOUS
  <2>2. t <= n - y
    BY <1>2, <2>1
  <2>. QED BY <1>3, <2>2
<1>. QED BY <1>4

\* A set that holds 0 and the successor of each of its numbers holds them all.
LEMMA SetInduction ==
  ASSUME NEW T, 0 \in T, \A n \in Nat : n \in T => n + 1 \in T
  PROVE  \A n \in Nat : n \in T
<1>. DEFINE missing == {n \in Nat : n \notin T}
<1>1. CASE missing = {}
  BY <1>1
<1>2. CASE missing # {}
  <2>1. PICK x \in missing : \A y \in missing : x <= y
    <3>1. missing \in SUBSET Nat
      OBVIOUS
    <3>. HIDE DEF missing
    <3>. QED BY <1>2, <3>1, MinExists
  <2>2. x - 1 \in Nat /\ x - 1 \in T
    BY <2>1
  <2>. QED BY <2>1, <2>2
<1>. QED BY <1>1, <1>2

-----------------------------------------------------------------------------
(***************************************************************************)
(* Sequences.                                                              *)
(***************************************************************************)

\* The entries of a concatenation are those of the one and of the other.
LEMMA Joined ==
  ASSUME NEW S, NEW s \in Seq(S), NEW t \in Seq(S)
  PROVE  /\ s \o t \in Seq(S)
         /\ Len(s \o t) = Len(s) + Len(t)
         /\ \A i \in DOMAIN s : i \in DOMAIN (s \o t) /\ (s \o t)[i] = s[i]
         /\ \A j \in DOMAIN t : /\ Len(s) + j \in DOMAIN (s \o t)
                                /\ (s \o t)[Len(s) + j] = t[j]
         /\ \A k \in DOMAIN (s \o t) :
              k \in DOMAIN s \/ \E j \in DOMAIN t : k = Len(s) + j
<1>1. /\ s \o t \in Seq(S)
      /\ Len(s \o t) = Len(s) + Len(t)
      /\ \A i \in 1 .. Len(s) + Len(t) :
           (s \o t)[i] = IF i <= Len(s) THEN s[i] ELSE t[i - Len(s)]
  OBVIOUS
<1>2. ASSUME NEW k \in DOMAIN (s \o t), k \notin DOMAIN s
      PROVE  k - Len(s) \in DOMAIN t /\ k = Len(s) + (k - Len(s))
  BY <1>1, <1>2
<1>. QED BY <1>1, <1>2

\* A function with the recursion of Concatenation exists, so Concatenation is it.
Flattens(f, w, n) ==
  f = [i \in 1 .. n |-> IF i = 1 THEN w[i] ELSE f[i - 1] \o w[i]]

LEMMA FlattenExists ==
  ASSUME NEW w
  PROVE  \A n \in Nat : \E f : Flattens(f, w, n)
<1>. DEFINE T == {n \in Nat : \E f : Flattens(f, w, n)}
<1>1. 0 \in T
  <2>1. Flattens([i \in 1 .. 0 |-> 0], w, 0)
    BY DEF Flattens
  <2>. QED BY <2>1
<1>2. ASSUME NEW n \in Nat, n \in T
      PROVE  n + 1 \in T
  <2>1. PICK f : Flattens(f, w, n)
    BY <1>2
  <2>. DEFINE g == [i \in 1 .. n + 1 |->
                      IF i <= n THEN f[i]
                      ELSE IF i = 1 THEN w[i] ELSE f[i - 1] \o w[i]]
  <2>2. \A i \in 1 .. n : f[i] = IF i = 1 THEN w[i] ELSE f[i - 1] \o w[i]
    BY <2>1 DEF Flattens
  <2>3. ASSUME NEW i \in 1 .. n + 1
        PROVE  g[i] = IF i = 1 THEN w[i] ELSE g[i - 1] \o w[i]
    <3>1. CASE i = 1
      BY <2>2, <3>1
    <3>2. CASE i # 1
      <4>1. i - 1 \in 1 .. n /\ g[i - 1] = f[i - 1]
        BY <3>2
      <4>2. CASE i <= n
        <5>1. g[i] = f[i]
          BY <4>2
        <5>2. f[i] = f[i - 1] \o w[i]
          <6>1. i \in 1 .. n
            BY <4>2
          <6>. QED BY <2>2, <3>2, <6>1, Zenon
        <5>. HIDE DEF g
        <5>. QED BY <3>2, <4>1, <5>1, <5>2
      <4>3. CASE ~(i <= n)
        BY <3>2, <4>1, <4>3
      <4>. QED BY <4>2, <4>3
    <3>. QED BY <3>1, <3>2
  <2>4. g = [i \in 1 .. n + 1 |-> IF i = 1 THEN w[i] ELSE g[i - 1] \o w[i]]
    <3>1. g = [i \in 1 .. n + 1 |-> g[i]]
      OBVIOUS
    <3>. HIDE DEF g
    <3>. QED BY <2>3, <3>1
  <2>5. Flattens(g, w, n + 1)
    <3>. HIDE DEF g
    <3>. QED BY <2>4 DEF Flattens
  <2>. QED BY <2>5
<1>3. \A n \in Nat : n \in T
  <2>. HIDE DEF T
  <2>. QED BY <1>1, <1>2, SetInduction
<1>. QED BY <1>3

LEMMA FlattenIs ==
  ASSUME NEW S, NEW w \in Seq(S), w # << >>
  PROVE  \E f : Flattens(f, w, Len(w)) /\ Concatenation(w) = f[Len(w)]
<1>. DEFINE f == CHOOSE f : Flattens(f, w, Len(w))
<1>1. \E h : Flattens(h, w, Len(w))
  <2>1. Len(w) \in Nat
    OBVIOUS
  <2>. QED BY <2>1, FlattenExists
<1>2. Flattens(f, w, Len(w))
  BY <1>1
<1>3. Concatenation(w) = f[Len(w)]
  BY DEF Concatenation, Flattens
<1>. QED BY <1>2, <1>3

\* The sequences w[g], g \in D, flattened into s: nothing else is in s, nothing
\* is missing, and what comes first in w comes first in s.
FlatIn(s, w, D) ==
  /\ \A i \in DOMAIN s : \E g \in D : \E k \in DOMAIN w[g] : s[i] = w[g][k]
  /\ \A g \in D : \A k \in DOMAIN w[g] : \E i \in DOMAIN s : s[i] = w[g][k]
  /\ \A i, j \in DOMAIN s : i < j =>
       \E g, h \in D : \E k \in DOMAIN w[g], l \in DOMAIN w[h] :
         s[i] = w[g][k] /\ s[j] = w[h][l] /\ (g < h \/ (g = h /\ k < l))
  /\ w[1] # << >> => s # << >> /\ s[1] = w[1][1]

LEMMA FlatOne ==
  ASSUME NEW S, NEW w \in Seq(Seq(S)), w # << >>
  PROVE  w[1] \in Seq(S) /\ FlatIn(w[1], w, 1 .. 1)
<1>1. w[1] \in Seq(S) /\ 1 .. 1 = {1}
  OBVIOUS
<1>. QED BY <1>1 DEF FlatIn

LEMMA FlatStep ==
  ASSUME NEW S, NEW w \in Seq(Seq(S)), NEW n \in Nat, n >= 1, n + 1 <= Len(w),
         NEW s \in Seq(S), FlatIn(s, w, 1 .. n)
  PROVE  s \o w[n + 1] \in Seq(S) /\ FlatIn(s \o w[n + 1], w, 1 .. n + 1)
<1>. DEFINE t == w[n + 1]
            u == s \o t
<1>1. /\ t \in Seq(S) /\ t = w[n + 1]
      /\ DOMAIN t \subseteq Nat /\ DOMAIN s \subseteq Nat
  OBVIOUS
<1>. HIDE DEF t
<1>2. /\ u \in Seq(S)
      /\ \A i \in DOMAIN s : i \in DOMAIN u /\ u[i] = s[i]
      /\ \A j \in DOMAIN t : Len(s) + j \in DOMAIN u /\ u[Len(s) + j] = t[j]
      /\ \A k \in DOMAIN u : k \in DOMAIN s \/ \E j \in DOMAIN t : k = Len(s) + j
  <2>1. t \in Seq(S)
    BY <1>1
  <2>. QED BY ONLY s \in Seq(S), <2>1, Joined
<1>3. \A g \in 1 .. n : g \in 1 .. n + 1
  OBVIOUS
<1>4. n + 1 \in 1 .. n + 1 /\ \A g \in 1 .. n + 1 : g \in 1 .. n \/ g = n + 1
  OBVIOUS
<1>5. Len(s) \in Nat /\ \A i \in DOMAIN s : i <= Len(s)
  OBVIOUS
<1>. HIDE DEF u
<1>6. ASSUME NEW i \in DOMAIN u
      PROVE  \E g \in 1 .. n + 1 : \E k \in DOMAIN w[g] : u[i] = w[g][k]
  <2>1. CASE i \in DOMAIN s
    <3>1. PICK g \in 1 .. n : \E k \in DOMAIN w[g] : s[i] = w[g][k]
      BY <2>1 DEF FlatIn
    <3>. QED BY <1>2, <1>3, <2>1, <3>1
  <2>2. CASE \E j \in DOMAIN t : i = Len(s) + j
    BY <1>1, <1>2, <1>4, <2>2
  <2>. QED BY <1>2, <2>1, <2>2
<1>7. ASSUME NEW g \in 1 .. n + 1, NEW k \in DOMAIN w[g]
      PROVE  \E i \in DOMAIN u : u[i] = w[g][k]
  <2>1. CASE g \in 1 .. n
    <3>1. PICK i \in DOMAIN s : s[i] = w[g][k]
      BY <2>1 DEF FlatIn
    <3>. QED BY <1>2, <3>1
  <2>2. CASE g = n + 1
    BY <1>1, <1>2, <2>2
  <2>. QED BY <1>4, <2>1, <2>2
<1>8. ASSUME NEW i \in DOMAIN u, NEW j \in DOMAIN u, i < j
      PROVE  \E g, h \in 1 .. n + 1 : \E k \in DOMAIN w[g], l \in DOMAIN w[h] :
               u[i] = w[g][k] /\ u[j] = w[h][l] /\ (g < h \/ (g = h /\ k < l))
  <2>1. CASE i \in DOMAIN s /\ j \in DOMAIN s
    <3>1. \E g, h \in 1 .. n : \E k \in DOMAIN w[g], l \in DOMAIN w[h] :
            s[i] = w[g][k] /\ s[j] = w[h][l] /\ (g < h \/ (g = h /\ k < l))
      <4>1. \A a, b \in DOMAIN s : a < b =>
              \E g, h \in 1 .. n : \E k \in DOMAIN w[g], l \in DOMAIN w[h] :
                s[a] = w[g][k] /\ s[b] = w[h][l] /\ (g < h \/ (g = h /\ k < l))
        BY Zenon DEF FlatIn
      <4>2. i < j
        BY <1>8
      <4>3. i \in DOMAIN s /\ j \in DOMAIN s
        BY <2>1
      <4>. QED BY <4>1, <4>2, <4>3, Zenon
    <3>. QED BY <1>2, <1>3, <2>1, <3>1
  <2>2. ASSUME i \in DOMAIN s, NEW l \in DOMAIN t, j = Len(s) + l
        PROVE  \E g, h \in 1 .. n + 1 : \E k \in DOMAIN w[g], m \in DOMAIN w[h] :
                 u[i] = w[g][k] /\ u[j] = w[h][m] /\ (g < h \/ (g = h /\ k < m))
    <3>1. PICK g \in 1 .. n : \E k \in DOMAIN w[g] : s[i] = w[g][k]
      BY <2>2 DEF FlatIn
    <3>2. g \in 1 .. n + 1 /\ g < n + 1
      OBVIOUS
    <3>3. PICK k \in DOMAIN w[g] : s[i] = w[g][k]
      BY <3>1
    <3>4. u[i] = w[g][k] /\ u[j] = w[n + 1][l] /\ l \in DOMAIN w[n + 1]
      BY <1>1, <1>2, <2>2, <3>3
    <3>. QED BY <1>4, <3>2, <3>4
  <2>3. ASSUME NEW k \in DOMAIN t, i = Len(s) + k, NEW l \in DOMAIN t, j = Len(s) + l
        PROVE  \E g, h \in 1 .. n + 1 : \E m \in DOMAIN w[g], p \in DOMAIN w[h] :
                 u[i] = w[g][m] /\ u[j] = w[h][p] /\ (g < h \/ (g = h /\ m < p))
    <3>1. k < l
      BY <1>1, <1>5, <1>8, <2>3
    <3>. QED BY <1>1, <1>2, <1>4, <2>3, <3>1
  <2>4. ASSUME NEW k \in DOMAIN t, i = Len(s) + k
        PROVE  j \notin DOMAIN s
    BY <1>1, <1>5, <1>8, <2>4
  <2>. QED BY <1>2, <2>1, <2>2, <2>3, <2>4
<1>9. w[1] # << >> => u # << >> /\ u[1] = w[1][1]
  <2>. SUFFICES ASSUME w[1] # << >> PROVE u # << >> /\ u[1] = w[1][1]
    OBVIOUS
  <2>1. s # << >> /\ s[1] = w[1][1] /\ 1 \in DOMAIN s
    BY DEF FlatIn
  <2>. QED BY <1>2, <2>1
<1>10. FlatIn(u, w, 1 .. n + 1)
  BY <1>6, <1>7, <1>8, <1>9 DEF FlatIn
<1>. QED BY <1>1, <1>2, <1>10 DEF u

\* Concatenation concatenates the sequences of w.
LEMMA FlattenFacts ==
  ASSUME NEW S, NEW w \in Seq(Seq(S)), w # << >>
  PROVE  Concatenation(w) \in Seq(S) /\ FlatIn(Concatenation(w), w, DOMAIN w)
<1>1. PICK f : Flattens(f, w, Len(w)) /\ Concatenation(w) = f[Len(w)]
  BY FlattenIs
<1>2. Len(w) \in Nat /\ Len(w) >= 1
  OBVIOUS
<1>3. f[1] = w[1]
  BY <1>1, <1>2 DEF Flattens
<1>4. ASSUME NEW n \in Nat, n >= 1, n + 1 <= Len(w)
      PROVE  f[n + 1] = f[n] \o w[n + 1]
  <2>1. n + 1 \in 1 .. Len(w) /\ n + 1 # 1 /\ (n + 1) - 1 = n
    BY <1>2, <1>4
  <2>2. f[n + 1] = f[(n + 1) - 1] \o w[n + 1]
    BY <1>1, <2>1, Zenon DEF Flattens
  <2>. QED BY <2>1, <2>2
<1>. DEFINE T == {n \in Nat : n + 1 <= Len(w) =>
                    f[n + 1] \in Seq(S) /\ FlatIn(f[n + 1], w, 1 .. n + 1)}
<1>5. 0 \in T
  BY <1>3, FlatOne
<1>6. ASSUME NEW n \in Nat, n \in T
      PROVE  n + 1 \in T
  <2>. SUFFICES ASSUME (n + 1) + 1 <= Len(w)
                PROVE  /\ f[(n + 1) + 1] \in Seq(S)
                       /\ FlatIn(f[(n + 1) + 1], w, 1 .. (n + 1) + 1)
    OBVIOUS
  <2>1. n + 1 \in Nat /\ n + 1 >= 1 /\ n + 1 <= Len(w)
    BY <1>2
  <2>2. f[n + 1] \in Seq(S) /\ FlatIn(f[n + 1], w, 1 .. n + 1)
    BY <1>6, <2>1
  <2>3. f[(n + 1) + 1] = f[n + 1] \o w[(n + 1) + 1]
    BY <1>4, <2>1
  <2>. QED BY <2>1, <2>2, <2>3, FlatStep
<1>7. \A n \in Nat : n \in T
  <2>. HIDE DEF T
  <2>. QED BY <1>5, <1>6, SetInduction
<1>8. Len(w) - 1 \in T /\ (Len(w) - 1) + 1 = Len(w) /\ DOMAIN w = 1 .. Len(w)
  <2>1. Len(w) - 1 \in Nat /\ (Len(w) - 1) + 1 = Len(w)
    BY <1>2
  <2>. HIDE DEF T
  <2>. QED BY <1>7, <2>1
<1>. QED BY <1>1, <1>2, <1>8

-----------------------------------------------------------------------------
(***************************************************************************)
(* The cache of the session: what is proved of GopCache holds of it.       *)
(***************************************************************************)

\* The assumption of GopCache holds of the constants of a session.
LEMMA CacheAssumption == G!GopCacheAssumption
BY HookSessionAssumption DEF G!GopCacheAssumption, MsgKinds, G!MsgKinds,
     AudioKinds, G!AudioKinds, VideoKinds, G!VideoKinds

\* The two names of every definition of GopCache mean the same.
LEMMA SameCache ==
  /\ Cache!TypeOK <=> G!TypeOK
  /\ Cache!CachedGops = G!CachedGops
  /\ Cache!GetGopCount = G!GetGopCount
  /\ Cache!Keep = G!Keep
  /\ Cache!gopSize = G!gopSize
  /\ G!Message = Message /\ G!MsgKinds = MsgKinds
  /\ Cache!Init <=> G!Init
BY Zenon DEF Cache!TypeOK, G!TypeOK, Cache!CachedGops, G!CachedGops,
     Cache!GetGopCount, G!GetGopCount, Cache!GetGopDataAt, G!GetGopDataAt,
     Cache!gopSize, G!gopSize, Cache!Keep, G!Keep, Cache!Slots, G!Slots,
     Cache!Message, G!Message, Message, Cache!NoMsg, G!NoMsg,
     Cache!MsgKinds, G!MsgKinds, MsgKinds, Cache!AudioKinds, G!AudioKinds,
     AudioKinds, Cache!VideoKinds, G!VideoKinds, VideoKinds,
     Cache!Init, G!Init

LEMMA SameFeed ==
  ASSUME NEW m
  PROVE  /\ Cache!Feed(m) <=> G!Feed(m)
         /\ Cache!IsFrame(m) <=> m.kind \in {"key", "inter", "aac", "rawAudio"}
         /\ G!IsVideoKeyNalu(m) <=> IsVideoKeyNalu(m)
BY Zenon DEF Cache!Feed, G!Feed, Cache!FeedHeader, G!FeedHeader,
     Cache!IsFrame, G!IsFrame, Cache!FeedNewGop, G!FeedNewGop,
     Cache!FeedLastGop, G!FeedLastGop, Cache!IsGopRingFull, G!IsGopRingFull,
     Cache!IsGopRingEmpty, G!IsGopRingEmpty, Cache!gopSize, G!gopSize,
     Cache!Keep, G!Keep, Cache!ring, G!ring,
     IsVideoKeyNalu, Cache!IsVideoKeyNalu, G!IsVideoKeyNalu

\* Feeding the next message is a step of the cache.
LEMMA FeedIsStep ==
  ASSUME NEW m \in Message, m.kind \in Kinds, m.seq = fed + 1, fed < MaxMsgs,
         Cache!Feed(m)
  PROVE  G!Next
<1>1. m = [kind |-> m.kind, seq |-> fed + 1]
  BY DEF Message
<1>2. G!Feed([kind |-> m.kind, seq |-> fed + 1])
  BY <1>1, SameFeed
<1>. QED BY <1>2 DEF G!Next, G!FeedNext

\* A new cache is well-typed and empty.
LEMMA NewCache ==
  /\ Cache!Init => Cache!TypeOK /\ Cache!CachedGops = << >>
  /\ Cache!Renew => Cache!TypeOK' /\ Cache!CachedGops' = << >>
<1>1. Cache!Init => Cache!TypeOK /\ Cache!CachedGops = << >>
  BY CacheAssumption, SameCache, G!InitGops
<1>2. (Cache!Init => Cache!TypeOK /\ Cache!CachedGops = << >>)'
  BY <1>1, PTL
<1>3. Cache!Renew => Cache!Init'
  BY DEF Cache!Renew, Cache!Init
<1>. QED BY <1>1, <1>2, <1>3

-----------------------------------------------------------------------------
(***************************************************************************)
(* The walk over the consumers.                                            *)
(***************************************************************************)

\* What the walk and the subscribers know of each other: who is owed a visit
\* has joined; who joined during the walk has got nothing yet; a consumer of
\* the running session has not been stopped unless OnStop has visited it.
WalkInv ==
  /\ registry = 0 <=> at = "gone"
  /\ at \in {"gone", "live"} => reachable = {}
  /\ at = "OnMsg" => /\ msg \in Message /\ msg.kind \in Kinds
                     /\ msg.seq = fed + 1 /\ fed < MaxMsgs
  /\ at # "OnMsg" => msg = NoMsg
  /\ owed \subseteq Consumers
  /\ \A c \in Subscribers :
       /\ sub[c] = "idle" => home[c] = 0
       /\ sub[c] \in {"idle", "found"} =>
            got[c] = << >> /\ ~hasSendVideo[c] /\ stops[c] = 0
       /\ c \in reachable => home[c] = session /\ sub[c] \in {"added", "removed"}
       /\ c \in reachable \ owed /\ sub[c] = "added" =>
            got[c] = << >> /\ ~hasSendVideo[c]
       /\ home[c] = session /\ (at \in {"live", "OnMsg"} \/ c \in reachable) =>
            stops[c] = 0

\* What one visit gives a consumer is a sequence of entries.
LEMMA EntriesType ==
  ASSUME NEW via \in {"header", "cache", "live"}
  PROVE  /\ \A m \in Message : Entry(m, via) \in EntryType
         /\ \A ms \in Seq(Message) : /\ Entries(ms, via) \in Seq(EntryType)
                                     /\ DOMAIN Entries(ms, via) = DOMAIN ms
<1>1. \A m \in Message : Entry(m, via) \in EntryType
  BY DEF Entry, EntryType, Message
<1>2. ASSUME NEW ms \in Seq(Message)
      PROVE  Entries(ms, via) \in Seq(EntryType) /\ DOMAIN Entries(ms, via) = DOMAIN ms
  <2>1. \A i \in DOMAIN ms : ms[i] \in Message
    OBVIOUS
  <2>2. \A i \in DOMAIN ms : Entry(ms[i], via) \in EntryType
    BY <1>1, <2>1
  <2>3. DOMAIN ms = 1 .. Len(ms) /\ Len(ms) \in Nat
    OBVIOUS
  <2>. QED BY <2>2, <2>3 DEF Entries
<1>. QED BY <1>1, <1>2

\* The cached GOPs are a sequence of sequences of messages.
LEMMA CachedType ==
  Cache!TypeOK => Cache!CachedGops \in Seq(Seq(Message))
BY CacheAssumption, SameCache, G!CachedGopsType

LEMMA VisitType ==
  ASSUME TypeOK, WalkInv, at = "OnMsg", NEW c \in Subscribers
  PROVE  /\ SeqHeaders \in Seq(EntryType)
         /\ CachedFrames \in Seq(EntryType)
         /\ Replay(c) \in Seq(EntryType)
         /\ Live(c) \in Seq(EntryType)
         /\ Entry(msg, "live") \in EntryType
<1>. DEFINE v == IF videoheader = NoMsg THEN << >> ELSE <<Entry(videoheader, "header")>>
            a == IF audioheader = NoMsg THEN << >> ELSE <<Entry(audioheader, "header")>>
<1>1. v \in Seq(EntryType) /\ a \in Seq(EntryType)
  <2>1. /\ videoheader = NoMsg \/ videoheader \in Message
        /\ audioheader = NoMsg \/ audioheader \in Message
    BY SameCache DEF TypeOK, G!TypeOK, G!NoMsg, NoMsg
  <2>2. /\ videoheader = NoMsg \/ Entry(videoheader, "header") \in EntryType
        /\ audioheader = NoMsg \/ Entry(audioheader, "header") \in EntryType
    BY <2>1, EntriesType
  <2>. QED BY <2>2
<1>2. SeqHeaders \in Seq(EntryType)
  <2>1. SeqHeaders = v \o a
    BY DEF SeqHeaders
  <2>. HIDE DEF v, a
  <2>. QED BY <1>1, <2>1
<1>3. CachedFrames \in Seq(EntryType)
  <2>1. Cache!CachedGops \in Seq(Seq(Message))
    BY CachedType DEF TypeOK
  <2>2. Concatenation(Cache!CachedGops) \in Seq(Message)
    <3>1. CASE Cache!CachedGops = << >>
      BY <3>1 DEF Concatenation
    <3>2. CASE Cache!CachedGops # << >>
      BY <2>1, <3>2, FlattenFacts
    <3>. QED BY <3>1, <3>2
  <2>. QED BY <2>2, EntriesType DEF CachedFrames
<1>4. Entry(msg, "live") \in EntryType
  BY EntriesType DEF WalkInv
<1>5. Replay(c) \in Seq(EntryType)
  BY <1>2, <1>3 DEF Replay
<1>6. Live(c) \in Seq(EntryType)
  <2>1. <<Entry(msg, "live")>> \in Seq(EntryType)
    BY <1>4
  <2>2. SeqHeaders \o <<Entry(msg, "live")>> \in Seq(EntryType)
    BY <1>2, <2>1
  <2>. QED BY <2>1, <2>2 DEF Live
<1>. QED BY <1>2, <1>3, <1>4, <1>5, <1>6

\* The first state.
LEMMA WalkInit == Init => TypeOK /\ WalkInv
<1>. SUFFICES ASSUME Init PROVE TypeOK /\ WalkInv
  OBVIOUS
<1>1. Cache!TypeOK
  BY NewCache DEF Init
<1>2. TypeOK
  <2>1. /\ session \in 0 .. MaxSessions /\ registry \in {0, session}
        /\ msg \in Message \cup {NoMsg}
        /\ owed \subseteq reachable /\ reachable \subseteq Subscribers
        /\ home \in [Subscribers -> 0 .. session]
        /\ stops \in [Subscribers -> 0 .. 1]
    BY HookSessionAssumption DEF Init
  <2>2. got \in [Subscribers -> Seq(EntryType)]
    BY DEF Init
  <2>. QED BY <1>1, <2>1, <2>2 DEF Init, TypeOK
<1>3. WalkInv
  BY DEF Init, WalkInv
<1>. QED BY <1>2, <1>3

LEMMA WalkStep == TypeOK /\ WalkInv /\ [Next]_vars => TypeOK' /\ WalkInv'
<1>. SUFFICES ASSUME TypeOK, WalkInv, [Next]_vars
              PROVE  TypeOK' /\ WalkInv'
  OBVIOUS
<1>. USE HookSessionAssumption
<1>0. ASSUME UNCHANGED cacheVars
      PROVE  Cache!TypeOK' /\ fed' = fed
  BY <1>0 DEF TypeOK, Cache!TypeOK, cacheVars
<1>1. CASE NewHookSession
  <2>1. Cache!TypeOK'
    BY <1>1, NewCache DEF NewHookSession
  <2>2. /\ session' \in 0 .. MaxSessions /\ registry' = session'
        /\ UNCHANGED <<owed, reachable, subVars, msg>>
        /\ home \in [Subscribers -> 0 .. session']
    BY <1>1 DEF NewHookSession, TypeOK
  <2>4. TypeOK'
    BY <1>1, <2>1, <2>2 DEF NewHookSession, subVars, TypeOK
  <2>3. WalkInv'
    BY <1>1 DEF NewHookSession, subVars, TypeOK, WalkInv, Consumers
  <2>. QED BY <2>3, <2>4
<1>2. ASSUME NEW k \in Kinds, OnMsg([kind |-> k, seq |-> fed + 1])
      PROVE  TypeOK' /\ WalkInv'
  <2>. DEFINE m == [kind |-> k, seq |-> fed + 1]
  <2>1. m \in Message /\ m.kind \in Kinds /\ m.seq = fed + 1
    <3>1. fed \in Nat
      BY SameCache DEF TypeOK, G!TypeOK
    <3>. QED BY <3>1 DEF Message
  <2>. HIDE DEF m
  <2>2. OnMsg(m)
    BY <1>2 DEF m
  <2>3. TypeOK'
    BY <1>0, <2>1, <2>2 DEF OnMsg, BeginWalk, subVars, TypeOK, Consumers
  <2>4. WalkInv'
    BY <1>0, <2>1, <2>2 DEF OnMsg, BeginWalk, subVars, TypeOK, WalkInv, Consumers
  <2>. QED BY <2>3, <2>4
<1>3. CASE EndOnMsg
  <2>1. Cache!TypeOK'
    <3>1. G!Next
      BY <1>3, FeedIsStep DEF EndOnMsg, WalkInv
    <3>2. G!TypeOK'
      BY <3>1, SameCache, CacheAssumption, G!TypeStep DEF TypeOK
    <3>. QED BY <3>2, SameCache, PTL
  <2>2. TypeOK'
    BY <1>3, <2>1 DEF EndOnMsg, subVars, TypeOK
  <2>3. WalkInv'
    BY <1>3 DEF EndOnMsg, subVars, TypeOK, WalkInv, Consumers
  <2>. QED BY <2>2, <2>3
<1>4. CASE OnStop
  <2>1. TypeOK'
    BY <1>0, <1>4 DEF OnStop, BeginWalk, subVars, TypeOK, Consumers
  <2>2. WalkInv'
    BY <1>0, <1>4 DEF OnStop, BeginWalk, subVars, TypeOK, WalkInv, Consumers
  <2>. QED BY <2>1, <2>2
<1>5. CASE EndOnStop
  <2>1. TypeOK'
    BY <1>0, <1>5 DEF EndOnStop, subVars, TypeOK
  <2>2. WalkInv'
    BY <1>0, <1>5 DEF EndOnStop, subVars, TypeOK, WalkInv, Consumers
  <2>. QED BY <2>1, <2>2
<1>6. ASSUME NEW c \in Subscribers, Deliver(c)
      PROVE  TypeOK' /\ WalkInv'
  <2>1. got' \in [Subscribers -> Seq(EntryType)]
    <3>1. got[c] \o Replay(c) \o Live(c) \in Seq(EntryType)
      BY <1>6, VisitType DEF Deliver, TypeOK
    <3>2. got' = [got EXCEPT ![c] = got[c] \o Replay(c) \o Live(c)]
      BY <1>6 DEF Deliver
    <3>. QED BY <3>1, <3>2 DEF TypeOK
  <2>2. hasSendVideo' \in [Subscribers -> BOOLEAN]
    <3>1. (Started(c) \/ IsVideoKeyNalu(msg)) \in BOOLEAN
      BY DEF Started, ReplayDue, IsVideoKeyNalu
    <3>. QED BY <1>6, <3>1 DEF Deliver, TypeOK
  <2>3. TypeOK'
    BY <1>0, <1>6, <2>1, <2>2 DEF Deliver, TypeOK
  <2>4. WalkInv'
    <3>1. \A d \in Subscribers : d # c => got'[d] = got[d] /\ hasSendVideo'[d] = hasSendVideo[d]
      BY <1>6 DEF Deliver, TypeOK
    <3>. QED BY <1>0, <1>6, <3>1 DEF Deliver, TypeOK, WalkInv, Consumers
  <2>. QED BY <2>3, <2>4
<1>7. ASSUME NEW c \in Subscribers, StopConsumer(c)
      PROVE  TypeOK' /\ WalkInv'
  <2>1. TypeOK'
    BY <1>0, <1>7 DEF StopConsumer, TypeOK, WalkInv
  <2>2. WalkInv'
    BY <1>0, <1>7 DEF StopConsumer, TypeOK, WalkInv, Consumers
  <2>. QED BY <2>1, <2>2
<1>8. ASSUME NEW c \in Subscribers, GetHookSession(c)
      PROVE  TypeOK' /\ WalkInv'
  <2>1. TypeOK'
    BY <1>0, <1>8 DEF GetHookSession, walkVars, TypeOK, WalkInv
  <2>2. WalkInv'
    BY <1>0, <1>8 DEF GetHookSession, walkVars, TypeOK, WalkInv, Consumers
  <2>. QED BY <2>1, <2>2
<1>9. ASSUME NEW c \in Subscribers, AddConsumer(c)
      PROVE  TypeOK' /\ WalkInv'
  <2>1. TypeOK'
    BY <1>0, <1>9 DEF AddConsumer, TypeOK, WalkInv
  <2>2. WalkInv'
    BY <1>0, <1>9 DEF AddConsumer, TypeOK, WalkInv, Consumers
  <2>. QED BY <2>1, <2>2
<1>10. ASSUME NEW c \in Subscribers, RemoveConsumer(c)
      PROVE  TypeOK' /\ WalkInv'
  <2>1. TypeOK'
    BY <1>0, <1>10 DEF RemoveConsumer, TypeOK, WalkInv
  <2>2. WalkInv'
    BY <1>0, <1>10 DEF RemoveConsumer, TypeOK, WalkInv, Consumers
  <2>. QED BY <2>1, <2>2
<1>11. CASE UNCHANGED vars
  <2>1. TypeOK'
    BY <1>0, <1>11 DEF vars, cacheVars, walkVars, subVars, TypeOK
  <2>2. WalkInv'
    BY <1>11 DEF vars, cacheVars, walkVars, subVars, WalkInv, Consumers
  <2>. QED BY <2>1, <2>2
<1>. QED BY <1>1, <1>2, <1>3, <1>4, <1>5, <1>6, <1>7, <1>8, <1>9, <1>10, <1>11
        DEF Next, Publisher

\* Whatever the subscribers do while lal's goroutine walks the consumers, the
\* state is well-formed: a walk owes visits only to consumers it can reach and
\* nobody is stopped twice.
THEOREM TypeCorrect == Spec => []TypeOK
<1>1. Spec => [](TypeOK /\ WalkInv)
  BY WalkInit, WalkStep, PTL DEF Spec
<1>. QED BY <1>1, PTL

-----------------------------------------------------------------------------
(***************************************************************************)
(* The stream and what the cache holds of it.                              *)
(***************************************************************************)

\* The messages are numbered as they come; hasVideo says whether a key frame
\* has been among them.
IsStream(h) == \A p \in DOMAIN h : h[p].seq = p /\ h[p].kind \in Kinds

StreamInv ==
  /\ Len(hist) = fed
  /\ IsStream(hist)
  /\ hasVideo <=> \E p \in DOMAIN hist : IsVideoKeyNalu(hist[p])

\* The cached GOPs w of the stream h: ordered, made of frames of the stream,
\* and, when GOPs are not cut, with every frame since the first of them.
IsFrame(m) == m.kind \in {"key", "inter", "aac", "rawAudio"}

FromStream(w, h) ==
  \A g \in DOMAIN w : \A i \in DOMAIN w[g] :
    IsFrame(w[g][i]) /\ w[g][i].seq \in DOMAIN h /\ h[w[g][i].seq] = w[g][i]

CompleteUpTo(w, h) ==
  w # << >> => \A p \in DOMAIN h :
    IsFrame(h[p]) /\ p >= w[1][1].seq =>
      \E g \in DOMAIN w : \E i \in DOMAIN w[g] : w[g][i] = h[p]

GopsInv ==
  /\ G!OrderedUpTo(Cache!CachedGops, fed)
  /\ FromStream(Cache!CachedGops, hist)
  /\ SingleGopMaxFrameNum = 0 => CompleteUpTo(Cache!CachedGops, hist)

\* The stream with one more message.
LEMMA StreamAppend ==
  ASSUME NEW h \in Seq(Message), NEW m \in Message
  PROVE  /\ Append(h, m) \in Seq(Message)
         /\ Len(Append(h, m)) = Len(h) + 1
         /\ DOMAIN Append(h, m) = 1 .. Len(h) + 1 /\ DOMAIN h = 1 .. Len(h)
         /\ Len(h) \in Nat
         /\ \A p \in DOMAIN h : p \in DOMAIN Append(h, m) /\ Append(h, m)[p] = h[p]
         /\ Append(h, m)[Len(h) + 1] = m
         /\ \A p \in DOMAIN Append(h, m) : p \in DOMAIN h \/ p = Len(h) + 1
OBVIOUS

\* What feeding a message does to the cached GOPs.
LEMMA FeedGops ==
  ASSUME Cache!TypeOK, Cache!TypeOK', NEW m \in Message, Cache!Feed(m),
         NEW w, w = Cache!CachedGops
  PROVE  \/ /\ Cache!CachedGops' = w
            /\ SingleGopMaxFrameNum = 0 /\ w # << >> => ~IsFrame(m)
         \/ /\ IsVideoKeyNalu(m)
            /\ \/ Cache!CachedGops' = Append(w, <<m>>)
               \/ w # << >> /\ Cache!CachedGops' = Append(Tail(w), <<m>>)
         \/ /\ IsFrame(m) /\ ~IsVideoKeyNalu(m) /\ w # << >>
            /\ Cache!CachedGops' = [w EXCEPT ![Len(w)] = Append(@, m)]
<1>. DEFINE w1 == Cache!CachedGops'
<1>1. G!TypeOK /\ G!TypeOK' /\ w = G!CachedGops /\ w1 = G!CachedGops' /\ m \in G!Message
  <2>1. /\ (Cache!TypeOK <=> G!TypeOK)'
        /\ (Cache!CachedGops = G!CachedGops)'
    BY SameCache, PTL
  <2>. QED BY <2>1, SameCache
<1>2. /\ G!Keep \in Nat /\ G!gopSize = G!Keep + 1 /\ G!Feed(m)
  BY CacheAssumption, SameFeed, G!RingSize
<1>3. w \in Seq(Seq(Message)) /\ Len(w) <= G!Keep
  BY <1>1, CacheAssumption, SameCache, G!CachedGopsType
<1>4. IsVideoKeyNalu(m) => IsFrame(m)
  BY DEF IsVideoKeyNalu, IsFrame
<1>5. CASE ~(G!gopSize > 1 /\ IsFrame(m))
  <2>1. UNCHANGED G!ring
    BY <1>2, <1>5 DEF G!Feed, G!IsFrame, IsFrame
  <2>2. w1 = w
    BY <1>1, <2>1 DEF G!ring, G!CachedGops, G!GetGopCount, G!GetGopDataAt
  <2>3. w # << >> => ~IsFrame(m)
    BY <1>2, <1>3, <1>5
  <2>. QED BY <2>2, <2>3
<1>6. CASE G!gopSize > 1 /\ IsFrame(m) /\ IsVideoKeyNalu(m)
  <2>1. G!FeedNewGop(m)
    BY <1>2, <1>6, SameFeed DEF G!Feed, G!IsFrame, IsFrame
  <2>2. w1 = Append(IF Len(w) < G!Keep THEN w ELSE Tail(w), <<m>>)
    BY <1>1, <1>2, <1>6, <2>1, CacheAssumption, G!NewGopStep
  <2>3. ~(Len(w) < G!Keep) => w # << >>
    BY <1>2, <1>3, <1>6
  <2>. QED BY <1>6, <2>2, <2>3
<1>7. CASE G!gopSize > 1 /\ IsFrame(m) /\ ~IsVideoKeyNalu(m)
  <2>1. G!FeedLastGop(m)
    BY <1>2, <1>7, SameFeed DEF G!Feed, G!IsFrame, IsFrame
  <2>. DEFINE takes == /\ w # << >>
                       /\ \/ SingleGopMaxFrameNum = 0
                          \/ Len(w[Len(w)]) <= SingleGopMaxFrameNum
              longer == [w EXCEPT ![Len(w)] = Append(@, m)]
  <2>2. w1 = IF takes THEN longer ELSE w
    BY <1>1, <2>1, CacheAssumption, G!LastGopStep
  <2>3. CASE takes
    <3>1. w # << >> /\ w1 = longer
      BY <2>2, <2>3
    <3>. QED BY <1>7, <3>1
  <2>4. CASE ~takes
    <3>1. w1 = w /\ ~(SingleGopMaxFrameNum = 0 /\ w # << >>)
      BY <2>2, <2>4
    <3>. QED BY <3>1
  <2>. QED BY <2>3, <2>4
<1>. QED BY <1>5, <1>6, <1>7

\* A GOP that leaves the ring, a GOP that is opened and a frame that joins the
\* newest GOP leave the cache with frames of the stream, and with all of them
\* since its first one.
LEMMA TailGops ==
  ASSUME NEW w \in Seq(Seq(Message)), w # << >>, NEW h \in Seq(Message),
         NEW n \in Nat, G!OrderedUpTo(w, n), FromStream(w, h)
  PROVE  /\ Tail(w) \in Seq(Seq(Message))
         /\ G!OrderedUpTo(Tail(w), n)
         /\ FromStream(Tail(w), h)
         /\ IsStream(h) /\ CompleteUpTo(w, h) => CompleteUpTo(Tail(w), h)
<1>. DEFINE v == Tail(w)
<1>1. /\ v \in Seq(Seq(Message))
      /\ \A g \in DOMAIN v : g + 1 \in DOMAIN w /\ v[g] = w[g + 1] /\ g \in Nat
      /\ \A g \in DOMAIN w : g = 1 \/ (g - 1 \in DOMAIN v /\ v[g - 1] = w[g])
      /\ 1 \in DOMAIN w
  <2>. DEFINE S == Seq(Message)
  <2>1. w \in Seq(S) /\ w # << >>
    OBVIOUS
  <2>. HIDE DEF S
  <2>2. v \in Seq(S) /\ Len(v) = Len(w) - 1 /\ Len(w) \in Nat /\ DOMAIN w = 1 .. Len(w)
    BY ONLY <2>1
  <2>3. \A g \in 1 .. Len(w) - 1 : v[g] = w[g + 1]
    BY ONLY <2>1
  <2>4. DOMAIN v = 1 .. Len(w) - 1 /\ Len(w) > 0
    BY ONLY <2>1, <2>2
  <2>5. /\ \A g \in DOMAIN v : g + 1 \in DOMAIN w /\ v[g] = w[g + 1] /\ g \in Nat
        /\ 1 \in DOMAIN w
    BY ONLY <2>2, <2>3, <2>4
  <2>6. ASSUME NEW g \in DOMAIN w, g # 1
        PROVE  g - 1 \in DOMAIN v /\ v[g - 1] = w[g]
    <3>1. g - 1 \in 1 .. Len(w) - 1 /\ (g - 1) + 1 = g
      BY ONLY <2>2, <2>6, g \in DOMAIN w
    <3>2. v[g - 1] = w[(g - 1) + 1]
      BY ONLY <2>3, <3>1
    <3>. QED BY ONLY <2>4, <3>1, <3>2
  <2>. HIDE DEF v
  <2>. QED BY ONLY <2>2, <2>5, <2>6, Zenon DEF S
<1>2. G!OrderedUpTo(v, n)
  BY CacheAssumption, SameCache, G!OrderedTail
<1>. HIDE DEF v
<1>3. FromStream(v, h)
  BY ONLY <1>1, FromStream(w, h) DEF FromStream
<1>4. ASSUME IsStream(h), CompleteUpTo(w, h), v # << >>,
             NEW p \in DOMAIN h, IsFrame(h[p]), p >= v[1][1].seq
      PROVE  \E g \in DOMAIN v : \E i \in DOMAIN v[g] : v[g][i] = h[p]
  <2>1. 1 \in DOMAIN v /\ 2 \in DOMAIN w /\ v[1] = w[2]
    <3>1. 1 \in DOMAIN v
      BY <1>1, <1>4
    <3>. QED BY <1>1, <3>1
  <2>2. /\ w[1] # << >> /\ w[2] # << >>
        /\ w[1] \in Seq(Message) /\ w[2] \in Seq(Message)
    BY <1>1, <2>1 DEF G!OrderedUpTo, G!Replayable
  <2>3. 1 \in DOMAIN w[1] /\ 1 \in DOMAIN w[2]
    BY <2>2
  <2>4. \A i \in DOMAIN w[1] : w[1][i].seq < w[2][1].seq
    <3>1. \A g, k \in DOMAIN w : g < k =>
            \A i \in DOMAIN w[g], j \in DOMAIN w[k] : w[g][i].seq < w[k][j].seq
      BY DEF G!OrderedUpTo, G!Replayable
    <3>2. 1 < 2
      OBVIOUS
    <3>. QED BY <1>1, <2>1, <2>3, <3>1, <3>2
  <2>5. /\ w[1][1].seq \in Nat /\ w[2][1].seq \in Nat /\ p \in Nat
        /\ \A i \in DOMAIN w[1] : w[1][i].seq \in Nat
    <3>1. \A i \in DOMAIN w[1] : w[1][i] \in Message
      BY <2>2
    <3>2. w[2][1] \in Message
      BY <2>2, <2>3
    <3>3. \A m \in Message : m.seq \in Nat
      BY DEF Message
    <3>4. p \in Nat
      BY <1>4
    <3>. QED BY <2>3, <3>1, <3>2, <3>3, <3>4
  <2>6. p >= w[1][1].seq
    BY <1>4, <2>1, <2>3, <2>4, <2>5
  <2>7. PICK g \in DOMAIN w : \E i \in DOMAIN w[g] : w[g][i] = h[p]
    BY <1>4, <2>6 DEF CompleteUpTo
  <2>8. g # 1
    <3>. SUFFICES ASSUME g = 1 PROVE FALSE
      OBVIOUS
    <3>1. PICK i \in DOMAIN w[1] : w[1][i] = h[p]
      BY <2>7
    <3>2. w[1][i].seq = p
      BY <1>4, <3>1 DEF IsStream
    <3>3. p < w[2][1].seq /\ p >= w[2][1].seq
      BY <1>4, <2>1, <2>4, <3>1, <3>2
    <3>4. p \in Nat /\ w[2][1].seq \in Nat
      BY <2>5
    <3>. DEFINE q == w[2][1].seq
    <3>. HIDE DEF q
    <3>5. p < q /\ p >= q /\ p \in Nat /\ q \in Nat
      BY <3>3, <3>4 DEF q
    <3>. QED BY ONLY <3>5
  <2>. QED BY <1>1, <2>7, <2>8
<1>5. IsStream(h) /\ CompleteUpTo(w, h) => CompleteUpTo(v, h)
  BY <1>4 DEF CompleteUpTo
<1>. QED BY <1>1, <1>2, <1>3, <1>5 DEF v

LEMMA AppendGops ==
  ASSUME NEW w \in Seq(Seq(Message)), NEW h \in Seq(Message), NEW m \in Message,
         G!OrderedUpTo(w, Len(h)), FromStream(w, h), IsStream(h),
         IsVideoKeyNalu(m), m.seq = Len(h) + 1
  PROVE  /\ Append(w, <<m>>) \in Seq(Seq(Message))
         /\ G!OrderedUpTo(Append(w, <<m>>), Len(h) + 1)
         /\ FromStream(Append(w, <<m>>), Append(h, m))
         /\ CompleteUpTo(w, h) => CompleteUpTo(Append(w, <<m>>), Append(h, m))
<1>. DEFINE v == Append(w, <<m>>)
            k == Append(h, m)
<1>1. /\ v \in Seq(Seq(Message))
      /\ \A g \in DOMAIN w : g \in DOMAIN v /\ v[g] = w[g]
      /\ Len(w) + 1 \in DOMAIN v /\ v[Len(w) + 1] = <<m>>
      /\ \A g \in DOMAIN v : g \in DOMAIN w \/ g = Len(w) + 1
      /\ w = << >> => v[1] = <<m>>
      /\ w # << >> => 1 \in DOMAIN w
  OBVIOUS
<1>2. /\ Len(h) + 1 \in DOMAIN k /\ k[Len(h) + 1] = m
      /\ \A p \in DOMAIN h : p \in DOMAIN k /\ k[p] = h[p] /\ p \in Nat /\ p <= Len(h)
      /\ \A p \in DOMAIN k : p \in DOMAIN h \/ p = Len(h) + 1
      /\ Len(h) \in Nat
  BY StreamAppend
<1>3. G!OrderedUpTo(v, Len(h) + 1)
  BY <1>2, CacheAssumption, SameCache, SameFeed, G!OrderedAppend
<1>4. <<m>>[1] = m /\ DOMAIN <<m>> = {1}
  OBVIOUS
<1>5. IsFrame(m)
  BY DEF IsVideoKeyNalu, IsFrame
<1>. HIDE DEF v, k
<1>6. FromStream(v, k)
  <2>. SUFFICES ASSUME NEW g \in DOMAIN v, NEW i \in DOMAIN v[g]
                PROVE  IsFrame(v[g][i]) /\ v[g][i].seq \in DOMAIN k /\ k[v[g][i].seq] = v[g][i]
    BY DEF FromStream
  <2>1. CASE g \in DOMAIN w
    <3>1. i \in DOMAIN w[g] /\ v[g][i] = w[g][i]
      BY <1>1, <2>1
    <3>. QED BY <1>2, <2>1, <3>1 DEF FromStream
  <2>2. CASE g = Len(w) + 1
    <3>1. v[g][i] = m
      BY <1>1, <1>4, <2>2
    <3>. QED BY <1>2, <1>5, <3>1
  <2>. QED BY <1>1, <2>1, <2>2
<1>7. ASSUME CompleteUpTo(w, h), NEW p \in DOMAIN k, IsFrame(k[p]), p >= v[1][1].seq
      PROVE  \E g \in DOMAIN v : \E i \in DOMAIN v[g] : v[g][i] = k[p]
  <2>1. CASE p = Len(h) + 1
    <3>1. 1 \in DOMAIN v[Len(w) + 1] /\ v[Len(w) + 1][1] = k[p]
      BY <1>1, <1>2, <1>4, <2>1
    <3>. QED BY <1>1, <3>1
  <2>2. CASE p \in DOMAIN h
    <3>1. w # << >>
      BY <1>1, <1>2, <1>4, <1>7, <2>2
    <3>2. v[1] = w[1] /\ k[p] = h[p]
      BY <1>1, <1>2, <2>2, <3>1
    <3>3. \E g \in DOMAIN w : \E i \in DOMAIN w[g] : w[g][i] = h[p]
      BY <1>7, <2>2, <3>1, <3>2 DEF CompleteUpTo
    <3>. QED BY <1>1, <3>2, <3>3
  <2>. QED BY <1>2, <2>1, <2>2
<1>8. CompleteUpTo(w, h) => CompleteUpTo(v, k)
  BY <1>7 DEF CompleteUpTo
<1>. QED BY <1>1, <1>3, <1>6, <1>8 DEF v, k

LEMMA ExtendGops ==
  ASSUME NEW w \in Seq(Seq(Message)), w # << >>, NEW h \in Seq(Message),
         NEW m \in Message, G!OrderedUpTo(w, Len(h)), FromStream(w, h), IsStream(h),
         IsFrame(m), ~IsVideoKeyNalu(m), m.seq = Len(h) + 1
  PROVE  LET v == [w EXCEPT ![Len(w)] = Append(@, m)]
         IN  /\ G!OrderedUpTo(v, Len(h) + 1)
             /\ FromStream(v, Append(h, m))
             /\ CompleteUpTo(w, h) => CompleteUpTo(v, Append(h, m))
<1>. DEFINE top == Len(w)
            old == w[top]
            new == Append(old, m)
            v   == [w EXCEPT ![top] = Append(@, m)]
            k   == Append(h, m)
<1>1. /\ top \in DOMAIN w /\ DOMAIN v = DOMAIN w
      /\ \A g \in DOMAIN w : w[g] \in Seq(Message)
      /\ v[top] = new
      /\ \A g \in DOMAIN w : g # top => v[g] = w[g]
      /\ 1 \in DOMAIN w
  OBVIOUS
<1>2. /\ \A i \in DOMAIN old : i \in DOMAIN new /\ new[i] = old[i]
      /\ Len(old) + 1 \in DOMAIN new /\ new[Len(old) + 1] = m
      /\ \A i \in DOMAIN new : i \in DOMAIN old \/ i = Len(old) + 1
  <2>1. old \in Seq(Message)
    BY <1>1
  <2>. QED BY <2>1
<1>3. /\ Len(h) + 1 \in DOMAIN k /\ k[Len(h) + 1] = m
      /\ \A p \in DOMAIN h : p \in DOMAIN k /\ k[p] = h[p] /\ p \in Nat /\ p <= Len(h)
      /\ \A p \in DOMAIN k : p \in DOMAIN h \/ p = Len(h) + 1
      /\ Len(h) \in Nat
  BY StreamAppend
<1>4. G!OrderedUpTo(v, Len(h) + 1)
  BY <1>3, CacheAssumption, SameCache, SameFeed, G!OrderedExtend
<1>5. w[1] # << >>
  BY <1>1 DEF G!OrderedUpTo, G!Replayable
<1>6. 1 \in DOMAIN w[1]
  BY <1>1, <1>5
<1>. HIDE DEF v, k, new, old, top
<1>7. FromStream(v, k)
  <2>. SUFFICES ASSUME NEW g \in DOMAIN v, NEW i \in DOMAIN v[g]
                PROVE  IsFrame(v[g][i]) /\ v[g][i].seq \in DOMAIN k /\ k[v[g][i].seq] = v[g][i]
    BY DEF FromStream
  <2>1. CASE i \in DOMAIN w[g] /\ v[g][i] = w[g][i]
    BY <1>1, <1>3, <2>1 DEF FromStream
  <2>2. CASE v[g][i] = m
    BY <1>3, <2>2
  <2>3. CASE g = top
    BY <1>1, <1>2, <2>1, <2>2, <2>3 DEF old
  <2>4. CASE g # top
    BY <1>1, <2>1, <2>4
  <2>. QED BY <2>3, <2>4
<1>8. ASSUME CompleteUpTo(w, h), NEW p \in DOMAIN k, IsFrame(k[p]), p >= v[1][1].seq
      PROVE  \E g \in DOMAIN v : \E i \in DOMAIN v[g] : v[g][i] = k[p]
  <2>1. \A g \in DOMAIN w : \A i \in DOMAIN w[g] : i \in DOMAIN v[g] /\ v[g][i] = w[g][i]
    BY <1>1, <1>2 DEF old
  <2>2. CASE p = Len(h) + 1
    BY <1>1, <1>2, <1>3, <2>2
  <2>3. CASE p \in DOMAIN h
    <3>1. v[1][1] = w[1][1] /\ k[p] = h[p]
      BY <1>1, <1>3, <1>6, <2>1, <2>3
    <3>2. PICK g \in DOMAIN w : \E i \in DOMAIN w[g] : w[g][i] = h[p]
      BY <1>8, <2>3, <3>1 DEF CompleteUpTo
    <3>. QED BY <1>1, <2>1, <3>1, <3>2
  <2>. QED BY <1>3, <2>2, <2>3
<1>9. CompleteUpTo(w, h) => CompleteUpTo(v, k)
  BY <1>8 DEF CompleteUpTo
<1>. QED BY <1>4, <1>7, <1>9 DEF v, k, top

\* The stream goes on and the cache stays as it was.
LEMMA KeepGops ==
  ASSUME NEW w \in Seq(Seq(Message)), NEW h \in Seq(Message), NEW m \in Message,
         G!OrderedUpTo(w, Len(h)), FromStream(w, h)
  PROVE  /\ G!OrderedUpTo(w, Len(h) + 1)
         /\ FromStream(w, Append(h, m))
         /\ CompleteUpTo(w, h) /\ (w # << >> => ~IsFrame(m)) => CompleteUpTo(w, Append(h, m))
<1>1. /\ Append(h, m)[Len(h) + 1] = m
      /\ \A p \in DOMAIN h : p \in DOMAIN Append(h, m) /\ Append(h, m)[p] = h[p]
      /\ \A p \in DOMAIN Append(h, m) : p \in DOMAIN h \/ p = Len(h) + 1
      /\ Len(h) \in Nat
  BY StreamAppend
<1>2. G!OrderedUpTo(w, Len(h) + 1)
  BY <1>1, CacheAssumption, SameCache, G!OrderedLater
<1>3. FromStream(w, Append(h, m))
  BY <1>1 DEF FromStream
<1>4. CompleteUpTo(w, h) /\ (w # << >> => ~IsFrame(m)) => CompleteUpTo(w, Append(h, m))
  BY <1>1 DEF CompleteUpTo
<1>. QED BY <1>2, <1>3, <1>4

\* A new cache holds no frame of a new stream.
LEMMA NoGops ==
  /\ G!OrderedUpTo(<< >>, 0) /\ FromStream(<< >>, << >>) /\ CompleteUpTo(<< >>, << >>)
  /\ IsStream(<< >>)
BY DEF G!OrderedUpTo, G!Replayable, FromStream, CompleteUpTo, IsStream

\* The stream and the cache move only when lal's goroutine ends a walk.
LEMMA StreamStep ==
  ASSUME TypeOK, TypeOK', WalkInv, StreamInv, GopsInv, [Next]_vars
  PROVE  StreamInv' /\ GopsInv'
<1>1. CASE UNCHANGED cacheVars /\ UNCHANGED hasVideo
  <2>1. Cache!CachedGops' = Cache!CachedGops
    BY <1>1 DEF cacheVars, Cache!CachedGops, Cache!GetGopCount, Cache!GetGopDataAt
  <2>. QED BY <1>1, <2>1 DEF cacheVars, StreamInv, GopsInv
<1>2. CASE NewHookSession
  <2>1. hist' = << >> /\ fed' = 0 /\ hasVideo' = FALSE /\ Cache!CachedGops' = << >>
    BY <1>2, NewCache DEF NewHookSession, Cache!Renew
  <2>. QED BY <2>1, NoGops DEF StreamInv, GopsInv
<1>3. CASE EndOnMsg
  <2>. DEFINE w == Cache!CachedGops
  <2>1. /\ msg \in Message /\ msg.kind \in Kinds /\ msg.seq = fed + 1
        /\ hist' = Append(hist, msg) /\ fed' = fed + 1
        /\ hasVideo' = (hasVideo \/ IsVideoKeyNalu(msg))
        /\ Cache!Feed(msg) /\ Cache!TypeOK /\ Cache!TypeOK'
    BY <1>3 DEF EndOnMsg, WalkInv, Cache!Feed, TypeOK
  <2>2. hist \in Seq(Message) /\ fed \in Nat /\ Len(hist) = fed /\ IsStream(hist)
    BY SameCache DEF TypeOK, G!TypeOK, StreamInv
  <2>3. w \in Seq(Seq(Message))
    BY CachedType DEF TypeOK
  <2>4. StreamInv'
    <3>1. /\ Len(hist') = Len(hist) + 1
          /\ \A p \in DOMAIN hist : p \in DOMAIN hist' /\ hist'[p] = hist[p]
          /\ \A p \in DOMAIN hist' : p \in DOMAIN hist \/ p = Len(hist) + 1
          /\ Len(hist) + 1 \in DOMAIN hist'
          /\ hist'[Len(hist) + 1] = msg
      BY <2>1, <2>2, StreamAppend
    <3>2. IsStream(hist')
      BY <2>1, <2>2, <3>1 DEF IsStream
    <3>3. hasVideo' <=> \E p \in DOMAIN hist' : IsVideoKeyNalu(hist'[p])
      BY <2>1, <3>1 DEF StreamInv, IsVideoKeyNalu
    <3>. QED BY <2>1, <2>2, <3>1, <3>2, <3>3 DEF StreamInv
  <2>5. /\ G!OrderedUpTo(w, Len(hist)) /\ FromStream(w, hist)
        /\ SingleGopMaxFrameNum = 0 => CompleteUpTo(w, hist)
    BY <2>2 DEF GopsInv
  <2>. HIDE DEF w
  <2>6. CASE /\ Cache!CachedGops' = w
             /\ SingleGopMaxFrameNum = 0 /\ w # << >> => ~IsFrame(msg)
    <3>1. /\ G!OrderedUpTo(w, Len(hist) + 1) /\ FromStream(w, Append(hist, msg))
          /\ SingleGopMaxFrameNum = 0 => CompleteUpTo(w, Append(hist, msg))
      BY <2>1, <2>2, <2>3, <2>5, <2>6, KeepGops
    <3>. QED BY <2>1, <2>2, <2>4, <2>6, <3>1 DEF GopsInv
  <2>7. CASE IsVideoKeyNalu(msg) /\ Cache!CachedGops' = Append(w, <<msg>>)
    <3>. DEFINE v == Append(w, <<msg>>)
    <3>1. /\ G!OrderedUpTo(v, Len(hist) + 1) /\ FromStream(v, Append(hist, msg))
          /\ SingleGopMaxFrameNum = 0 => CompleteUpTo(v, Append(hist, msg))
      BY <2>1, <2>2, <2>3, <2>5, <2>7, AppendGops
    <3>2. Cache!CachedGops' = v
      BY <2>7
    <3>. HIDE DEF v
    <3>. QED BY <2>1, <2>2, <2>4, <3>1, <3>2 DEF GopsInv
  <2>8. CASE IsVideoKeyNalu(msg) /\ w # << >> /\ Cache!CachedGops' = Append(Tail(w), <<msg>>)
    <3>. DEFINE v == Tail(w)
    <3>1. /\ v \in Seq(Seq(Message)) /\ G!OrderedUpTo(v, Len(hist)) /\ FromStream(v, hist)
          /\ SingleGopMaxFrameNum = 0 => CompleteUpTo(v, hist)
      <4>1. Len(hist) \in Nat
        BY <2>2
      <4>. QED BY <2>2, <2>3, <2>5, <2>8, <4>1, TailGops
    <3>. HIDE DEF v
    <3>. DEFINE u == Append(v, <<msg>>)
    <3>2. /\ G!OrderedUpTo(u, Len(hist) + 1) /\ FromStream(u, Append(hist, msg))
          /\ SingleGopMaxFrameNum = 0 => CompleteUpTo(u, Append(hist, msg))
      BY <2>1, <2>2, <2>8, <3>1, AppendGops
    <3>3. Cache!CachedGops' = u
      BY <2>8 DEF v
    <3>. HIDE DEF u
    <3>. QED BY <2>1, <2>2, <2>4, <3>2, <3>3 DEF GopsInv
  <2>9. CASE /\ IsFrame(msg) /\ ~IsVideoKeyNalu(msg) /\ w # << >>
             /\ Cache!CachedGops' = [w EXCEPT ![Len(w)] = Append(@, msg)]
    <3>. DEFINE v == [w EXCEPT ![Len(w)] = Append(@, msg)]
    <3>1. /\ G!OrderedUpTo(v, Len(hist) + 1) /\ FromStream(v, Append(hist, msg))
          /\ CompleteUpTo(w, hist) => CompleteUpTo(v, Append(hist, msg))
      BY <2>1, <2>2, <2>3, <2>5, <2>9, ExtendGops
    <3>. HIDE DEF v
    <3>2. Cache!CachedGops' = v
      BY <2>9 DEF v
    <3>. QED BY <2>1, <2>2, <2>4, <2>5, <3>1, <3>2 DEF GopsInv
  <2>10. w = Cache!CachedGops
    BY DEF w
  <2>. QED BY <2>1, <2>6, <2>7, <2>8, <2>9, <2>10, FeedGops
<1>. QED BY <1>1, <1>2, <1>3 DEF Next, Publisher, OnMsg, OnStop, EndOnStop, Deliver,
       StopConsumer, GetHookSession, AddConsumer, RemoveConsumer, vars

-----------------------------------------------------------------------------
(***************************************************************************)
(* The headers the cache keeps are the last ones of the stream.            *)
(***************************************************************************)

LastOf(header, h, kinds) ==
  IF header = NoMsg THEN \A p \in DOMAIN h : h[p].kind \notin kinds
  ELSE /\ header.seq \in DOMAIN h /\ h[header.seq] = header /\ header.kind \in kinds
       /\ \A p \in DOMAIN h : h[p].kind \in kinds => p <= header.seq

HeaderInv ==
  /\ LastOf(videoheader, hist, {"videoHeader"})
  /\ LastOf(audioheader, hist, {"aacHeader", "rawAudio"})

LEMMA LastOfAppend ==
  ASSUME NEW h \in Seq(Message), NEW m \in Message, m.seq = Len(h) + 1,
         NEW kinds, NEW header, LastOf(header, h, kinds)
  PROVE  LastOf(IF m.kind \in kinds THEN m ELSE header, Append(h, m), kinds)
<1>1. /\ Len(h) + 1 \in DOMAIN Append(h, m) /\ Append(h, m)[Len(h) + 1] = m
      /\ \A p \in DOMAIN h : /\ p \in DOMAIN Append(h, m) /\ Append(h, m)[p] = h[p]
                             /\ p \in Nat /\ p <= Len(h)
      /\ \A p \in DOMAIN Append(h, m) : p \in DOMAIN h \/ p = Len(h) + 1
      /\ Len(h) \in Nat
  BY StreamAppend
<1>2. m # NoMsg
  BY DEF NoMsg, Message, MsgKinds, AudioKinds, VideoKinds
<1>3. CASE m.kind \in kinds
  <2>1. \A p \in DOMAIN Append(h, m) : p <= Len(h) + 1
    BY <1>1
  <2>. QED BY <1>1, <1>2, <1>3, <2>1 DEF LastOf
<1>4. CASE m.kind \notin kinds
  <2>1. CASE header = NoMsg
    BY <1>1, <1>4, <2>1 DEF LastOf
  <2>2. CASE header # NoMsg
    BY <1>1, <1>4, <2>2 DEF LastOf
  <2>. QED BY <2>1, <2>2
<1>. QED BY <1>3, <1>4

LEMMA HeaderStep ==
  ASSUME TypeOK, WalkInv, StreamInv, HeaderInv, [Next]_vars
  PROVE  HeaderInv'
<1>1. CASE UNCHANGED cacheVars
  BY <1>1 DEF cacheVars, HeaderInv
<1>2. CASE NewHookSession
  BY <1>2 DEF NewHookSession, Cache!Renew, Cache!NoMsg, NoMsg, HeaderInv, LastOf
<1>3. CASE EndOnMsg
  <2>1. /\ msg \in Message /\ msg.seq = Len(hist) + 1 /\ hist \in Seq(Message)
        /\ hist' = Append(hist, msg)
        /\ videoheader' = IF msg.kind \in {"videoHeader"} THEN msg ELSE videoheader
        /\ audioheader' = IF msg.kind \in {"aacHeader", "rawAudio"} THEN msg
                          ELSE audioheader
    BY <1>3, SameCache DEF EndOnMsg, WalkInv, StreamInv, Cache!Feed, Cache!FeedHeader,
         TypeOK, G!TypeOK
  <2>. QED BY <2>1, LastOfAppend DEF HeaderInv
<1>. QED BY <1>1, <1>2, <1>3 DEF Next, Publisher, OnMsg, OnStop, EndOnStop, Deliver,
       StopConsumer, GetHookSession, AddConsumer, RemoveConsumer, vars

\* Everything about the stream and the cache at once.
BaseInv == TypeOK /\ WalkInv /\ StreamInv /\ GopsInv /\ HeaderInv

LEMMA BaseInit == Init => BaseInv
<1>. SUFFICES ASSUME Init PROVE BaseInv
  OBVIOUS
<1>1. TypeOK /\ WalkInv
  BY WalkInit
<1>2. hist = << >> /\ fed = 0 /\ hasVideo = FALSE /\ Cache!CachedGops = << >>
  BY NewCache DEF Init, Cache!Init
<1>3. StreamInv /\ GopsInv
  BY <1>2, NoGops DEF StreamInv, GopsInv
<1>4. HeaderInv
  BY <1>2 DEF Init, Cache!Init, Cache!NoMsg, NoMsg, HeaderInv, LastOf
<1>. QED BY <1>1, <1>3, <1>4 DEF BaseInv

LEMMA BaseStep == BaseInv /\ [Next]_vars => BaseInv'
BY WalkStep, StreamStep, HeaderStep DEF BaseInv

-----------------------------------------------------------------------------
(***************************************************************************)
(* What a consumer has been given: s, of the messages h.                   *)
(***************************************************************************)

Sent(e) == e.via # "header"

\* Every entry is a message of the stream.
Drawn(s, h) ==
  \A i \in DOMAIN s : s[i].seq \in DOMAIN h /\ s[i].kind = h[s[i].seq].kind

\* Nothing is sent twice and nothing late.
Rising(s) ==
  \A i, j \in DOMAIN s : i < j /\ Sent(s[i]) /\ Sent(s[j]) => s[i].seq < s[j].seq

\* No picture yet, and nothing sent from the first key frame of the stream on.
Early(s, h) ==
  \A i \in DOMAIN s :
    /\ ~IsPicture(s[i])
    /\ Sent(s[i]) => \A p \in DOMAIN h : IsVideoKeyNalu(h[p]) => s[i].seq < p

\* Entry f is the first picture, and it is a key frame.
OpensAt(s, f) ==
  /\ f \in DOMAIN s /\ s[f].kind = "key"
  /\ \A j \in DOMAIN s : IsPicture(s[j]) => f <= j

\* Every frame of the stream from that one on has been sent.
Whole(s, h, f) ==
  \A p \in DOMAIN h : IsFrame(h[p]) /\ p >= s[f].seq =>
    \E j \in DOMAIN s : Sent(s[j]) /\ s[j].seq = p

LEMMA EntryAppend ==
  ASSUME NEW s \in Seq(EntryType), NEW e \in EntryType
  PROVE  /\ Append(s, e) \in Seq(EntryType)
         /\ Len(Append(s, e)) = Len(s) + 1 /\ Len(s) \in Nat
         /\ DOMAIN s \subseteq Nat
         /\ \A i \in DOMAIN s : i <= Len(s)
         /\ \A i \in DOMAIN s : i \in DOMAIN Append(s, e) /\ Append(s, e)[i] = s[i]
         /\ Len(s) + 1 \in DOMAIN Append(s, e) /\ Append(s, e)[Len(s) + 1] = e
         /\ \A i \in DOMAIN Append(s, e) : i \in DOMAIN s \/ i = Len(s) + 1
OBVIOUS

\* The stream goes on and nothing is sent.
LEMMA SendNothing ==
  ASSUME NEW s \in Seq(EntryType), NEW h \in Seq(Message), NEW m \in Message,
         Drawn(s, h)
  PROVE  /\ Drawn(s, Append(h, m))
         /\ Early(s, h) => Early(s, Append(h, m))
         /\ \A f : Whole(s, h, f) /\ ~IsFrame(m) => Whole(s, Append(h, m), f)
<1>. DEFINE k == Append(h, m)
<1>1. /\ Len(h) + 1 \in DOMAIN k /\ k[Len(h) + 1] = m
      /\ \A p \in DOMAIN h : p \in DOMAIN k /\ k[p] = h[p] /\ p \in Nat /\ p <= Len(h)
      /\ \A p \in DOMAIN k : p \in DOMAIN h \/ p = Len(h) + 1
      /\ Len(h) \in Nat
  BY StreamAppend
<1>. HIDE DEF k
<1>2. Drawn(s, k)
  BY <1>1 DEF Drawn
<1>3. Early(s, h) => Early(s, k)
  <2>. SUFFICES ASSUME Early(s, h), NEW i \in DOMAIN s, Sent(s[i]),
                       NEW p \in DOMAIN k, IsVideoKeyNalu(k[p])
                PROVE  s[i].seq < p
    BY DEF Early
  <2>1. s[i].seq \in Nat /\ s[i].seq <= Len(h)
    BY <1>1 DEF Drawn
  <2>. QED BY <1>1, <2>1 DEF Early
<1>4. \A f : Whole(s, h, f) /\ ~IsFrame(m) => Whole(s, k, f)
  BY <1>1 DEF Whole
<1>. QED BY <1>2, <1>3, <1>4 DEF k

\* A message is sent live.
LEMMA SendLive ==
  ASSUME NEW s \in Seq(EntryType), NEW h \in Seq(Message), NEW m \in Message,
         NEW e \in EntryType, e = Entry(m, "live"), m.seq = Len(h) + 1,
         Drawn(s, h), Rising(s)
  PROVE  /\ Drawn(Append(s, e), Append(h, m))
         /\ Rising(Append(s, e))
         /\ \A f : OpensAt(s, f) =>
              /\ OpensAt(Append(s, e), f)
              /\ Whole(s, h, f) => Whole(Append(s, e), Append(h, m), f)
         /\ Early(s, h) =>
              /\ IsVideoKeyNalu(m) =>
                   /\ OpensAt(Append(s, e), Len(s) + 1)
                   /\ Whole(Append(s, e), Append(h, m), Len(s) + 1)
              /\ ~IsPicture(e) /\ (\A p \in DOMAIN h : ~IsVideoKeyNalu(h[p])) =>
                   Early(Append(s, e), Append(h, m))
<1>. DEFINE k == Append(h, m)
            t == Append(s, e)
<1>1. /\ Len(h) + 1 \in DOMAIN k /\ k[Len(h) + 1] = m
      /\ \A p \in DOMAIN h : p \in DOMAIN k /\ k[p] = h[p] /\ p \in Nat /\ p <= Len(h)
      /\ \A p \in DOMAIN k : p \in DOMAIN h \/ p = Len(h) + 1
      /\ Len(h) \in Nat
  BY StreamAppend
<1>2. /\ Len(s) \in Nat
      /\ \A i \in DOMAIN s : i \in Nat /\ i <= Len(s) /\ i \in DOMAIN t /\ t[i] = s[i]
      /\ Len(s) + 1 \in DOMAIN t /\ t[Len(s) + 1] = e
      /\ \A i \in DOMAIN t : i \in DOMAIN s \/ i = Len(s) + 1
  BY EntryAppend
<1>3. e.seq = Len(h) + 1 /\ e.kind = m.kind /\ Sent(e)
  BY DEF Entry, Sent
<1>. HIDE DEF k, t
<1>4. \A i \in DOMAIN s : s[i].seq \in Nat /\ s[i].seq <= Len(h)
  BY <1>1 DEF Drawn
<1>5. Drawn(t, k)
  <2>. SUFFICES ASSUME NEW i \in DOMAIN t
                PROVE  t[i].seq \in DOMAIN k /\ t[i].kind = k[t[i].seq].kind
    BY DEF Drawn
  <2>1. CASE i \in DOMAIN s
    BY <1>1, <1>2, <2>1 DEF Drawn
  <2>2. CASE i = Len(s) + 1
    BY <1>1, <1>2, <1>3, <2>2
  <2>. QED BY <1>2, <2>1, <2>2
<1>6. Rising(t)
  <2>. SUFFICES ASSUME NEW i \in DOMAIN t, NEW j \in DOMAIN t, i < j,
                       Sent(t[i]), Sent(t[j])
                PROVE  t[i].seq < t[j].seq
    BY DEF Rising
  <2>1. i \in DOMAIN s
    BY <1>2
  <2>2. CASE j \in DOMAIN s
    BY <1>2, <2>1, <2>2 DEF Rising
  <2>3. CASE j = Len(s) + 1
    BY <1>2, <1>3, <1>4, <2>1, <2>3
  <2>. QED BY <1>2, <2>2, <2>3
<1>7. ASSUME NEW f, OpensAt(s, f)
      PROVE  OpensAt(t, f) /\ (Whole(s, h, f) => Whole(t, k, f))
  <2>1. f \in DOMAIN s /\ t[f] = s[f]
    BY <1>2, <1>7 DEF OpensAt
  <2>2. OpensAt(t, f)
    BY <1>2, <1>7, <2>1 DEF OpensAt
  <2>3. ASSUME Whole(s, h, f), NEW p \in DOMAIN k, IsFrame(k[p]), p >= t[f].seq
        PROVE  \E j \in DOMAIN t : Sent(t[j]) /\ t[j].seq = p
    <3>1. CASE p \in DOMAIN h
      BY <1>1, <1>2, <2>1, <2>3, <3>1 DEF Whole
    <3>2. CASE p = Len(h) + 1
      BY <1>2, <1>3, <3>2
    <3>. QED BY <1>1, <3>1, <3>2
  <2>. QED BY <2>2, <2>3 DEF Whole
<1>8. ASSUME Early(s, h), IsVideoKeyNalu(m)
      PROVE  OpensAt(t, Len(s) + 1) /\ Whole(t, k, Len(s) + 1)
  <2>1. OpensAt(t, Len(s) + 1)
    BY <1>2, <1>3, <1>8 DEF OpensAt, Early, IsVideoKeyNalu
  <2>2. Whole(t, k, Len(s) + 1)
    BY <1>1, <1>2, <1>3 DEF Whole
  <2>. QED BY <2>1, <2>2
<1>9. ASSUME Early(s, h), ~IsPicture(e), \A p \in DOMAIN h : ~IsVideoKeyNalu(h[p])
      PROVE  Early(t, k)
  <2>1. ~IsVideoKeyNalu(m)
    BY <1>3, <1>9 DEF IsPicture, IsVideoKeyNalu
  <2>2. \A p \in DOMAIN k : ~IsVideoKeyNalu(k[p])
    BY <1>1, <1>9, <2>1
  <2>. QED BY <1>2, <1>9, <2>2 DEF Early
<1>. QED BY <1>5, <1>6, <1>7, <1>8, <1>9 DEF k, t

\* Headers are sent: entries that are no pictures, of messages of the stream.
LEMMA SendHeaders ==
  ASSUME NEW s \in Seq(EntryType), NEW h \in Seq(Message), NEW x \in Seq(EntryType),
         Drawn(s, h), Rising(s), Drawn(x, h),
         \A i \in DOMAIN x : ~IsPicture(x[i]) /\ ~Sent(x[i])
  PROVE  /\ s \o x \in Seq(EntryType)
         /\ Drawn(s \o x, h) /\ Rising(s \o x)
         /\ Early(s, h) => Early(s \o x, h)
<1>. DEFINE t == s \o x
<1>1. /\ t \in Seq(EntryType)
      /\ \A i \in DOMAIN s : i \in DOMAIN t /\ t[i] = s[i]
      /\ \A j \in DOMAIN x : Len(s) + j \in DOMAIN t /\ t[Len(s) + j] = x[j]
      /\ \A k \in DOMAIN t : k \in DOMAIN s \/ \E j \in DOMAIN x : k = Len(s) + j
  BY Joined
<1>. HIDE DEF t
<1>2. Drawn(t, h)
  BY <1>1 DEF Drawn
<1>3. \A i \in DOMAIN t : Sent(t[i]) => i \in DOMAIN s /\ t[i] = s[i]
  BY <1>1
<1>4. Rising(t)
  BY <1>3 DEF Rising
<1>5. Early(s, h) => Early(t, h)
  BY <1>1, <1>3 DEF Early
<1>. QED BY <1>1, <1>2, <1>4, <1>5 DEF t

\* The cached GOPs, flattened, are in stream order and start with a key frame.
LEMMA FlatOrdered ==
  ASSUME NEW w \in Seq(Seq(Message)), w # << >>, NEW n \in Nat, G!OrderedUpTo(w, n),
         NEW x, x = Concatenation(w)
  PROVE  /\ x \in Seq(Message)
         /\ 1 \in DOMAIN x /\ x[1] = w[1][1] /\ IsVideoKeyNalu(x[1])
         /\ \A i, j \in DOMAIN x : i < j => x[i].seq < x[j].seq
<1>1. x \in Seq(Message) /\ FlatIn(x, w, DOMAIN w)
  BY FlattenFacts
<1>2. 1 \in DOMAIN w
  OBVIOUS
<1>3. w[1] # << >> /\ w[1] \in Seq(Message)
  BY <1>2 DEF G!OrderedUpTo, G!Replayable
<1>4. 1 \in DOMAIN w[1] /\ G!IsVideoKeyNalu(w[1][1])
  <2>1. 1 \in DOMAIN w[1]
    BY <1>3
  <2>. QED BY <1>2, <2>1 DEF G!OrderedUpTo, G!Replayable
<1>5. x # << >> /\ x[1] = w[1][1]
  BY <1>1, <1>3 DEF FlatIn
<1>6. 1 \in DOMAIN x
  BY <1>1, <1>5
<1>7. ASSUME NEW i \in DOMAIN x, NEW j \in DOMAIN x, i < j
      PROVE  x[i].seq < x[j].seq
  <2>1. \A a, b \in DOMAIN x : a < b =>
          \E g, h \in DOMAIN w : \E k \in DOMAIN w[g], l \in DOMAIN w[h] :
            x[a] = w[g][k] /\ x[b] = w[h][l] /\ (g < h \/ (g = h /\ k < l))
    BY <1>1, Zenon DEF FlatIn
  <2>2. PICK g \in DOMAIN w, h \in DOMAIN w :
          \E k \in DOMAIN w[g], l \in DOMAIN w[h] :
            x[i] = w[g][k] /\ x[j] = w[h][l] /\ (g < h \/ (g = h /\ k < l))
    <3>1. i < j
      BY <1>7
    <3>2. \E g, h \in DOMAIN w : \E k \in DOMAIN w[g], l \in DOMAIN w[h] :
            x[i] = w[g][k] /\ x[j] = w[h][l] /\ (g < h \/ (g = h /\ k < l))
      BY ONLY <2>1, <3>1, i \in DOMAIN x, j \in DOMAIN x
    <3>. QED BY <3>2, Zenon
  <2>3. PICK k \in DOMAIN w[g], l \in DOMAIN w[h] :
          x[i] = w[g][k] /\ x[j] = w[h][l] /\ (g < h \/ (g = h /\ k < l))
    BY <2>2
  <2>4. CASE g < h
    <3>1. w[g][k].seq < w[h][l].seq
      BY <2>3, <2>4 DEF G!OrderedUpTo, G!Replayable
    <3>. QED BY <2>3, <3>1
  <2>5. CASE g = h /\ k < l
    <3>1. w[g][k].seq < w[g][l].seq
      BY <2>3, <2>5 DEF G!OrderedUpTo, G!Replayable
    <3>. QED BY <2>3, <2>5, <3>1
  <2>. QED BY <2>3, <2>4, <2>5
<1>. QED BY <1>1, <1>4, <1>5, <1>6, <1>7, SameFeed

\* The cached GOPs are sent.
LEMMA SendCached ==
  ASSUME NEW s \in Seq(EntryType), NEW h \in Seq(Message),
         Drawn(s, h), Rising(s), Early(s, h), IsStream(h),
         NEW w \in Seq(Seq(Message)), w # << >>, G!OrderedUpTo(w, Len(h)), FromStream(w, h),
         NEW x, x = Entries(Concatenation(w), "cache")
  PROVE  /\ x \in Seq(EntryType) /\ s \o x \in Seq(EntryType)
         /\ \A j \in DOMAIN x : /\ IsFrame(x[j]) /\ x[j].via = "cache"
                               /\ x[j].seq \in DOMAIN h
         /\ Drawn(s \o x, h) /\ Rising(s \o x)
         /\ OpensAt(s \o x, Len(s) + 1)
         /\ CompleteUpTo(w, h) => Whole(s \o x, h, Len(s) + 1)
<1>. DEFINE y == Concatenation(w)
            t == s \o x
<1>1. /\ y \in Seq(Message)
      /\ 1 \in DOMAIN y /\ y[1] = w[1][1] /\ IsVideoKeyNalu(y[1])
      /\ \A i, j \in DOMAIN y : i < j => y[i].seq < y[j].seq
  <2>1. Len(h) \in Nat
    OBVIOUS
  <2>. QED BY <2>1, FlatOrdered
<1>2. /\ \A i \in DOMAIN y : IsFrame(y[i]) /\ y[i].seq \in DOMAIN h /\ h[y[i].seq] = y[i]
      /\ CompleteUpTo(w, h) => \A p \in DOMAIN h :
           IsFrame(h[p]) /\ p >= y[1].seq => \E i \in DOMAIN y : y[i] = h[p]
  <2>1. FlatIn(y, w, DOMAIN w)
    BY FlattenFacts
  <2>. HIDE DEF y
  <2>2. \A i \in DOMAIN y : IsFrame(y[i]) /\ y[i].seq \in DOMAIN h /\ h[y[i].seq] = y[i]
    <3>. SUFFICES ASSUME NEW i \in DOMAIN y
                  PROVE  IsFrame(y[i]) /\ y[i].seq \in DOMAIN h /\ h[y[i].seq] = y[i]
      OBVIOUS
    <3>1. \E g \in DOMAIN w : \E k \in DOMAIN w[g] : y[i] = w[g][k]
      BY <2>1 DEF FlatIn
    <3>. QED BY <3>1, Zenon DEF FromStream
  <2>3. ASSUME CompleteUpTo(w, h), NEW p \in DOMAIN h, IsFrame(h[p]), p >= y[1].seq
        PROVE  \E i \in DOMAIN y : y[i] = h[p]
    <3>1. PICK g \in DOMAIN w : \E i \in DOMAIN w[g] : w[g][i] = h[p]
      BY <1>1, <2>3 DEF CompleteUpTo
    <3>. QED BY <2>1, <3>1 DEF FlatIn
  <2>. QED BY <2>2, <2>3
<1>. HIDE DEF y
<1>3. /\ x \in Seq(EntryType) /\ DOMAIN x = DOMAIN y
      /\ \A i \in DOMAIN x : /\ x[i].seq = y[i].seq /\ x[i].kind = y[i].kind
                             /\ Sent(x[i]) /\ i \in Nat /\ i >= 1
                             /\ x[i].via = "cache"
  <2>1. x = Entries(y, "cache")
    BY DEF y
  <2>2. x \in Seq(EntryType) /\ DOMAIN x = DOMAIN y
    BY <1>1, <2>1, EntriesType
  <2>3. \A i \in DOMAIN y : i \in Nat /\ i >= 1
    BY <1>1
  <2>. QED BY <2>1, <2>2, <2>3 DEF Entries, Entry, Sent
<1>4. /\ t \in Seq(EntryType) /\ Len(s) \in Nat
      /\ \A i \in DOMAIN s : i \in DOMAIN t /\ t[i] = s[i] /\ i \in Nat /\ i <= Len(s)
      /\ \A j \in DOMAIN x : Len(s) + j \in DOMAIN t /\ t[Len(s) + j] = x[j]
      /\ \A k \in DOMAIN t : k \in DOMAIN s \/ \E j \in DOMAIN x : k = Len(s) + j
  <2>1. /\ t \in Seq(EntryType)
        /\ \A i \in DOMAIN s : i \in DOMAIN t /\ t[i] = s[i]
        /\ \A j \in DOMAIN x : Len(s) + j \in DOMAIN t /\ t[Len(s) + j] = x[j]
        /\ \A k \in DOMAIN t : k \in DOMAIN s \/ \E j \in DOMAIN x : k = Len(s) + j
    <3>1. x \in Seq(EntryType)
      BY <1>3
    <3>. QED BY ONLY s \in Seq(EntryType), <3>1, Joined
  <2>2. Len(s) \in Nat /\ \A i \in DOMAIN s : i \in Nat /\ i <= Len(s)
    OBVIOUS
  <2>. QED BY <2>1, <2>2
<1>. HIDE DEF t
<1>5. Drawn(t, h)
  <2>. SUFFICES ASSUME NEW i \in DOMAIN t
                PROVE  t[i].seq \in DOMAIN h /\ t[i].kind = h[t[i].seq].kind
    BY DEF Drawn
  <2>1. CASE i \in DOMAIN s
    BY <1>4, <2>1 DEF Drawn
  <2>2. ASSUME NEW j \in DOMAIN x, i = Len(s) + j
        PROVE  t[i].seq \in DOMAIN h /\ t[i].kind = h[t[i].seq].kind
    <3>1. t[i] = x[j] /\ x[j].seq = y[j].seq /\ x[j].kind = y[j].kind
      BY <1>3, <1>4, <2>2
    <3>2. y[j].seq \in DOMAIN h /\ h[y[j].seq] = y[j]
      BY <1>2, <1>3
    <3>. QED BY <3>1, <3>2
  <2>. QED BY <1>4, <2>1, <2>2
<1>6. \A i \in DOMAIN s, j \in DOMAIN x : Sent(s[i]) => s[i].seq < x[j].seq
  <2>. SUFFICES ASSUME NEW i \in DOMAIN s, NEW j \in DOMAIN x, Sent(s[i])
                PROVE  s[i].seq < x[j].seq
    OBVIOUS
  <2>1. /\ y[1].seq \in DOMAIN h /\ IsVideoKeyNalu(h[y[1].seq])
        /\ y[j].seq \in DOMAIN h /\ s[i].seq \in DOMAIN h
    BY <1>1, <1>2, <1>3 DEF Drawn
  <2>2. s[i].seq < y[1].seq
    BY <2>1 DEF Early
  <2>3. y[1].seq <= y[j].seq
    <3>1. y[1].seq \in Nat /\ y[j].seq \in Nat
      BY <2>1
    <3>2. j = 1 \/ 1 < j
      BY <1>3
    <3>3. 1 < j => y[1].seq < y[j].seq
      BY <1>1, <1>3
    <3>. QED BY <3>1, <3>2, <3>3
  <2>. QED BY <1>3, <2>1, <2>2, <2>3
<1>7. Rising(t)
  <2>. SUFFICES ASSUME NEW i \in DOMAIN t, NEW j \in DOMAIN t, i < j,
                       Sent(t[i]), Sent(t[j])
                PROVE  t[i].seq < t[j].seq
    BY DEF Rising
  <2>1. CASE i \in DOMAIN s /\ j \in DOMAIN s
    BY <1>4, <2>1 DEF Rising
  <2>2. ASSUME i \in DOMAIN s, NEW b \in DOMAIN x, j = Len(s) + b
        PROVE  t[i].seq < t[j].seq
    BY <1>4, <1>6, <2>2
  <2>3. ASSUME NEW a \in DOMAIN x, i = Len(s) + a, NEW b \in DOMAIN x, j = Len(s) + b
        PROVE  t[i].seq < t[j].seq
    <3>1. a < b
      BY <1>3, <1>4, <2>3
    <3>2. y[a].seq < y[b].seq
      BY <1>1, <1>3, <3>1
    <3>3. t[i] = x[a] /\ t[j] = x[b]
      BY <1>4, <2>3
    <3>. QED BY <1>3, <3>2, <3>3
  <2>4. ASSUME NEW a \in DOMAIN x, i = Len(s) + a
        PROVE  j \notin DOMAIN s
    BY <1>3, <1>4, <2>4
  <2>. QED BY <1>4, <2>1, <2>2, <2>3, <2>4
<1>8. OpensAt(t, Len(s) + 1)
  <2>1. Len(s) + 1 \in DOMAIN t /\ t[Len(s) + 1] = x[1] /\ x[1].kind = "key"
    BY <1>1, <1>3, <1>4 DEF IsVideoKeyNalu
  <2>2. ASSUME NEW i \in DOMAIN t, IsPicture(t[i])
        PROVE  Len(s) + 1 <= i
    <3>1. i \notin DOMAIN s
      BY <1>4, <2>2 DEF Early
    <3>. QED BY <1>3, <1>4, <3>1
  <2>. QED BY <2>1, <2>2 DEF OpensAt
<1>9. ASSUME CompleteUpTo(w, h), NEW p \in DOMAIN h, IsFrame(h[p]), p >= t[Len(s) + 1].seq
      PROVE  \E j \in DOMAIN t : Sent(t[j]) /\ t[j].seq = p
  <2>1. t[Len(s) + 1].seq = y[1].seq
    <3>1. 1 \in DOMAIN x /\ x[1].seq = y[1].seq
      BY <1>1, <1>3
    <3>. QED BY ONLY <1>4, <3>1
  <2>2. PICK i \in DOMAIN y : y[i] = h[p]
    BY <1>2, <1>9, <2>1
  <2>3. x[i].seq = p
    <3>1. y[i].seq = p
      BY ONLY <2>2, IsStream(h), p \in DOMAIN h DEF IsStream
    <3>. QED BY ONLY <1>3, <3>1, i \in DOMAIN y
  <2>. QED BY <1>3, <1>4, <2>3
<1>10. CompleteUpTo(w, h) => Whole(t, h, Len(s) + 1)
  BY <1>9 DEF Whole
<1>11. \A j \in DOMAIN x : IsFrame(x[j]) /\ x[j].via = "cache" /\ x[j].seq \in DOMAIN h
  BY <1>2, <1>3 DEF IsFrame
<1>. QED BY <1>3, <1>4, <1>5, <1>7, <1>8, <1>10, <1>11 DEF t

-----------------------------------------------------------------------------
(***************************************************************************)
(* The headers in force.                                                   *)
(***************************************************************************)

\* The number of the last entry of s of the given kind before entry i, 0 when
\* there is none: what the properties call Announced and InForce.
Latest(s, kind, i) ==
  LET before == {p \in DOMAIN s : p < i /\ s[p].kind = kind}
  IN  IF before = {} THEN 0 ELSE s[CHOOSE p \in before : \A q \in before : q <= p].seq

\* The cache keeps one audio message, the last AAC header or raw frame: of a
\* stream that mixes the two it may not have the AAC header any more.
OneAudioCodec == ~({"aacHeader", "rawAudio"} \subseteq Kinds)

HeaderKinds ==
  {k \in {"videoHeader", "aacHeader"} : k = "aacHeader" => OneAudioCodec}

\* From the first picture on, the headers are those HeadersInForce asks for.
Headed(s, h) ==
  \A i \in DOMAIN s :
    /\ \E j \in DOMAIN s : j <= i /\ IsPicture(s[j])
    /\ s[i].kind \in {"key", "inter", "aac"}
    /\ HeaderKind(s[i]) \in HeaderKinds
    => IF s[i].via = "live"
       THEN Latest(s, HeaderKind(s[i]), i) = Latest(h, HeaderKind(s[i]), s[i].seq)
       ELSE Latest(s, HeaderKind(s[i]), i) >= Latest(h, HeaderKind(s[i]), s[i].seq)

\* The last headers given are the last ones of the stream.
UpToDate(s, h) ==
  \A k \in HeaderKinds : Latest(s, k, Len(s) + 1) = Latest(h, k, Len(h) + 1)

LEMMA LatestCases ==
  ASSUME NEW S, NEW s \in Seq(S), NEW kind, NEW i \in Nat
  PROVE  \/ /\ \A p \in DOMAIN s : p < i => s[p].kind # kind
            /\ Latest(s, kind, i) = 0
         \/ \E p \in DOMAIN s :
              /\ p < i /\ s[p].kind = kind
              /\ \A q \in DOMAIN s : q < i /\ s[q].kind = kind => q <= p
              /\ Latest(s, kind, i) = s[p].seq
<1>. DEFINE before == {p \in DOMAIN s : p < i /\ s[p].kind = kind}
            top    == CHOOSE p \in before : \A q \in before : q <= p
<1>1. Latest(s, kind, i) = IF before = {} THEN 0 ELSE s[top].seq
  BY DEF Latest
<1>2. CASE before = {}
  BY <1>1, <1>2
<1>3. CASE before # {}
  <2>1. before \in SUBSET (0 .. i)
    OBVIOUS
  <2>2. \E p \in before : \A q \in before : q <= p
    <3>. HIDE DEF before
    <3>. QED BY <1>3, <2>1, MaxExists
  <2>3. top \in before /\ \A q \in before : q <= top
    <3>. HIDE DEF before
    <3>. QED BY <2>2
  <2>. HIDE DEF top
  <2>. QED BY <1>1, <1>3, <2>3
<1>. QED BY <1>2, <1>3

LEMMA LatestNone ==
  ASSUME NEW S, NEW s \in Seq(S), NEW kind, NEW i \in Nat,
         \A p \in DOMAIN s : p < i => s[p].kind # kind
  PROVE  Latest(s, kind, i) = 0
BY LatestCases

LEMMA LatestIs ==
  ASSUME NEW S, NEW s \in Seq(S), NEW kind, NEW i \in Nat,
         NEW p \in DOMAIN s, p < i, s[p].kind = kind,
         \A q \in DOMAIN s : q < i /\ s[q].kind = kind => q <= p
  PROVE  Latest(s, kind, i) = s[p].seq
<1>1. PICK q \in DOMAIN s :
        /\ q < i /\ s[q].kind = kind
        /\ \A r \in DOMAIN s : r < i /\ s[r].kind = kind => r <= q
        /\ Latest(s, kind, i) = s[q].seq
  BY LatestCases
<1>2. p <= q /\ q <= p /\ p \in Nat /\ q \in Nat
  BY <1>1
<1>. QED BY <1>1, <1>2

\* Only what comes before entry i matters.
LEMMA LatestSame ==
  ASSUME NEW S, NEW s \in Seq(S), NEW t \in Seq(S), NEW kind, NEW i \in Nat, NEW j \in Nat,
         \A p \in DOMAIN s : p < i => p \in DOMAIN t /\ p < j /\ t[p] = s[p],
         \A p \in DOMAIN t : p < j /\ t[p].kind = kind => p \in DOMAIN s /\ p < i
  PROVE  Latest(t, kind, j) = Latest(s, kind, i)
<1>1. CASE \A p \in DOMAIN s : p < i => s[p].kind # kind
  <2>1. \A p \in DOMAIN t : p < j => t[p].kind # kind
    BY <1>1
  <2>. QED BY <1>1, <2>1, LatestNone
<1>2. ASSUME NEW p \in DOMAIN s, p < i, s[p].kind = kind,
             \A q \in DOMAIN s : q < i /\ s[q].kind = kind => q <= p,
             Latest(s, kind, i) = s[p].seq
      PROVE  Latest(t, kind, j) = Latest(s, kind, i)
  <2>1. /\ p \in DOMAIN t /\ p < j /\ t[p].kind = kind /\ t[p].seq = s[p].seq
        /\ \A q \in DOMAIN t : q < j /\ t[q].kind = kind => q <= p
    BY <1>2
  <2>. QED BY <1>2, <2>1, LatestIs
<1>. QED BY <1>1, <1>2, LatestCases

LEMMA LatestAppend ==
  ASSUME NEW S, NEW s \in Seq(S), NEW e \in S, NEW kind, NEW n \in Nat, n <= Len(s) + 1
  PROVE  Latest(Append(s, e), kind, n) = Latest(s, kind, n)
<1>. DEFINE t == Append(s, e)
<1>1. /\ t \in Seq(S) /\ Len(s) \in Nat
      /\ \A p \in DOMAIN s : p \in DOMAIN t /\ t[p] = s[p]
      /\ \A p \in DOMAIN t : p \in DOMAIN s \/ p = Len(s) + 1
  OBVIOUS
<1>. HIDE DEF t
<1>2. \A p \in DOMAIN s : p < n => p \in DOMAIN t /\ p < n /\ t[p] = s[p]
  BY <1>1
<1>3. \A p \in DOMAIN t : p < n /\ t[p].kind = kind => p \in DOMAIN s /\ p < n
  BY <1>1
<1>4. Latest(t, kind, n) = Latest(s, kind, n)
  BY <1>1, <1>2, <1>3, LatestSame
<1>. QED BY <1>4 DEF t

\* The same for the whole of s.
LEMMA LatestOfAll ==
  ASSUME NEW S, NEW s \in Seq(S), NEW t \in Seq(S), NEW kind, NEW j \in Nat,
         \A p \in DOMAIN s : p \in DOMAIN t /\ p < j /\ t[p] = s[p],
         \A p \in DOMAIN t : p < j /\ t[p].kind = kind => p \in DOMAIN s
  PROVE  Latest(t, kind, j) = Latest(s, kind, Len(s) + 1)
<1>. DEFINE i == Len(s) + 1
<1>1. i \in Nat /\ \A p \in DOMAIN s : p < i
  OBVIOUS
<1>. HIDE DEF i
<1>2. \A p \in DOMAIN s : p < i => p \in DOMAIN t /\ p < j /\ t[p] = s[p]
  BY <1>1
<1>3. \A p \in DOMAIN t : p < j /\ t[p].kind = kind => p \in DOMAIN s /\ p < i
  BY <1>1
<1>4. Latest(t, kind, j) = Latest(s, kind, i)
  BY <1>1, <1>2, <1>3, LatestSame
<1>. QED BY <1>4 DEF i

LEMMA LatestOfMore ==
  ASSUME NEW S, NEW s \in Seq(S), NEW t \in Seq(S), NEW kind,
         \A p \in DOMAIN s : p \in DOMAIN t /\ t[p] = s[p],
         \A p \in DOMAIN t : t[p].kind = kind => p \in DOMAIN s
  PROVE  Latest(t, kind, Len(t) + 1) = Latest(s, kind, Len(s) + 1)
<1>. DEFINE j == Len(t) + 1
<1>1. j \in Nat /\ \A p \in DOMAIN t : p < j
  OBVIOUS
<1>. HIDE DEF j
<1>2. Latest(t, kind, j) = Latest(s, kind, Len(s) + 1)
  BY <1>1, LatestOfAll
<1>. QED BY <1>2 DEF j

\* Entry p is the last of its kind.
LastOfKind(s, kind, p) ==
  /\ s[p].kind = kind
  /\ \A q \in DOMAIN s : s[q].kind = kind => q <= p
  /\ Latest(s, kind, Len(s) + 1) = s[p].seq

\* The last entry of a kind in all of s.
LEMMA LatestIn ==
  ASSUME NEW s \in Seq(EntryType), NEW kind, NEW i \in DOMAIN s, s[i].kind = kind
  PROVE  \E p \in DOMAIN s : LastOfKind(s, kind, p)
<1>. DEFINE n == Len(s) + 1
<1>1. n \in Nat /\ \A p \in DOMAIN s : p < n
  OBVIOUS
<1>. HIDE DEF n
<1>2. \E p \in DOMAIN s :
           /\ s[p].kind = kind
           /\ \A q \in DOMAIN s : s[q].kind = kind => q <= p
           /\ Latest(s, kind, n) = s[p].seq
  BY <1>1, LatestCases
<1>. QED BY <1>2 DEF n, LastOfKind

\* In a stream the last header only moves on.
LEMMA LatestGrows ==
  ASSUME NEW h \in Seq(Message), IsStream(h), NEW kind, NEW i \in Nat, NEW j \in Nat, i <= j
  PROVE  /\ Latest(h, kind, i) \in Nat /\ Latest(h, kind, j) \in Nat
         /\ Latest(h, kind, i) <= Latest(h, kind, j)
<1>1. \A n \in Nat : Latest(h, kind, n) \in Nat
  <2>1. \A p \in DOMAIN h : h[p].seq \in Nat
    <3>1. \A p \in DOMAIN h : h[p] \in Message
      OBVIOUS
    <3>. QED BY <3>1 DEF Message
  <2>. QED BY <2>1, LatestCases
<1>2. CASE Latest(h, kind, i) = 0
  BY <1>1, <1>2
<1>3. ASSUME NEW p \in DOMAIN h, p < i, h[p].kind = kind, Latest(h, kind, i) = h[p].seq
      PROVE  Latest(h, kind, i) <= Latest(h, kind, j)
  <2>1. p < j /\ h[p].seq = p
    BY <1>3 DEF IsStream
  <2>2. PICK q \in DOMAIN h : /\ \A r \in DOMAIN h : r < j /\ h[r].kind = kind => r <= q
                              /\ Latest(h, kind, j) = h[q].seq
    BY <1>3, <2>1, LatestCases
  <2>. QED BY <1>3, <2>1, <2>2 DEF IsStream
<1>4. Latest(h, kind, i) <= Latest(h, kind, j)
  BY <1>2, <1>3, LatestCases
<1>. QED BY <1>1, <1>4

\* No picture, nothing to decode.
LEMMA HeadedEarly ==
  ASSUME NEW s, NEW h, \A i \in DOMAIN s : ~IsPicture(s[i])
  PROVE  Headed(s, h)
BY DEF Headed

\* The stream goes on and nothing is sent.
LEMMA HeadNothing ==
  ASSUME NEW s \in Seq(EntryType), NEW h \in Seq(Message), NEW m \in Message,
         Drawn(s, h)
  PROVE  /\ Headed(s, h) => Headed(s, Append(h, m))
         /\ UpToDate(s, h) /\ m.kind \notin HeaderKinds => UpToDate(s, Append(h, m))
<1>. DEFINE k == Append(h, m)
<1>1. /\ k \in Seq(Message) /\ Len(k) = Len(h) + 1 /\ Len(h) \in Nat
      /\ k[Len(h) + 1] = m
      /\ \A p \in DOMAIN h : p \in DOMAIN k /\ k[p] = h[p] /\ p \in Nat /\ p <= Len(h)
      /\ \A p \in DOMAIN k : p \in DOMAIN h \/ p = Len(h) + 1
  BY StreamAppend
<1>. HIDE DEF k
<1>2. ASSUME NEW kind, NEW n \in Nat, n <= Len(h)
      PROVE  Latest(k, kind, n) = Latest(h, kind, n)
  <2>1. n <= Len(h) + 1
    BY <1>1, <1>2
  <2>. QED BY <2>1, LatestAppend DEF k
<1>3. \A i \in DOMAIN s : s[i].seq \in Nat /\ s[i].seq <= Len(h)
  BY <1>1 DEF Drawn
<1>4. Headed(s, h) => Headed(s, k)
  BY <1>2, <1>3 DEF Headed
<1>5. ASSUME UpToDate(s, h), m.kind \notin HeaderKinds, NEW kind \in HeaderKinds
      PROVE  Latest(s, kind, Len(s) + 1) = Latest(k, kind, Len(k) + 1)
  <2>1. \A p \in DOMAIN k : k[p].kind = kind => p \in DOMAIN h
    BY <1>1, <1>5
  <2>2. Latest(k, kind, Len(k) + 1) = Latest(h, kind, Len(h) + 1)
    BY <1>1, <2>1, LatestOfMore
  <2>. QED BY <1>5, <2>2 DEF UpToDate
<1>. QED BY <1>4, <1>5 DEF UpToDate, k

\* A message is sent live.
LEMMA HeadLive ==
  ASSUME NEW s \in Seq(EntryType), NEW h \in Seq(Message), NEW m \in Message,
         NEW e \in EntryType, e = Entry(m, "live"), m.seq = Len(h) + 1,
         Drawn(s, h), Headed(s, h), UpToDate(s, h)
  PROVE  Headed(Append(s, e), Append(h, m)) /\ UpToDate(Append(s, e), Append(h, m))
<1>. DEFINE k == Append(h, m)
            t == Append(s, e)
<1>1. /\ k \in Seq(Message) /\ Len(k) = Len(h) + 1 /\ Len(h) \in Nat
      /\ Len(h) + 1 \in DOMAIN k /\ k[Len(h) + 1] = m
      /\ \A p \in DOMAIN h : p \in DOMAIN k /\ k[p] = h[p] /\ p \in Nat /\ p <= Len(h)
      /\ \A p \in DOMAIN k : p \in DOMAIN h \/ p = Len(h) + 1
  BY StreamAppend
<1>2. /\ t \in Seq(EntryType) /\ Len(t) = Len(s) + 1 /\ Len(s) \in Nat
      /\ \A i \in DOMAIN s : i \in Nat /\ i <= Len(s) /\ i \in DOMAIN t /\ t[i] = s[i]
      /\ Len(s) + 1 \in DOMAIN t /\ t[Len(s) + 1] = e
      /\ \A i \in DOMAIN t : i \in DOMAIN s \/ i = Len(s) + 1
  BY EntryAppend
<1>3. e.seq = Len(h) + 1 /\ e.kind = m.kind /\ e.via = "live"
  BY DEF Entry
<1>. HIDE DEF k, t
<1>4. ASSUME NEW kind, NEW n \in Nat, n <= Len(h) + 1
      PROVE  Latest(k, kind, n) = Latest(h, kind, n)
  BY <1>4, LatestAppend DEF k
<1>5. ASSUME NEW kind, NEW n \in Nat, n <= Len(s) + 1
      PROVE  Latest(t, kind, n) = Latest(s, kind, n)
  BY <1>5, LatestAppend DEF t
<1>6. \A i \in DOMAIN s : s[i].seq \in Nat /\ s[i].seq <= Len(h)
  BY <1>1 DEF Drawn
<1>7. Headed(t, k)
  <2>. SUFFICES ASSUME NEW i \in DOMAIN t,
                       \E j \in DOMAIN t : j <= i /\ IsPicture(t[j]),
                       t[i].kind \in {"key", "inter", "aac"},
                       HeaderKind(t[i]) \in HeaderKinds
                PROVE  IF t[i].via = "live"
                       THEN Latest(t, HeaderKind(t[i]), i) = Latest(k, HeaderKind(t[i]), t[i].seq)
                       ELSE Latest(t, HeaderKind(t[i]), i) >= Latest(k, HeaderKind(t[i]), t[i].seq)
    BY DEF Headed
  <2>1. CASE i \in DOMAIN s
    <3>1. /\ t[i] = s[i] /\ i \in Nat /\ i <= Len(s) + 1
          /\ s[i].seq \in Nat /\ s[i].seq <= Len(h) + 1
      BY <1>1, <1>2, <1>6, <2>1
    <3>2. \E j \in DOMAIN s : j <= i /\ IsPicture(s[j])
      BY <1>2, <2>1
    <3>. DEFINE kind == HeaderKind(t[i])
    <3>3. /\ Latest(t, kind, i) = Latest(s, kind, i)
          /\ Latest(k, kind, t[i].seq) = Latest(h, kind, t[i].seq)
      BY <1>4, <1>5, <3>1
    <3>. QED BY <2>1, <3>1, <3>2, <3>3 DEF Headed
  <2>2. CASE i = Len(s) + 1
    <3>1. t[i] = e
      BY <1>2, <2>2
    <3>. DEFINE kind == HeaderKind(e)
    <3>2. /\ Latest(t, kind, i) = Latest(s, kind, Len(s) + 1)
          /\ Latest(k, kind, e.seq) = Latest(h, kind, Len(h) + 1)
      BY <1>1, <1>2, <1>3, <1>4, <1>5, <2>2
    <3>3. kind \in HeaderKinds
      BY <3>1
    <3>. HIDE DEF kind
    <3>4. Latest(t, kind, i) = Latest(k, kind, e.seq)
      BY <3>2, <3>3 DEF UpToDate
    <3>. QED BY <1>3, <3>1, <3>4 DEF kind
  <2>. QED BY <1>2, <2>1, <2>2
<1>8. ASSUME NEW kind \in HeaderKinds
      PROVE  Latest(t, kind, Len(t) + 1) = Latest(k, kind, Len(k) + 1)
  <2>1. Len(t) + 1 \in Nat /\ Len(k) + 1 \in Nat /\ Len(s) + 1 \in Nat /\ Len(h) + 1 \in Nat
    BY <1>1, <1>2
  <2>2. CASE m.kind = kind
    <3>1. Latest(t, kind, Len(t) + 1) = e.seq
      <4>1. /\ Len(s) + 1 < Len(t) + 1 /\ e.kind = kind
            /\ \A q \in DOMAIN t : q <= Len(s) + 1
        BY <1>2, <1>3, <2>2
      <4>. QED BY <1>2, <2>1, <4>1, LatestIs
    <3>2. Latest(k, kind, Len(k) + 1) = m.seq
      <4>1. /\ Len(h) + 1 < Len(k) + 1
            /\ \A q \in DOMAIN k : q <= Len(h) + 1
        BY <1>1
      <4>. QED BY <1>1, <2>1, <2>2, <4>1, LatestIs
    <3>. QED BY <1>3, <3>1, <3>2
  <2>3. CASE m.kind # kind
    <3>1. Latest(t, kind, Len(t) + 1) = Latest(s, kind, Len(s) + 1)
      <4>1. \A p \in DOMAIN t : t[p].kind = kind => p \in DOMAIN s
        BY <1>2, <1>3, <2>3
      <4>. QED BY ONLY <1>2, <4>1, s \in Seq(EntryType), LatestOfMore
    <3>2. Latest(k, kind, Len(k) + 1) = Latest(h, kind, Len(h) + 1)
      <4>1. \A p \in DOMAIN k : k[p].kind = kind => p \in DOMAIN h
        BY <1>1, <2>3
      <4>. QED BY ONLY <1>1, <4>1, h \in Seq(Message), LatestOfMore
    <3>. QED BY <3>1, <3>2 DEF UpToDate
  <2>. QED BY <2>2, <2>3
<1>. QED BY <1>7, <1>8 DEF UpToDate, k, t

\* The cached frames are sent: the headers sent before them are the last ones.
LEMMA HeadCached ==
  ASSUME NEW s \in Seq(EntryType), NEW h \in Seq(Message), IsStream(h),
         Early(s, h), UpToDate(s, h), NEW x \in Seq(EntryType),
         \A j \in DOMAIN x : /\ IsFrame(x[j]) /\ x[j].via = "cache"
                             /\ x[j].seq \in DOMAIN h
  PROVE  Headed(s \o x, h) /\ UpToDate(s \o x, h)
<1>. DEFINE t == s \o x
<1>1. /\ t \in Seq(EntryType) /\ Len(t) = Len(s) + Len(x)
      /\ \A i \in DOMAIN s : i \in DOMAIN t /\ t[i] = s[i]
      /\ \A j \in DOMAIN x : Len(s) + j \in DOMAIN t /\ t[Len(s) + j] = x[j]
      /\ \A k \in DOMAIN t : k \in DOMAIN s \/ \E j \in DOMAIN x : k = Len(s) + j
  BY ONLY s \in Seq(EntryType), x \in Seq(EntryType), Joined
<1>2. /\ Len(s) \in Nat /\ Len(x) \in Nat
      /\ \A i \in DOMAIN s : i \in Nat /\ i <= Len(s)
      /\ \A j \in DOMAIN x : j \in Nat /\ 1 <= j /\ j <= Len(x)
  OBVIOUS
<1>. HIDE DEF t
<1>3. ASSUME NEW kind \in HeaderKinds, NEW n \in Nat, Len(s) + 1 <= n
      PROVE  Latest(t, kind, n) = Latest(h, kind, Len(h) + 1)
  <2>1. \A p \in DOMAIN s : p \in DOMAIN t /\ p < n /\ t[p] = s[p]
    BY <1>1, <1>2, <1>3
  <2>2. \A p \in DOMAIN t : p < n /\ t[p].kind = kind => p \in DOMAIN s
    <3>1. \A j \in DOMAIN x : x[j].kind # kind
      BY <1>3 DEF HeaderKinds, IsFrame
    <3>. QED BY <1>1, <3>1
  <2>3. Latest(t, kind, n) = Latest(s, kind, Len(s) + 1)
    <3>1. t \in Seq(EntryType)
      BY ONLY <1>1
    <3>. QED BY ONLY <2>1, <2>2, <3>1, n \in Nat, s \in Seq(EntryType), LatestOfAll
  <2>. QED BY <1>3, <2>3 DEF UpToDate
<1>4. UpToDate(t, h)
  <2>1. Len(t) + 1 \in Nat /\ Len(s) + 1 <= Len(t) + 1
    BY <1>1, <1>2
  <2>. QED BY <1>3, <2>1 DEF UpToDate
<1>5. ASSUME NEW i \in DOMAIN t, NEW j \in DOMAIN t, j <= i, IsPicture(t[j]),
             NEW kind \in HeaderKinds
      PROVE  t[i].via # "live" /\ Latest(t, kind, i) >= Latest(h, kind, t[i].seq)
  <2>1. j \notin DOMAIN s
    BY <1>1, <1>5 DEF Early
  <2>2. PICK b \in DOMAIN x : j = Len(s) + b
    BY <1>1, <2>1
  <2>3. i \notin DOMAIN s
    BY <1>2, <1>5, <2>2
  <2>4. PICK a \in DOMAIN x : i = Len(s) + a
    BY <1>1, <2>3
  <2>5. /\ t[i] = x[a] /\ x[a].via = "cache" /\ x[a].seq \in DOMAIN h
        /\ i \in Nat /\ Len(s) + 1 <= i
    <3>1. Len(s) + a \in DOMAIN t /\ t[Len(s) + a] = x[a] /\ a \in Nat /\ 1 <= a
      BY <1>1, <1>2
    <3>. QED BY ONLY <1>2, <2>4, <3>1, x[a].via = "cache" /\ x[a].seq \in DOMAIN h
  <2>6. x[a].seq \in Nat /\ Len(h) + 1 \in Nat /\ x[a].seq <= Len(h) + 1
    BY <2>5
  <2>7. Latest(h, kind, x[a].seq) <= Latest(h, kind, Len(h) + 1)
    BY <2>6, LatestGrows
  <2>8. Latest(h, kind, x[a].seq) \in Nat /\ Latest(h, kind, Len(h) + 1) \in Nat
    BY <2>6, LatestGrows
  <2>9. Latest(t, kind, i) = Latest(h, kind, Len(h) + 1)
    BY <1>3, <2>5
  <2>. QED BY <2>5, <2>7, <2>8, <2>9
<1>6. Headed(t, h)
  BY <1>5 DEF Headed
<1>. QED BY <1>4, <1>6 DEF t

\* v is the last header of its kind in the stream, and the only entry of that kind in x.
LastHeader(v, kind, h) ==
  /\ v.kind = kind /\ v.seq \in DOMAIN h /\ h[v.seq].kind = kind
  /\ \A p \in DOMAIN h : h[p].kind = kind => p <= v.seq

OneOfKind(v, kind, x) ==
  /\ \E j \in DOMAIN x : x[j] = v
  /\ \A j \in DOMAIN x : x[j].kind = kind => x[j] = v

\* A header of the given kind is sent: v, of the last one of the stream.
LEMMA HeadSent ==
  ASSUME NEW s \in Seq(EntryType), NEW h \in Seq(Message), IsStream(h),
         NEW x \in Seq(EntryType), NEW v, NEW kind, LastHeader(v, kind, h), OneOfKind(v, kind, x)
  PROVE  Latest(s \o x, kind, Len(s \o x) + 1) = Latest(h, kind, Len(h) + 1)
<1>. USE DEF LastHeader, OneOfKind
<1>. DEFINE t == s \o x
<1>1. /\ t \in Seq(EntryType) /\ Len(t) = Len(s) + Len(x)
      /\ \A i \in DOMAIN s : i \in DOMAIN t /\ t[i] = s[i]
      /\ \A j \in DOMAIN x : Len(s) + j \in DOMAIN t /\ t[Len(s) + j] = x[j]
      /\ \A k \in DOMAIN t : k \in DOMAIN s \/ \E j \in DOMAIN x : k = Len(s) + j
  BY ONLY s \in Seq(EntryType), x \in Seq(EntryType), Joined
<1>2. /\ Len(s) \in Nat /\ Len(h) + 1 \in Nat /\ \A p \in DOMAIN h : p < Len(h) + 1
      /\ \A i \in DOMAIN s : i \in Nat /\ i <= Len(s)
      /\ \A j \in DOMAIN x : j \in Nat /\ 1 <= j
  OBVIOUS
<1>. HIDE DEF t
<1>4. PICK j \in DOMAIN x : x[j] = v
  OBVIOUS
<1>5. PICK p \in DOMAIN t : /\ t[p].kind = kind
                            /\ \A q \in DOMAIN t : t[q].kind = kind => q <= p
                            /\ Latest(t, kind, Len(t) + 1) = t[p].seq
  <2>1. PICK i \in DOMAIN t : t[i].kind = kind
    BY <1>1, <1>4
  <2>2. t \in Seq(EntryType)
    BY <1>1
  <2>3. PICK p \in DOMAIN t : LastOfKind(t, kind, p)
    BY ONLY <2>1, <2>2, i \in DOMAIN t, LatestIn
  <2>. QED BY ONLY p \in DOMAIN t, <2>3, Zenon DEF LastOfKind
<1>6. t[p] = v
  <2>1. Len(s) + j <= p
    BY <1>1, <1>4, <1>5
  <2>2. p \notin DOMAIN s
    BY <1>2, <2>1
  <2>3. PICK k \in DOMAIN x : p = Len(s) + k
    BY <1>1, <2>2
  <2>4. t[p] = x[k] /\ x[k].kind = kind
    BY ONLY <1>1, <1>5, <2>3
  <2>. QED BY <2>4
<1>7. Latest(h, kind, Len(h) + 1) = v.seq
  <2>1. Latest(h, kind, Len(h) + 1) = h[v.seq].seq
    BY <1>2, LatestIs
  <2>. QED BY <2>1 DEF IsStream
<1>. QED BY <1>5, <1>6, <1>7 DEF t

-----------------------------------------------------------------------------
(***************************************************************************)
(* One visit.                                                              *)
(***************************************************************************)

\* A consumer that has been given s of the messages h: in order, from a key
\* frame on, with the headers in force, and, while it is attached, with the
\* last of them and without a gap when GOPs are not cut.
GivenOK(s, h, started, current) ==
  /\ Drawn(s, h) /\ Rising(s) /\ Headed(s, h)
  /\ started /\ current => UpToDate(s, h)
  /\ IF started
     THEN \E f : /\ OpensAt(s, f)
                 /\ SingleGopMaxFrameNum = 0 /\ current => Whole(s, h, f)
     ELSE Early(s, h)

\* GetGopCount says how many GOPs GetGopDataAt hands out.
LEMMA GopCount ==
  ASSUME Cache!TypeOK, Cache!GetGopCount > 0
  PROVE  Cache!CachedGops # << >>
<1>1. first \in G!Slots /\ last \in G!Slots
  BY SameCache DEF G!TypeOK
<1>2. /\ G!Keep \in Nat /\ G!gopSize = G!Keep + 1 /\ G!Slots = 0 .. G!Keep
      /\ G!GetGopCount = IF first <= last THEN last - first ELSE last + G!gopSize - first
  BY <1>1, CacheAssumption, G!RingSize, G!RingIndices DEF G!GetGopCount
<1>3. G!GetGopCount \in Nat
  BY <1>1, <1>2
<1>4. 1 \in DOMAIN G!CachedGops
  <2>1. 1 \in 1 .. G!GetGopCount
    BY <1>3, SameCache
  <2>. QED BY <2>1 DEF G!CachedGops
<1>5. G!CachedGops # << >>
  BY <1>4
<1>. QED BY <1>5, SameCache

\* An entry of x \o y is an entry of x or of y.
FromEither(x, y) ==
  \A i \in DOMAIN (x \o y) : \/ i \in DOMAIN x /\ (x \o y)[i] = x[i]
                             \/ \E j \in DOMAIN y : (x \o y)[i] = y[j]

LEMMA FromJoined ==
  ASSUME NEW S, NEW x \in Seq(S), NEW y \in Seq(S)
  PROVE  FromEither(x, y)
BY Joined DEF FromEither

\* Every entry of x is one of z.
Within(x, z) == \A i \in DOMAIN x : \E k \in DOMAIN z : z[k] = x[i]

LEMMA InJoined ==
  ASSUME NEW S, NEW x \in Seq(S), NEW y \in Seq(S)
  PROVE  Within(x, x \o y) /\ Within(y, x \o y)
<1>. DEFINE z == x \o y
<1>1. /\ \A i \in DOMAIN x : i \in DOMAIN z /\ z[i] = x[i]
      /\ \A j \in DOMAIN y : Len(x) + j \in DOMAIN z /\ z[Len(x) + j] = y[j]
  BY Joined
<1>. HIDE DEF z
<1>2. Within(x, z) /\ Within(y, z)
  BY <1>1 DEF Within
<1>. QED BY <1>2 DEF z

\* The headers that introduce a consumer are messages of the stream.
LEMMA HeaderEntries ==
  ASSUME BaseInv
  PROVE  /\ Drawn(SeqHeaders, hist)
         /\ \A i \in DOMAIN SeqHeaders : ~IsPicture(SeqHeaders[i]) /\ ~Sent(SeqHeaders[i])
         /\ \A i \in DOMAIN SeqHeaders :
              \/ /\ videoheader # NoMsg
                 /\ SeqHeaders[i] = Entry(videoheader, "header")
              \/ /\ audioheader # NoMsg
                 /\ SeqHeaders[i] = Entry(audioheader, "header")
         /\ videoheader # NoMsg =>
              \E i \in DOMAIN SeqHeaders : SeqHeaders[i] = Entry(videoheader, "header")
         /\ audioheader # NoMsg =>
              \E i \in DOMAIN SeqHeaders : SeqHeaders[i] = Entry(audioheader, "header")
<1>. DEFINE v == Entry(videoheader, "header")
            a == Entry(audioheader, "header")
<1>1. /\ videoheader # NoMsg =>
           /\ v.seq \in DOMAIN hist /\ v.kind = hist[v.seq].kind
           /\ v.kind = "videoHeader" /\ v.via = "header"
      /\ audioheader # NoMsg =>
           /\ a.seq \in DOMAIN hist /\ a.kind = hist[a.seq].kind
           /\ a.kind \in {"aacHeader", "rawAudio"} /\ a.via = "header"
  BY DEF BaseInv, HeaderInv, LastOf, Entry
<1>2. /\ \A i \in DOMAIN SeqHeaders :
           \/ videoheader # NoMsg /\ SeqHeaders[i] = v
           \/ audioheader # NoMsg /\ SeqHeaders[i] = a
      /\ videoheader # NoMsg => \E i \in DOMAIN SeqHeaders : SeqHeaders[i] = v
      /\ audioheader # NoMsg => \E i \in DOMAIN SeqHeaders : SeqHeaders[i] = a
  <2>. DEFINE vs == IF videoheader = NoMsg THEN << >> ELSE <<v>>
              as == IF audioheader = NoMsg THEN << >> ELSE <<a>>
  <2>1. SeqHeaders = vs \o as
    BY DEF SeqHeaders
  <2>. HIDE DEF v, a
  <2>2. /\ vs \in Seq({v, a}) /\ as \in Seq({v, a})
        /\ \A i \in DOMAIN vs : videoheader # NoMsg /\ vs[i] = v
        /\ \A i \in DOMAIN as : audioheader # NoMsg /\ as[i] = a
        /\ videoheader # NoMsg => \E i \in DOMAIN vs : vs[i] = v
        /\ audioheader # NoMsg => \E i \in DOMAIN as : as[i] = a
    <3>1. /\ << >> \in Seq({v, a}) /\ DOMAIN << >> = {}
          /\ <<v>> \in Seq({v, a}) /\ DOMAIN <<v>> = {1} /\ <<v>>[1] = v
          /\ <<a>> \in Seq({v, a}) /\ DOMAIN <<a>> = {1} /\ <<a>>[1] = a
      OBVIOUS
    <3>2. \A i \in DOMAIN vs : videoheader # NoMsg /\ vs[i] = v
      BY <3>1
    <3>3. \A i \in DOMAIN as : audioheader # NoMsg /\ as[i] = a
      BY <3>1
    <3>4. videoheader # NoMsg => \E i \in DOMAIN vs : vs[i] = v
      BY <3>1
    <3>5. audioheader # NoMsg => \E i \in DOMAIN as : as[i] = a
      BY <3>1
    <3>. QED BY <3>1, <3>2, <3>3, <3>4, <3>5
  <2>. HIDE DEF vs, as
  <2>3. ASSUME NEW i \in DOMAIN (vs \o as)
        PROVE  \/ videoheader # NoMsg /\ (vs \o as)[i] = v
               \/ audioheader # NoMsg /\ (vs \o as)[i] = a
    <3>1. \/ i \in DOMAIN vs /\ (vs \o as)[i] = vs[i]
          \/ \E j \in DOMAIN as : (vs \o as)[i] = as[j]
      <4>1. vs \in Seq({v, a}) /\ as \in Seq({v, a})
        BY <2>2
      <4>2. FromEither(vs, as)
        BY ONLY <4>1, FromJoined
      <4>. QED BY ONLY <4>2, <2>3 DEF FromEither
    <3>2. CASE i \in DOMAIN vs /\ (vs \o as)[i] = vs[i]
      BY ONLY <2>2, <3>2, Zenon
    <3>3. CASE \E j \in DOMAIN as : (vs \o as)[i] = as[j]
      BY ONLY <2>2, <3>3, Zenon
    <3>. QED BY ONLY <3>1, <3>2, <3>3, Zenon
  <2>4. /\ videoheader # NoMsg => \E i \in DOMAIN (vs \o as) : (vs \o as)[i] = v
        /\ audioheader # NoMsg => \E i \in DOMAIN (vs \o as) : (vs \o as)[i] = a
    <3>. DEFINE z == vs \o as
    <3>1. Within(vs, z) /\ Within(as, z)
      BY <2>2, InJoined
    <3>. HIDE DEF z
    <3>2. /\ videoheader # NoMsg => \E i \in DOMAIN z : z[i] = v
          /\ audioheader # NoMsg => \E i \in DOMAIN z : z[i] = a
      BY ONLY <2>2, <3>1, Zenon DEF Within
    <3>. QED BY <3>2 DEF z
  <2>. QED BY <2>1, <2>3, <2>4
<1>3. v = Entry(videoheader, "header") /\ a = Entry(audioheader, "header")
  OBVIOUS
<1>. HIDE DEF v, a
<1>4. /\ Drawn(SeqHeaders, hist)
      /\ \A i \in DOMAIN SeqHeaders : ~IsPicture(SeqHeaders[i]) /\ ~Sent(SeqHeaders[i])
  BY <1>1, <1>2 DEF Drawn, IsPicture, Sent
<1>. QED BY ONLY <1>2, <1>3, <1>4, Zenon

\* After them the consumer has the last headers of the stream.
LEMMA HeadHeaders ==
  ASSUME BaseInv, NEW s \in Seq(EntryType), Drawn(s, hist), SeqHeaders \in Seq(EntryType)
  PROVE  UpToDate(s \o SeqHeaders, hist)
<1>. DEFINE x == SeqHeaders
            t == s \o x
<1>1. /\ hist \in Seq(Message) /\ IsStream(hist) /\ HeaderInv
      /\ x \in Seq(EntryType)
  <2>1. hist \in Seq(Message)
    BY SameCache DEF BaseInv, TypeOK, G!TypeOK
  <2>. QED BY <2>1 DEF BaseInv, StreamInv
<1>2. t \in Seq(EntryType) /\ Drawn(t, hist)
  <2>1. Drawn(x, hist)
    BY HeaderEntries
  <2>. HIDE DEF x
  <2>2. /\ t \in Seq(EntryType)
        /\ \A i \in DOMAIN s : i \in DOMAIN t /\ t[i] = s[i]
        /\ \A j \in DOMAIN x : Len(s) + j \in DOMAIN t /\ t[Len(s) + j] = x[j]
        /\ \A k \in DOMAIN t : k \in DOMAIN s \/ \E j \in DOMAIN x : k = Len(s) + j
    BY ONLY <1>1, s \in Seq(EntryType), Joined
  <2>. HIDE DEF t
  <2>. QED BY <2>1, <2>2 DEF Drawn
\* The stream has had no header of this kind.
<1>3. ASSUME NEW kind, \A p \in DOMAIN hist : hist[p].kind # kind
      PROVE  Latest(t, kind, Len(t) + 1) = Latest(hist, kind, Len(hist) + 1)
  <2>. HIDE DEF t
  <2>1. Len(t) + 1 \in Nat /\ Len(hist) + 1 \in Nat
    BY <1>1, <1>2
  <2>2. \A p \in DOMAIN t : t[p].kind # kind
    BY <1>2, <1>3 DEF Drawn
  <2>3. Latest(t, kind, Len(t) + 1) = 0
    BY <1>2, <2>1, <2>2, LatestNone
  <2>4. Latest(hist, kind, Len(hist) + 1) = 0
    BY <1>1, <1>3, <2>1, LatestNone
  <2>. QED BY <2>3, <2>4
\* It has, and the cache keeps the last one.
<1>4. ASSUME NEW header, LastOf(header, hist, {header.kind}), header # NoMsg,
             \E j \in DOMAIN x : x[j] = Entry(header, "header"),
             \A j \in DOMAIN x : x[j].kind = header.kind => x[j] = Entry(header, "header")
      PROVE  Latest(t, header.kind, Len(t) + 1) = Latest(hist, header.kind, Len(hist) + 1)
  <2>. DEFINE v == Entry(header, "header")
  <2>1. /\ v.kind = header.kind /\ v.seq \in DOMAIN hist /\ hist[v.seq].kind = header.kind
        /\ \A p \in DOMAIN hist : hist[p].kind = header.kind => p <= v.seq
    BY <1>4 DEF LastOf, Entry
  <2>2. /\ \E j \in DOMAIN x : x[j] = v
        /\ \A j \in DOMAIN x : x[j].kind = header.kind => x[j] = v
    BY <1>4
  <2>. DEFINE kind == header.kind
  <2>3. LastHeader(v, kind, hist) /\ OneOfKind(v, kind, x)
    BY <2>1, <2>2 DEF LastHeader, OneOfKind
  <2>. HIDE DEF v, x, kind
  <2>4. Latest(s \o x, kind, Len(s \o x) + 1) = Latest(hist, kind, Len(hist) + 1)
    <3>1. x \in Seq(EntryType) /\ hist \in Seq(Message) /\ IsStream(hist)
      BY ONLY <1>1
    <3>. QED BY ONLY <2>3, <3>1, s \in Seq(EntryType), HeadSent
  <2>. QED BY <2>4 DEF kind
<1>5. /\ \A i \in DOMAIN x : \/ videoheader # NoMsg /\ x[i] = Entry(videoheader, "header")
                             \/ audioheader # NoMsg /\ x[i] = Entry(audioheader, "header")
      /\ videoheader # NoMsg => \E i \in DOMAIN x : x[i] = Entry(videoheader, "header")
      /\ audioheader # NoMsg => \E i \in DOMAIN x : x[i] = Entry(audioheader, "header")
  BY HeaderEntries
<1>6. /\ LastOf(videoheader, hist, {"videoHeader"})
      /\ LastOf(audioheader, hist, {"aacHeader", "rawAudio"})
      /\ Entry(videoheader, "header").kind = videoheader.kind
      /\ Entry(audioheader, "header").kind = audioheader.kind
  BY <1>1 DEF HeaderInv, Entry
<1>. HIDE DEF x, t
<1>7. Latest(t, "videoHeader", Len(t) + 1) = Latest(hist, "videoHeader", Len(hist) + 1)
  <2>1. CASE videoheader = NoMsg
    BY <1>3, <1>6, <2>1 DEF LastOf
  <2>2. CASE videoheader # NoMsg
    <3>1. videoheader.kind = "videoHeader"
      BY <1>6, <2>2 DEF LastOf
    <3>2. audioheader # NoMsg => audioheader.kind # "videoHeader"
      BY <1>6 DEF LastOf
    <3>3. \A j \in DOMAIN x : x[j].kind = "videoHeader" => x[j] = Entry(videoheader, "header")
      BY <1>5, <1>6, <3>2
    <3>4. LastOf(videoheader, hist, {videoheader.kind})
      BY <1>6, <3>1
    <3>. QED BY <1>4, <1>5, <2>2, <3>1, <3>3, <3>4
  <2>. QED BY <2>1, <2>2
<1>8. ASSUME OneAudioCodec
      PROVE  Latest(t, "aacHeader", Len(t) + 1) = Latest(hist, "aacHeader", Len(hist) + 1)
  <2>1. CASE \A p \in DOMAIN hist : hist[p].kind # "aacHeader"
    BY <1>3, <2>1
  <2>2. CASE \E p \in DOMAIN hist : hist[p].kind = "aacHeader"
    <3>1. "aacHeader" \in Kinds /\ \A p \in DOMAIN hist : hist[p].kind # "rawAudio"
      BY <1>1, <1>8, <2>2 DEF IsStream, OneAudioCodec
    <3>2. audioheader # NoMsg /\ audioheader.kind = "aacHeader"
      BY <1>6, <2>2, <3>1 DEF LastOf
    <3>3. LastOf(audioheader, hist, {audioheader.kind})
      BY <1>6, <3>2 DEF LastOf
    <3>4. videoheader # NoMsg => videoheader.kind # "aacHeader"
      BY <1>6 DEF LastOf
    <3>5. \A j \in DOMAIN x : x[j].kind = "aacHeader" => x[j] = Entry(audioheader, "header")
      BY <1>5, <1>6, <3>4
    <3>. QED BY <1>4, <1>5, <3>2, <3>3, <3>5
  <2>. QED BY <2>1, <2>2
<1>9. UpToDate(t, hist)
  BY <1>7, <1>8 DEF UpToDate, HeaderKinds
<1>. QED BY <1>9 DEF t, x

\* A consumer that has started is given every message that is audio or video.
LEMMA VisitStarted ==
  ASSUME BaseInv, at = "OnMsg", NEW c \in Subscribers, Started(c),
         NEW s \in Seq(EntryType), Drawn(s, hist), Rising(s),
         Headed(s, hist), UpToDate(s, hist),
         NEW f, OpensAt(s, f), SingleGopMaxFrameNum = 0 => Whole(s, hist, f)
  PROVE  GivenOK(s \o Live(c), Append(hist, msg), TRUE, TRUE)
<1>. DEFINE e == Entry(msg, "live")
<1>1. /\ hist \in Seq(Message) /\ msg \in Message /\ msg.seq = Len(hist) + 1
      /\ e \in EntryType
  BY SameCache, VisitType DEF BaseInv, TypeOK, G!TypeOK, WalkInv, StreamInv
<1>2. Live(c) = IF IsVideo(msg) \/ IsAudio(msg) THEN <<e>> ELSE << >>
  BY DEF Live, IsVideo, IsAudio, VideoKinds, AudioKinds
<1>3. CASE IsVideo(msg) \/ IsAudio(msg)
  <2>. DEFINE t == Append(s, e)
              k == Append(hist, msg)
  <2>1. /\ Drawn(t, k) /\ Rising(t) /\ OpensAt(t, f)
        /\ Whole(s, hist, f) => Whole(t, k, f)
    BY <1>1, SendLive
  <2>4. Headed(t, k) /\ UpToDate(t, k)
    BY <1>1, HeadLive
  <2>2. s \o Live(c) = t
    BY <1>1, <1>2, <1>3, AppendIsConcat
  <2>. HIDE DEF t, k
  <2>3. GivenOK(t, k, TRUE, TRUE)
    BY <2>1, <2>4 DEF GivenOK
  <2>. QED BY <2>2, <2>3 DEF k
<1>4. CASE ~(IsVideo(msg) \/ IsAudio(msg))
  <2>. DEFINE k == Append(hist, msg)
  <2>1. ~IsFrame(msg)
    BY <1>4 DEF IsFrame, IsVideo, IsAudio, VideoKinds, AudioKinds
  <2>2. Drawn(s, k) /\ (Whole(s, hist, f) => Whole(s, k, f))
    BY <1>1, <2>1, SendNothing
  <2>5. Headed(s, k) /\ UpToDate(s, k)
    <3>1. msg.kind \notin HeaderKinds
      BY <1>4 DEF HeaderKinds, IsVideo, IsAudio, VideoKinds, AudioKinds
    <3>. QED BY <1>1, <3>1, HeadNothing
  <2>3. s \o Live(c) = s
    BY <1>2, <1>4
  <2>. HIDE DEF k
  <2>4. GivenOK(s, k, TRUE, TRUE)
    BY <2>2, <2>5 DEF GivenOK
  <2>. QED BY <2>3, <2>4 DEF k
<1>. QED BY <1>3, <1>4

LEMMA Visit ==
  ASSUME BaseInv, at = "OnMsg", NEW c \in Subscribers,
         GivenOK(got[c], hist, hasSendVideo[c], TRUE)
  PROVE  GivenOK(got[c] \o Replay(c) \o Live(c), Append(hist, msg),
                 Started(c) \/ IsVideoKeyNalu(msg), TRUE)
<1>. DEFINE e == Entry(msg, "live")
            s == got[c]
            x == SeqHeaders
            y == CachedFrames
            k == Append(hist, msg)
<1>1. /\ hist \in Seq(Message) /\ msg \in Message /\ msg.seq = Len(hist) + 1
      /\ IsStream(hist) /\ k \in Seq(Message)
      /\ e \in EntryType /\ s \in Seq(EntryType) /\ x \in Seq(EntryType)
      /\ y \in Seq(EntryType)
      /\ hasSendVideo[c] \in BOOLEAN /\ Cache!TypeOK
  <2>1. TypeOK /\ WalkInv /\ StreamInv
    BY DEF BaseInv
  <2>2. hist \in Seq(Message) /\ msg \in Message /\ msg.seq = Len(hist) + 1
    BY <2>1, SameCache DEF TypeOK, G!TypeOK, WalkInv, StreamInv
  <2>. QED BY <2>1, <2>2, VisitType DEF TypeOK, StreamInv
<1>2. Drawn(s, hist) /\ Rising(s) /\ Headed(s, hist)
  BY DEF GivenOK
<1>. DEFINE sx == s \o x
<1>3. /\ sx \in Seq(EntryType) /\ Drawn(sx, hist) /\ Rising(sx)
      /\ Early(s, hist) => Early(sx, hist)
  BY <1>1, <1>2, HeaderEntries, SendHeaders
<1>7. UpToDate(sx, hist)
  BY <1>1, <1>2, HeadHeaders
<1>8. ASSUME Early(sx, hist)
      PROVE  Headed(sx, hist)
  <2>. HIDE DEF sx
  <2>. QED BY <1>8, HeadedEarly DEF Early
<1>4. CASE hasSendVideo[c]
  <2>1. PICK f : OpensAt(s, f) /\ (SingleGopMaxFrameNum = 0 => Whole(s, hist, f))
    BY <1>4 DEF GivenOK
  <2>5. UpToDate(s, hist)
    BY <1>4 DEF GivenOK
  <2>2. Replay(c) = << >> /\ Started(c)
    BY <1>4 DEF Replay, ReplayDue, Started
  <2>3. s \o Replay(c) = s
    BY <1>1, <2>2
  <2>4. GivenOK(s \o Live(c), k, TRUE, TRUE)
    BY <1>1, <1>2, <2>1, <2>2, <2>5, VisitStarted
  <2>. QED BY <2>2, <2>3, <2>4
<1>5. CASE ~hasSendVideo[c] /\ ReplayDue(c)
  <2>. DEFINE w == Cache!CachedGops
              t == sx \o y
  <2>1. Early(sx, hist)
    BY <1>3, <1>5 DEF GivenOK
  <2>2. /\ w \in Seq(Seq(Message)) /\ w # << >> /\ G!OrderedUpTo(w, Len(hist))
        /\ FromStream(w, hist) /\ (SingleGopMaxFrameNum = 0 => CompleteUpTo(w, hist))
    BY <1>1, <1>5, CachedType, GopCount DEF ReplayDue, BaseInv, StreamInv, GopsInv
  <2>3. y = Entries(Concatenation(w), "cache")
    BY DEF CachedFrames
  <2>4. /\ t \in Seq(EntryType) /\ Drawn(t, hist) /\ Rising(t)
        /\ OpensAt(t, Len(sx) + 1)
        /\ SingleGopMaxFrameNum = 0 => Whole(t, hist, Len(sx) + 1)
        /\ Headed(t, hist) /\ UpToDate(t, hist)
    <3>. HIDE DEF w, y, sx, t
    <3>1. /\ sx \o y \in Seq(EntryType)
          /\ Drawn(sx \o y, hist) /\ Rising(sx \o y)
          /\ OpensAt(sx \o y, Len(sx) + 1)
          /\ CompleteUpTo(w, hist) => Whole(sx \o y, hist, Len(sx) + 1)
          /\ \A j \in DOMAIN y : /\ IsFrame(y[j]) /\ y[j].via = "cache"
                                /\ y[j].seq \in DOMAIN hist
      BY <1>1, <1>3, <2>1, <2>2, <2>3, SendCached
    <3>2. Headed(sx \o y, hist) /\ UpToDate(sx \o y, hist)
      BY <1>1, <1>3, <1>7, <2>1, <3>1, HeadCached
    <3>. QED BY <2>2, <3>1, <3>2 DEF t
  <2>5. Replay(c) = x \o y /\ Started(c)
    BY <1>5 DEF Replay, Started
  <2>6. s \o Replay(c) = t
    <3>. HIDE DEF x, y, s
    <3>1. (s \o x) \o y = s \o (x \o y)
      <4>1. s \in Seq(EntryType) /\ x \in Seq(EntryType) /\ y \in Seq(EntryType)
        BY <1>1
      <4>. QED BY ONLY <4>1, ConcatAssociative
    <3>. QED BY <2>5, <3>1
  <2>. HIDE DEF t
  <2>7. GivenOK(t \o Live(c), k, TRUE, TRUE)
    BY <2>4, <2>5, VisitStarted
  <2>. QED BY <2>5, <2>6, <2>7
<1>6. CASE ~Started(c)
  <2>1. Replay(c) = << >> /\ s \o Replay(c) = s /\ Early(s, hist)
    <3>1. ~hasSendVideo[c] /\ ~ReplayDue(c)
      BY <1>6 DEF Started
    <3>2. Early(s, hist)
      BY <3>1 DEF GivenOK
    <3>3. Replay(c) = << >>
      BY <3>1 DEF Replay
    <3>. QED BY <1>1, <3>2, <3>3, ConcatEmptySeq
  <2>2. CASE IsVideoKeyNalu(msg)
    <3>. DEFINE t == Append(sx, e)
    <3>1. /\ Drawn(t, k) /\ Rising(t)
          /\ OpensAt(t, Len(sx) + 1) /\ Whole(t, k, Len(sx) + 1)
      BY <1>1, <1>3, <2>1, <2>2, SendLive
    <3>5. Headed(t, k) /\ UpToDate(t, k)
      <4>1. Headed(sx, hist)
        BY <1>3, <1>8, <2>1
      <4>. HIDE DEF sx
      <4>. QED BY <1>1, <1>3, <1>7, <4>1, HeadLive
    <3>2. Live(c) = x \o <<e>>
      <4>1. IsVideo(msg) /\ ~IsAudio(msg)
        BY <2>2 DEF IsVideo, VideoKinds, IsAudio, AudioKinds, IsVideoKeyNalu
      <4>. QED BY <1>6, <2>2, <4>1 DEF Live
    <3>3. s \o Live(c) = t
      <4>. HIDE DEF x, e, s
      <4>1. (s \o x) \o <<e>> = s \o (x \o <<e>>)
        <5>1. <<e>> \in Seq(EntryType)
          BY <1>1
        <5>. QED BY <1>1, <5>1, ConcatAssociative
      <4>2. Append(s \o x, e) = (s \o x) \o <<e>>
        BY <1>1, <1>3, AppendIsConcat
      <4>. QED BY <3>2, <4>1, <4>2
    <3>. HIDE DEF t, k
    <3>4. GivenOK(t, k, TRUE, TRUE)
      BY <3>1, <3>5 DEF GivenOK
    <3>. QED BY <2>1, <2>2, <3>3, <3>4 DEF k
  <2>3. CASE ~IsVideoKeyNalu(msg)
    <3>1. Live(c) = IF IsAudio(msg) /\ ~hasVideo THEN <<e>> ELSE << >>
      BY <1>6, <2>3 DEF Live, IsVideo, IsAudio, VideoKinds, AudioKinds
    <3>2. CASE IsAudio(msg) /\ ~hasVideo
      <4>. DEFINE t == Append(s, e)
      <4>1. ~IsPicture(e) /\ \A p \in DOMAIN hist : ~IsVideoKeyNalu(hist[p])
        BY <3>2 DEF IsPicture, Entry, IsAudio, AudioKinds, BaseInv, StreamInv
      <4>2. Drawn(t, k) /\ Rising(t) /\ Early(t, k)
        BY <1>1, <1>2, <2>1, <4>1, SendLive
      <4>3. s \o Live(c) = t
        BY <1>1, <3>1, <3>2, AppendIsConcat
      <4>. HIDE DEF t, k
      <4>5. Headed(t, k)
        BY <4>2, HeadedEarly DEF Early
      <4>4. GivenOK(t, k, FALSE, TRUE)
        BY <4>2, <4>5 DEF GivenOK
      <4>. QED BY <1>6, <2>1, <2>3, <4>3, <4>4 DEF k
    <3>3. CASE ~(IsAudio(msg) /\ ~hasVideo)
      <4>1. s \o Live(c) = s
        BY <1>1, <3>1, <3>3, ConcatEmptySeq
      <4>2. Drawn(s, k) /\ Early(s, k)
        BY <1>1, <1>2, <2>1, SendNothing
      <4>4. Headed(s, k)
        BY <1>1, <1>2, HeadNothing
      <4>. HIDE DEF k
      <4>3. GivenOK(s, k, FALSE, TRUE)
        BY <1>2, <4>2, <4>4 DEF GivenOK
      <4>. QED BY <1>6, <2>1, <2>3, <4>1, <4>3 DEF k
    <3>. QED BY <3>2, <3>3
  <2>. QED BY <2>2, <2>3
<1>. QED BY <1>1, <1>4, <1>5, <1>6 DEF Started

-----------------------------------------------------------------------------
(***************************************************************************)
(* The invariant about what every consumer was ever given.                 *)
(***************************************************************************)

\* The messages that consumer c has been shown: also the one of the walk under
\* way once the walk is past c.
Shown(c) == IF at = "OnMsg" /\ c \notin reachable THEN Append(hist, msg) ELSE hist

\* c has missed none of them since it joined: it is in the map, or this walk
\* may still come to it.
Current(c) == sub[c] = "added" \/ c \in reachable

GotInv ==
  \A c \in Watching : GivenOK(got[c], Shown(c), hasSendVideo[c], Current(c))

LEMMA GivenNone ==
  ASSUME NEW h, NEW b
  PROVE  GivenOK(<< >>, h, FALSE, b)
BY DEF GivenOK, Drawn, Rising, Early, Headed

LEMMA GivenWeaker ==
  ASSUME NEW s, NEW h, NEW b \in BOOLEAN, NEW x \in BOOLEAN, NEW y \in BOOLEAN,
         GivenOK(s, h, b, x), y => x
  PROVE  GivenOK(s, h, b, y)
BY DEF GivenOK

\* A message goes past a consumer that need not be given any more.
LEMMA GivenPast ==
  ASSUME NEW s \in Seq(EntryType), NEW h \in Seq(Message), NEW m \in Message,
         NEW b \in BOOLEAN, NEW x \in BOOLEAN, GivenOK(s, h, b, x)
  PROVE  GivenOK(s, Append(h, m), b, FALSE)
<1>1. Drawn(s, h) /\ Rising(s) /\ Headed(s, h)
  BY DEF GivenOK
<1>2. /\ Drawn(s, Append(h, m)) /\ (Early(s, h) => Early(s, Append(h, m)))
      /\ Headed(s, Append(h, m))
  BY <1>1, SendNothing, HeadNothing
<1>. QED BY <1>1, <1>2 DEF GivenOK

LEMMA GotInit == Init => GotInv
<1>. SUFFICES ASSUME Init, NEW c \in Subscribers
              PROVE  GivenOK(got[c], Shown(c), hasSendVideo[c], Current(c))
  BY DEF GotInv, Watching
<1>1. got[c] = << >> /\ hasSendVideo[c] = FALSE
  BY DEF Init
<1>. QED BY <1>1, GivenNone

LEMMA GotStep == BaseInv /\ GotInv /\ [Next]_vars => GotInv'
<1>. SUFFICES ASSUME BaseInv, GotInv, [Next]_vars,
                     NEW c \in Subscribers, home'[c] = session'
              PROVE  GivenOK(got'[c], Shown(c)', hasSendVideo'[c], Current(c)')
  BY DEF GotInv, Watching
<1>0. /\ TypeOK /\ TypeOK' /\ WalkInv /\ WalkInv'
      /\ got[c] \in Seq(EntryType) /\ hist \in Seq(Message)
      /\ hasSendVideo[c] \in BOOLEAN /\ hasSendVideo'[c] \in BOOLEAN
      /\ Current(c) \in BOOLEAN /\ Current(c)' \in BOOLEAN
  <2>1. BaseInv'
    BY BaseStep
  <2>2. hist \in Seq(Message)
    BY SameCache DEF BaseInv, TypeOK, G!TypeOK
  <2>. QED BY <2>1, <2>2 DEF BaseInv, TypeOK, Current
<1>1. ASSUME home[c] = session
      PROVE  GivenOK(got[c], Shown(c), hasSendVideo[c], Current(c))
  BY <1>1 DEF GotInv, Watching
\* Three ways a step leaves a consumer alone.
<1>2. ASSUME UNCHANGED <<got, hasSendVideo, home, session>>,
             Shown(c)' = Shown(c), Current(c)' => Current(c)
      PROVE  GivenOK(got'[c], Shown(c)', hasSendVideo'[c], Current(c)')
  BY <1>0, <1>1, <1>2, GivenWeaker
<1>3. ASSUME got'[c] = << >>, ~hasSendVideo'[c]
      PROVE  GivenOK(got'[c], Shown(c)', hasSendVideo'[c], Current(c)')
  BY <1>0, <1>3, GivenNone
<1>4. ASSUME UNCHANGED <<got, hasSendVideo, home, session>>, NEW m \in Message,
             Shown(c) = hist, Shown(c)' = Append(hist, m), ~Current(c)'
      PROVE  GivenOK(got'[c], Shown(c)', hasSendVideo'[c], Current(c)')
  BY <1>0, <1>1, <1>4, GivenPast
<1>5. CASE NewHookSession
  <2>1. home[c] = session + 1 /\ home[c] \in 0 .. session /\ session \in Nat
    BY <1>0, <1>5, HookSessionAssumption DEF NewHookSession, subVars, TypeOK
  <2>. QED BY <2>1
<1>6. ASSUME NEW k \in Kinds, OnMsg([kind |-> k, seq |-> fed + 1])
      PROVE  GivenOK(got'[c], Shown(c)', hasSendVideo'[c], Current(c)')
  <2>1. /\ at = "live" /\ reachable = {} /\ at' = "OnMsg" /\ reachable' = Consumers
        /\ UNCHANGED <<got, hasSendVideo, home, session, sub, hist>>
        /\ msg' \in Message
    BY <1>0, <1>6 DEF OnMsg, BeginWalk, cacheVars, subVars, WalkInv
  <2>2. Shown(c) = hist
    BY <2>1 DEF Shown
  <2>3. CASE sub[c] = "added"
    <3>1. c \in reachable'
      BY <2>1, <2>3 DEF Consumers
    <3>. QED BY <1>2, <2>1, <2>2, <2>3, <3>1 DEF Shown, Current
  <2>4. CASE sub[c] = "removed"
    <3>1. c \notin reachable'
      BY <2>1, <2>4 DEF Consumers
    <3>2. Shown(c)' = Append(hist, msg') /\ ~Current(c)'
      BY <2>1, <2>4, <3>1 DEF Shown, Current
    <3>. QED BY <1>4, <2>1, <2>2, <3>2
  <2>5. CASE sub[c] \in {"idle", "found"}
    BY <1>0, <1>3, <2>1, <2>5 DEF WalkInv
  <2>. QED BY <1>0, <2>3, <2>4, <2>5 DEF TypeOK
<1>7. CASE EndOnMsg
  <2>1. /\ at = "OnMsg" /\ owed = {} /\ at' = "live" /\ reachable' = {}
        /\ UNCHANGED <<got, hasSendVideo, home, session, sub>>
        /\ hist' = Append(hist, msg) /\ msg \in Message
    BY <1>0, <1>7 DEF EndOnMsg, Cache!Feed, subVars, WalkInv
  <2>2. CASE c \notin reachable
    BY <1>2, <2>1, <2>2 DEF Shown, Current
  <2>3. CASE c \in reachable /\ sub[c] = "added"
    <3>1. got[c] = << >> /\ ~hasSendVideo[c]
      BY <1>0, <2>1, <2>3 DEF WalkInv
    <3>. QED BY <1>3, <2>1, <3>1
  <2>4. CASE c \in reachable /\ sub[c] # "added"
    <3>1. Shown(c) = hist /\ Shown(c)' = Append(hist, msg) /\ ~Current(c)'
      BY <2>1, <2>4 DEF Shown, Current
    <3>. QED BY <1>4, <2>1, <3>1
  <2>. QED BY <2>2, <2>3, <2>4
<1>8. CASE OnStop
  <2>1. /\ at = "live" /\ at' = "OnStop" /\ reachable' = Consumers
        /\ UNCHANGED <<got, hasSendVideo, home, session, sub, hist>>
    BY <1>8 DEF OnStop, BeginWalk, cacheVars, subVars
  <2>. QED BY <1>2, <2>1 DEF Shown, Current, Consumers
<1>9. CASE EndOnStop
  BY <1>2, <1>9 DEF EndOnStop, cacheVars, subVars, Shown, Current
<1>10. ASSUME NEW d \in Subscribers, Deliver(d)
       PROVE  GivenOK(got'[c], Shown(c)', hasSendVideo'[c], Current(c)')
  <2>1. /\ at = "OnMsg" /\ at' = "OnMsg" /\ d \in reachable
        /\ reachable' = reachable \ {d}
        /\ UNCHANGED <<home, session, sub, hist, msg>>
    BY <1>10 DEF Deliver, cacheVars
  <2>2. CASE c = d
    <3>. DEFINE s == got[c] \o Replay(c) \o Live(c)
                b == Started(c) \/ IsVideoKeyNalu(msg)
    <3>1. got'[c] = s /\ hasSendVideo'[c] = b
      BY <1>0, <1>10, <2>2 DEF Deliver, TypeOK
    <3>2. GivenOK(got[c], hist, hasSendVideo[c], TRUE)
      <4>1. Shown(c) = hist /\ Current(c) = TRUE
        BY <2>1, <2>2 DEF Shown, Current
      <4>. QED BY <1>1, <2>1, <4>1
    <3>3. GivenOK(s, Append(hist, msg), b, TRUE)
      BY <2>1, <3>2, Visit
    <3>4. Shown(c)' = Append(hist, msg)
      BY <2>1, <2>2 DEF Shown
    <3>5. b \in BOOLEAN
      BY DEF Started, ReplayDue, IsVideoKeyNalu
    <3>. HIDE DEF s, b
    <3>. QED BY <1>0, <3>1, <3>3, <3>4, <3>5, GivenWeaker
  <2>3. CASE c # d
    <3>1. got'[c] = got[c] /\ hasSendVideo'[c] = hasSendVideo[c]
      BY <1>0, <1>10, <2>3 DEF Deliver, TypeOK
    <3>2. Shown(c)' = Shown(c) /\ Current(c)' = Current(c)
      BY <2>1, <2>3 DEF Shown, Current
    <3>. QED BY <1>0, <1>1, <2>1, <3>1, <3>2
  <2>. QED BY <2>2, <2>3
<1>11. ASSUME NEW d \in Subscribers, StopConsumer(d)
       PROVE  GivenOK(got'[c], Shown(c)', hasSendVideo'[c], Current(c)')
  BY <1>2, <1>11 DEF StopConsumer, cacheVars, Shown, Current
<1>12. ASSUME NEW d \in Subscribers, GetHookSession(d)
       PROVE  GivenOK(got'[c], Shown(c)', hasSendVideo'[c], Current(c)')
  <2>1. UNCHANGED <<got, hasSendVideo, session, hist, msg, at, reachable>>
    BY <1>12 DEF GetHookSession, cacheVars, walkVars
  <2>2. CASE c = d
    <3>1. got[c] = << >> /\ ~hasSendVideo[c]
      BY <1>0, <1>12, <2>2 DEF GetHookSession, WalkInv
    <3>. QED BY <1>3, <2>1, <3>1
  <2>3. CASE c # d
    <3>1. home'[c] = home[c] /\ sub'[c] = sub[c]
      BY <1>0, <1>12, <2>3 DEF GetHookSession, TypeOK
    <3>2. Shown(c)' = Shown(c) /\ Current(c)' = Current(c)
      BY <2>1, <3>1 DEF Shown, Current
    <3>. QED BY <1>0, <1>1, <2>1, <3>1, <3>2
  <2>. QED BY <2>2, <2>3
<1>13. ASSUME NEW d \in Subscribers, AddConsumer(d)
       PROVE  GivenOK(got'[c], Shown(c)', hasSendVideo'[c], Current(c)')
  <2>1. /\ UNCHANGED <<got, hasSendVideo, home, session, hist, msg, at>>
        /\ reachable' \in {reachable, reachable \cup {d}}
    BY <1>13 DEF AddConsumer, cacheVars
  <2>2. CASE c = d
    <3>1. got[c] = << >> /\ ~hasSendVideo[c]
      BY <1>0, <1>13, <2>2 DEF AddConsumer, WalkInv
    <3>. QED BY <1>3, <2>1, <3>1
  <2>3. CASE c # d
    <3>1. sub'[c] = sub[c] /\ (c \in reachable' <=> c \in reachable)
      BY <1>0, <1>13, <2>1, <2>3 DEF AddConsumer, TypeOK
    <3>2. Shown(c)' = Shown(c) /\ Current(c)' = Current(c)
      BY <2>1, <3>1 DEF Shown, Current
    <3>. QED BY <1>2, <2>1, <3>2
  <2>. QED BY <2>2, <2>3
<1>14. ASSUME NEW d \in Subscribers, RemoveConsumer(d)
       PROVE  GivenOK(got'[c], Shown(c)', hasSendVideo'[c], Current(c)')
  <2>1. /\ UNCHANGED <<got, hasSendVideo, home, session, hist, msg, at, reachable>>
        /\ sub'[c] = "added" => sub[c] = "added"
    BY <1>0, <1>14 DEF RemoveConsumer, cacheVars, TypeOK
  <2>. QED BY <1>2, <2>1 DEF Shown, Current
<1>15. CASE UNCHANGED vars
  BY <1>2, <1>15 DEF vars, cacheVars, walkVars, subVars, Shown, Current
<1>. QED BY <1>5, <1>6, <1>7, <1>8, <1>9, <1>10, <1>11, <1>12, <1>13, <1>14, <1>15
        DEF Next, Publisher

\* At every moment, whatever the order in which subscribers join, leave and are
\* visited, each has been given what GivenOK says of the messages it was shown.
THEOREM GivenAlways == Spec => [](BaseInv /\ GotInv)
<1>1. Init => BaseInv /\ GotInv
  BY BaseInit, GotInit
<1>2. BaseInv /\ GotInv /\ [Next]_vars => (BaseInv /\ GotInv)'
  BY BaseStep, GotStep
<1>. QED BY <1>1, <1>2, PTL DEF Spec

-----------------------------------------------------------------------------
(***************************************************************************)
(* What that means for a subscriber.                                       *)
(***************************************************************************)

\* The first picture is the one the invariant names.
LEMMA OpensOnKey ==
  ASSUME BaseInv, GotInv, NEW c \in Watching, Pictures(c) # {}
  PROVE  /\ FirstPicture(c) \in DOMAIN got[c] /\ OpensAt(got[c], FirstPicture(c))
         /\ SingleGopMaxFrameNum = 0 /\ Current(c) => Whole(got[c], Shown(c), FirstPicture(c))
<1>1. GivenOK(got[c], Shown(c), hasSendVideo[c], Current(c))
  BY DEF GotInv
<1>2. hasSendVideo[c]
  BY <1>1 DEF GivenOK, Early, Pictures
<1>3. PICK f : /\ OpensAt(got[c], f)
               /\ SingleGopMaxFrameNum = 0 /\ Current(c) => Whole(got[c], Shown(c), f)
  BY <1>1, <1>2 DEF GivenOK
<1>4. /\ f \in Pictures(c) /\ \A j \in Pictures(c) : f <= j
      /\ Pictures(c) \subseteq Nat
  <2>1. got[c] \in Seq(EntryType)
    BY DEF BaseInv, TypeOK, Watching
  <2>2. DOMAIN got[c] \subseteq Nat
    BY <2>1
  <2>. QED BY <1>3, <2>2 DEF OpensAt, Pictures, IsPicture
<1>5. FirstPicture(c) = f
  <2>1. FirstPicture(c) \in Pictures(c) /\ \A j \in Pictures(c) : FirstPicture(c) <= j
    BY <1>4 DEF FirstPicture
  <2>2. FirstPicture(c) <= f /\ f <= FirstPicture(c) /\ f \in Nat /\ FirstPicture(c) \in Nat
    BY <1>4, <2>1
  <2>. QED BY <2>2
<1>. QED BY <1>3, <1>5 DEF OpensAt

\* A consumer's OnMsg is called with a key frame before any other picture,
\* whether the key frame comes from the cache or live.
THEOREM StartsOnKeyFrameAlways == Spec => []StartsOnKeyFrame
<1>1. BaseInv /\ GotInv => StartsOnKeyFrame
  BY OpensOnKey DEF StartsOnKeyFrame, OpensAt
<1>. QED BY <1>1, GivenAlways, PTL

\* A consumer is never given a message twice or a message older than one it
\* has had, although the cache is replayed between live messages.
THEOREM InOrderOnceAlways == Spec => []InOrderOnce
<1>1. BaseInv /\ GotInv => InOrderOnce
  BY DEF InOrderOnce, GotInv, GivenOK, Rising, Sent
<1>. QED BY <1>1, GivenAlways, PTL

\* When GOPs are not cut, a consumer that is still in the map has been given
\* every frame from its first picture to the newest one between two messages.
THEOREM NoGapAlways == Spec => []NoGapWhileAttached
<1>1. ASSUME BaseInv, GotInv, SingleGopMaxFrameNum = 0, at = "live",
             NEW c \in Consumers, Pictures(c) # {},
             NEW p \in DOMAIN hist, Cache!IsFrame(hist[p]),
             hist[p].seq >= got[c][FirstPicture(c)].seq
      PROVE  hist[p].seq \in {got[c][i].seq :
                 i \in {j \in DOMAIN got[c] : got[c][j].via # "header"}}
  <2>1. c \in Watching /\ Current(c) /\ Shown(c) = hist
    BY <1>1 DEF Consumers, Watching, Current, Shown
  <2>2. hist[p].seq = p /\ IsFrame(hist[p])
    BY <1>1 DEF BaseInv, StreamInv, IsStream, IsFrame, Cache!IsFrame
  <2>3. Whole(got[c], hist, FirstPicture(c))
    BY <1>1, <2>1, OpensOnKey
  <2>4. PICK j \in DOMAIN got[c] : Sent(got[c][j]) /\ got[c][j].seq = p
    BY <1>1, <2>2, <2>3 DEF Whole
  <2>. QED BY <2>2, <2>4 DEF Sent
<1>2. BaseInv /\ GotInv => NoGapWhileAttached
  BY <1>1 DEF NoGapWhileAttached
<1>. QED BY <1>2, GivenAlways, PTL

LEMMA AnnouncedIs ==
  ASSUME NEW c, got[c] \in Seq(EntryType), NEW kind, NEW i \in DOMAIN got[c]
  PROVE  Announced(c, kind, i) = Latest(got[c], kind, i)
<1>. DEFINE A == {p \in 1 .. i - 1 : got[c][p].kind = kind}
            B == {p \in DOMAIN got[c] : p < i /\ got[c][p].kind = kind}
<1>1. A = B
  OBVIOUS
<1>2. Announced(c, kind, i) =
        IF A = {} THEN 0 ELSE got[c][CHOOSE p \in A : \A q \in A : q <= p].seq
  BY Zenon DEF Announced
<1>3. Latest(got[c], kind, i) =
        IF B = {} THEN 0 ELSE got[c][CHOOSE p \in B : \A q \in B : q <= p].seq
  BY Zenon DEF Latest
<1>. HIDE DEF A, B
<1>. QED BY <1>1, <1>2, <1>3

LEMMA InForceIs ==
  ASSUME hist \in Seq(Message), IsStream(hist), NEW kind, NEW n \in Nat
  PROVE  InForce(kind, n) = Latest(hist, kind, n)
<1>. DEFINE A == {p \in DOMAIN hist : hist[p].kind = kind /\ hist[p].seq < n}
            B == {p \in DOMAIN hist : p < n /\ hist[p].kind = kind}
<1>1. A = B
  BY DEF IsStream
<1>2. InForce(kind, n) =
        IF A = {} THEN 0 ELSE hist[CHOOSE p \in A : \A q \in A : q <= p].seq
  BY Zenon DEF InForce
<1>3. Latest(hist, kind, n) =
        IF B = {} THEN 0 ELSE hist[CHOOSE p \in B : \A q \in B : q <= p].seq
  BY Zenon DEF Latest
<1>. HIDE DEF A, B
<1>. QED BY <1>1, <1>2, <1>3

\* A decoder that has been given its first picture is never given a picture or
\* an AAC frame before the header it needs: a live frame comes after exactly
\* the header that was in force when it was published, a cached one after that
\* or a later one.  For streams with one audio codec: of a stream with AAC and
\* raw audio the cache may keep a raw frame in the place of the AAC header.
THEOREM HeadersInForceAlways ==
  ASSUME OneAudioCodec
  PROVE  Spec => []HeadersInForce
<1>1. ASSUME BaseInv, GotInv, NEW c \in Watching, Pictures(c) # {},
             NEW i \in FirstPicture(c) .. Len(got[c]),
             got[c][i].kind \in {"key", "inter", "aac"}
      PROVE  LET e == got[c][i]
                 announced == Announced(c, HeaderKind(e), i)
                 inForce   == InForce(HeaderKind(e), e.seq)
             IN  IF e.via = "live" THEN announced = inForce ELSE announced >= inForce
  <2>. DEFINE s == got[c]
              e == s[i]
              kind == HeaderKind(e)
  <2>1. /\ s \in Seq(EntryType) /\ hist \in Seq(Message) /\ IsStream(hist)
        /\ Drawn(s, Shown(c)) /\ Headed(s, Shown(c))
        /\ at = "OnMsg" => msg \in Message
    <3>1. s \in Seq(EntryType) /\ hist \in Seq(Message)
      BY <1>1, SameCache DEF BaseInv, TypeOK, G!TypeOK, Watching
    <3>. QED BY <1>1, <3>1 DEF BaseInv, StreamInv, WalkInv, GotInv, GivenOK
  <2>2. /\ FirstPicture(c) \in DOMAIN s /\ IsPicture(s[FirstPicture(c)])
        /\ i \in DOMAIN s /\ FirstPicture(c) <= i
    <3>1. FirstPicture(c) \in DOMAIN s /\ s[FirstPicture(c)].kind = "key"
      BY <1>1, OpensOnKey DEF OpensAt
    <3>. QED BY <1>1, <2>1, <3>1 DEF IsPicture
  <2>3. kind \in HeaderKinds
    BY DEF HeaderKind, HeaderKinds
  <2>. HIDE DEF s
  <2>4. IF e.via = "live"
        THEN Latest(s, kind, i) = Latest(Shown(c), kind, e.seq)
        ELSE Latest(s, kind, i) >= Latest(Shown(c), kind, e.seq)
    BY <1>1, <2>1, <2>2, <2>3 DEF Headed, s
  <2>5. e.seq \in Nat /\ Latest(Shown(c), kind, e.seq) = Latest(hist, kind, e.seq)
    <3>1. e.seq \in DOMAIN Shown(c)
      BY <2>1, <2>2 DEF Drawn
    <3>2. CASE Shown(c) = hist
      BY <2>1, <3>1, <3>2
    <3>3. CASE Shown(c) = Append(hist, msg) /\ msg \in Message
      <4>1. e.seq \in Nat /\ e.seq <= Len(hist) + 1
        BY <2>1, <3>1, <3>3
      <4>. HIDE DEF kind, e
      <4>. QED BY <2>1, <3>3, <4>1, LatestAppend
    <3>. QED BY <2>1, <3>2, <3>3 DEF Shown
  <2>6. Announced(c, kind, i) = Latest(s, kind, i)
    BY <2>1, <2>2, AnnouncedIs DEF s
  <2>7. InForce(kind, e.seq) = Latest(hist, kind, e.seq)
    <3>. HIDE DEF kind, e
    <3>. QED BY <2>1, <2>5, InForceIs
  <2>. QED BY <2>4, <2>5, <2>6, <2>7 DEF s
<1>2. BaseInv /\ GotInv => HeadersInForce
  BY <1>1 DEF HeadersInForce
<1>. QED BY <1>2, GivenAlways, PTL

=============================================================================
