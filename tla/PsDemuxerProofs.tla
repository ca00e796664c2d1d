---------------------------- MODULE PsDemuxerProofs ----------------------------
(***************************************************************************)
(* Proofs about the demuxer of a camera's program stream, for every camera *)
(* of PsDemuxer: whatever its frames look like, however many there are,    *)
(* and wherever its packets end.                                           *)
(*                                                                         *)
(* Reading comes first: the atoms that are under way, in the cache and in  *)
(* Input are the end of what was sent, in order, so that every unit is     *)
(* taken as a whole or is a pack header.  Then what the camera sends, and  *)
(* last what the demuxer makes of it.                                      *)
(***************************************************************************)
EXTENDS PsDemuxer, FiniteSetTheorems, WellFoundedInduction, TLAPS

-----------------------------------------------------------------------------
(***************************************************************************)
(* Atoms: the end of the stream.                                           *)
(***************************************************************************)

Atom == (Nat \ {0}) \X (1 .. 3)

\* s is the atoms of a stream up to number e.
Ends(s, e) ==
  /\ s \in Seq(Atom)
  /\ \A k \in DOMAIN s : 3 * (s[k][1] - 1) + s[k][2] = e - Len(s) + k

\* Nothing is the end of every stream; so is what is left of an end behind m atoms, the first
\* m of it end earlier, and two parts that meet are one.
LEMMA EndsEmpty ==
  ASSUME NEW e \in Int
  PROVE  Ends(<<>>, e)
BY DEF Ends

LEMMA EndsBack ==
  ASSUME NEW s, NEW e \in Int, Ends(s, e), NEW m \in 0 .. Len(s)
  PROVE  /\ Ends(SubSeq(s, m + 1, Len(s)), e)
         /\ Len(SubSeq(s, m + 1, Len(s))) = Len(s) - m
         /\ m < Len(s) => SubSeq(s, m + 1, Len(s))[1] = s[m + 1]
<1>. DEFINE n == Len(s)
            t == SubSeq(s, m + 1, n)
<1>1. s \in Seq(Atom) /\ n \in Nat /\ m \in Nat /\ m <= n
  BY DEF Ends
<1>2. t \in Seq(Atom) /\ Len(t) = n - m
  BY <1>1
<1>3. \A k \in 1 .. n - m : t[k] = s[m + k]
  BY <1>1
<1>4. ASSUME NEW k \in DOMAIN t
      PROVE  3 * (t[k][1] - 1) + t[k][2] = e - Len(t) + k
  <2>1. k \in 1 .. n - m /\ m + k \in DOMAIN s
    BY <1>1, <1>2
  <2>2. 3 * (s[m + k][1] - 1) + s[m + k][2] = e - n + (m + k)
    BY <2>1 DEF Ends
  <2>3. e - n + (m + k) = e - Len(t) + k
    BY <1>1, <1>2, <2>1
  <2>. QED BY <1>3, <2>1, <2>2, <2>3
<1>5. m < n => t[1] = s[m + 1]
  BY <1>1, <1>3
<1>. QED BY <1>2, <1>4, <1>5 DEF Ends

LEMMA EndsFront ==
  ASSUME NEW s, NEW e \in Int, Ends(s, e), NEW m \in 0 .. Len(s)
  PROVE  /\ Ends(SubSeq(s, 1, m), e - (Len(s) - m))
         /\ Len(SubSeq(s, 1, m)) = m
         /\ m > 0 => SubSeq(s, 1, m)[1] = s[1]
<1>. DEFINE n == Len(s)
            t == SubSeq(s, 1, m)
<1>1. s \in Seq(Atom) /\ n \in Nat /\ m \in Nat /\ m <= n
  BY DEF Ends
<1>2. t \in Seq(Atom) /\ Len(t) = m /\ \A k \in 1 .. m : t[k] = s[k]
  BY <1>1
<1>3. ASSUME NEW k \in DOMAIN t
      PROVE  3 * (t[k][1] - 1) + t[k][2] = (e - (n - m)) - Len(t) + k
  <2>1. k \in 1 .. m /\ k \in DOMAIN s
    BY <1>1, <1>2
  <2>2. 3 * (s[k][1] - 1) + s[k][2] = e - n + k
    BY <2>1 DEF Ends
  <2>3. e - n + k = (e - (n - m)) - Len(t) + k
    BY <1>1, <1>2, <2>1
  <2>. QED BY <1>2, <2>1, <2>2, <2>3
<1>. QED BY <1>2, <1>3 DEF Ends

LEMMA EndsJoined ==
  ASSUME NEW s, NEW t, NEW e \in Int, Ends(s, e - Len(t)), Ends(t, e)
  PROVE  /\ Ends(s \o t, e) /\ Len(s \o t) = Len(s) + Len(t)
         /\ s # <<>> => (s \o t)[1] = s[1]
         /\ s = <<>> => s \o t = t
<1>. DEFINE n == Len(s)
            m == Len(t)
            r == s \o t
<1>1. s \in Seq(Atom) /\ t \in Seq(Atom) /\ n \in Nat /\ m \in Nat
  BY DEF Ends
<1>2. /\ r \in Seq(Atom) /\ Len(r) = n + m
      /\ \A k \in 1 .. n + m : r[k] = IF k <= n THEN s[k] ELSE t[k - n]
  BY <1>1
<1>3. ASSUME NEW k \in DOMAIN r
      PROVE  3 * (r[k][1] - 1) + r[k][2] = e - Len(r) + k
  <2>1. k \in 1 .. n + m
    BY <1>1, <1>2
  <2>2. CASE k <= n
    <3>1. k \in DOMAIN s /\ r[k] = s[k]
      BY <1>1, <1>2, <2>1, <2>2
    <3>2. 3 * (s[k][1] - 1) + s[k][2] = (e - m) - n + k
      BY <3>1 DEF Ends
    <3>. QED BY <1>1, <1>2, <2>1, <3>1, <3>2
  <2>3. CASE n < k
    <3>1. k - n \in DOMAIN t /\ r[k] = t[k - n]
      BY <1>1, <1>2, <2>1, <2>3
    <3>2. 3 * (t[k - n][1] - 1) + t[k - n][2] = e - m + (k - n)
      BY <3>1 DEF Ends
    <3>. QED BY <1>1, <1>2, <2>1, <3>1, <3>2
  <2>. QED BY <1>1, <2>1, <2>2, <2>3
<1>4. s # <<>> => r[1] = s[1]
  BY <1>1, <1>2
<1>5. s = <<>> => r = t
  BY <1>1
<1>. QED BY <1>2, <1>3, <1>4, <1>5 DEF Ends

\* The atoms of the next unit.
LEMMA EndsUnit ==
  ASSUME NEW n \in Nat \ {0}
  PROVE  /\ Ends([i \in 1 .. 3 |-> <<n, i>>], 3 * n)
         /\ Len([i \in 1 .. 3 |-> <<n, i>>]) = 3
<1>. DEFINE s == [i \in 1 .. 3 |-> <<n, i>>]
<1>1. s \in Seq(Atom) /\ Len(s) = 3
  BY DEF Atom
<1>2. \A k \in DOMAIN s : 3 * (s[k][1] - 1) + s[k][2] = 3 * n - Len(s) + k
  BY <1>1
<1>. QED BY <1>1, <1>2 DEF Ends

\* Which unit an atom belongs to, and the next one.
LEMMA AtomAt ==
  ASSUME NEW s, NEW e \in Int, Ends(s, e), NEW k \in 1 .. Len(s)
  PROVE  /\ s[k] \in Atom /\ s[k] = <<s[k][1], s[k][2]>>
         /\ s[k][1] \in Nat \ {0} /\ s[k][2] \in 1 .. 3
         /\ 3 * (s[k][1] - 1) + s[k][2] = e - Len(s) + k
<1>1. s \in Seq(Atom) /\ k \in DOMAIN s
  BY DEF Ends
<1>2. s[k] \in Atom
  BY <1>1
<1>. QED BY <1>1, <1>2 DEF Ends, Atom

\* The same as one fact.
AtomAtPlace(s, e, k) ==
  /\ s[k] \in Atom /\ s[k] = <<s[k][1], s[k][2]>>
  /\ s[k][1] \in Nat \ {0} /\ s[k][2] \in 1 .. 3
  /\ 3 * (s[k][1] - 1) + s[k][2] = e - Len(s) + k

LEMMA AtomPlace ==
  ASSUME NEW s, NEW e \in Int, Ends(s, e), NEW k \in 1 .. Len(s)
  PROVE  AtomAtPlace(s, e, k)
BY AtomAt DEF AtomAtPlace

-----------------------------------------------------------------------------
(***************************************************************************)
(* Reading.                                                                *)
(***************************************************************************)

Token == [frame : Nat, n : Nat, type : {"aud", "sps", "pps", "idr", "p"}, head : BOOLEAN]

UnitType ==
  [kind : {"pack", "psm", "passed"} \cup Streams, pts : Nat \cup {NoPts}, data : Seq(Token),
   time : Nat]

\* What Input has to read before the packets under way.
Ahead == IF busy THEN bs ELSE cache

\* How many atoms were read.
Pos == 3 * Len(units) - Len(wire) - Len(Ahead)

\* What is ahead ends where the packets under way begin, and it begins with a unit or in a
\* pack header.
ReaderInv ==
  /\ units \in Seq(UnitType)
  /\ busy \in BOOLEAN
  /\ Ends(wire, 3 * Len(units))
  /\ Ends(Ahead, 3 * Len(units) - Len(wire))
  /\ \A k \in DOMAIN cache : cache[k] \in (DOMAIN units) \X (1 .. 3)
  /\ ~busy => /\ bs = <<>> /\ Len(cache) < 3
              /\ \A k \in DOMAIN cache : cache[k][1] = cache[1][1]
  /\ Ahead = <<>> => \E m \in Nat : 3 * Len(units) - Len(wire) = 3 * m
  /\ Ahead # <<>> /\ Ahead[1][2] # 1 => units[Ahead[1][1]].kind = "pack"

\* An atom of what is ahead is of a unit that was sent.
LEMMA AtomSent ==
  ASSUME NEW s, NEW n \in Nat, NEW e \in Int, Ends(s, e), e <= 3 * n
  PROVE  \A k \in DOMAIN s : s[k] \in (1 .. n) \X (1 .. 3)
<1>. SUFFICES ASSUME NEW k \in DOMAIN s
              PROVE  s[k] \in (1 .. n) \X (1 .. 3)
  OBVIOUS
<1>1. s \in Seq(Atom) /\ Len(s) \in Nat /\ k \in 1 .. Len(s)
  BY DEF Ends
<1>2. /\ s[k] = <<s[k][1], s[k][2]>>
      /\ s[k][1] \in Nat \ {0} /\ s[k][2] \in 1 .. 3
      /\ 3 * (s[k][1] - 1) + s[k][2] = e - Len(s) + k
  <2>1. k \in 1 .. Len(s)
    BY <1>1
  <2>2. AtomAtPlace(s, e, k)
    BY ONLY <2>1, Ends(s, e), e \in Int, AtomPlace
  <2>. QED BY ONLY <2>2, Zenon DEF AtomAtPlace
<1>3. s[k][1] <= n
  <2>. DEFINE a == s[k][1]
              b == s[k][2]
              l == Len(s)
  <2>1. /\ a \in Nat /\ b \in 1 .. 3 /\ l \in Nat /\ k \in 1 .. l
        /\ 3 * (a - 1) + b = e - l + k /\ e \in Int /\ e <= 3 * n /\ n \in Nat
    BY <1>1, <1>2
  <2>. HIDE DEF a, b, l
  <2>2. a <= n
    BY ONLY <2>1
  <2>. QED BY <2>2 DEF a
<1>. QED BY <1>2, <1>3

\* The types of what is under way and ahead.
LEMMA ReaderFacts ==
  ASSUME ReaderInv
  PROVE  /\ Len(units) \in Nat /\ DOMAIN units = 1 .. Len(units)
         /\ wire \in Seq(Atom) /\ Len(wire) \in Nat
         /\ Ahead \in Seq(Atom) /\ Len(Ahead) \in Nat
         /\ \A k \in DOMAIN wire : wire[k] \in (DOMAIN units) \X (1 .. 3)
         /\ \A k \in DOMAIN Ahead : Ahead[k] \in (DOMAIN units) \X (1 .. 3)
<1>1. /\ Len(units) \in Nat /\ DOMAIN units = 1 .. Len(units)
      /\ wire \in Seq(Atom) /\ Len(wire) \in Nat
      /\ Ahead \in Seq(Atom) /\ Len(Ahead) \in Nat
  BY DEF ReaderInv, Ends
<1>. DEFINE n == Len(units)
            e == 3 * n - Len(wire)
<1>2. n \in Nat /\ 3 * n \in Int /\ e \in Int /\ 3 * n <= 3 * n /\ e <= 3 * n
  BY <1>1
<1>3. Ends(wire, 3 * n) /\ Ends(Ahead, e)
  BY DEF ReaderInv
<1>4. \A k \in DOMAIN wire : wire[k] \in (1 .. n) \X (1 .. 3)
  <2>. HIDE DEF n, e
  <2>. QED BY <1>2, <1>3, AtomSent
<1>5. \A k \in DOMAIN Ahead : Ahead[k] \in (1 .. n) \X (1 .. 3)
  <2>. HIDE DEF n, e
  <2>. QED BY <1>2, <1>3, AtomSent
<1>. QED BY <1>1, <1>4, <1>5

LEMMA ReaderInit == Init => ReaderInv
<1>. SUFFICES ASSUME Init PROVE ReaderInv
  OBVIOUS
<1>1. units \in Seq(UnitType) /\ Len(units) = 1
  BY DEF Init, UnitType, NoPts
<1>2. wire = [i \in 1 .. 3 |-> <<1, i>>]
  BY DEF Init
<1>3. Ends(wire, 3) /\ Len(wire) = 3
  <2>1. 1 \in Nat \ {0} /\ 3 * 1 = 3
    OBVIOUS
  <2>. QED BY <1>2, <2>1, EndsUnit
<1>4. Ahead = <<>> /\ cache = <<>> /\ bs = <<>> /\ busy = FALSE
  BY DEF Init, Ahead
<1>5. Ends(Ahead, 0)
  BY <1>4, EndsEmpty
<1>6. 3 * Len(units) = 3 /\ 3 * Len(units) - Len(wire) = 3 * 0
  BY <1>1, <1>3
<1>7. \E m \in Nat : 3 * Len(units) - Len(wire) = 3 * m
  BY <1>6
<1>8. 3 * Len(units) - Len(wire) = 0
  BY <1>6
<1>9. Ends(wire, 3 * Len(units)) /\ Ends(Ahead, 3 * Len(units) - Len(wire))
  BY <1>3, <1>5, <1>6, <1>8
<1>10. Len(cache) = 0 /\ DOMAIN cache = {}
  BY <1>4
<1>11. busy \in BOOLEAN
  BY <1>4
<1>13. Len(cache) < 3
  BY <1>10
<1>12. \A k \in DOMAIN cache : cache[k] \in (DOMAIN units) \X (1 .. 3) /\ cache[k][1] = cache[1][1]
  BY <1>10
<1>. QED BY Zenon, <1>1, <1>4, <1>7, <1>9, <1>11, <1>12, <1>13 DEF ReaderInv

\* The camera sends a unit.
LEMMA ReaderSend ==
  ASSUME ReaderInv, NEW u \in UnitType, ~busy, units' = Append(units, u),
         wire' = wire \o [i \in 1 .. 3 |-> <<Len(units) + 1, i>>], UNCHANGED reader
  PROVE  ReaderInv' /\ Pos' = Pos /\ Ahead' = Ahead
<1>. DEFINE n == Len(units)
            e == 3 * (n + 1)
            new == [i \in 1 .. 3 |-> <<n + 1, i>>]
<1>1. /\ n \in Nat /\ units' \in Seq(UnitType) /\ Len(units') = n + 1
      /\ \A k \in 1 .. n : units'[k] = units[k]
  BY DEF ReaderInv
<1>2. Ends(new, e) /\ Len(new) = 3
  <2>1. n + 1 \in Nat \ {0}
    BY <1>1
  <2>. DEFINE m == n + 1
  <2>2. Ends([i \in 1 .. 3 |-> <<m, i>>], 3 * m) /\ Len([i \in 1 .. 3 |-> <<m, i>>]) = 3
    <3>. HIDE DEF m
    <3>1. m \in Nat \ {0}
      BY <2>1 DEF m
    <3>. QED BY <3>1, EndsUnit
  <2>. QED BY <2>2
<1>3. Ends(wire, e - Len(new))
  <2>1. e - Len(new) = 3 * n
    BY <1>1, <1>2
  <2>. QED BY <2>1 DEF ReaderInv
<1>4. Ends(wire', e) /\ Len(wire') = Len(wire) + 3
  <2>1. wire' = wire \o new
    OBVIOUS
  <2>2. e \in Int
    BY <1>1
  <2>. HIDE DEF new, e
  <2>3. Ends(wire \o new, e) /\ Len(wire \o new) = Len(wire) + Len(new)
    BY <1>2, <1>3, <2>2, EndsJoined
  <2>. QED BY <1>2, <2>1, <2>3
<1>5. /\ UNCHANGED <<cache, bs, busy>> /\ Ahead' = Ahead
  BY DEF reader, Ahead
<1>6. Len(wire) \in Nat /\ Len(Ahead) \in Nat
  BY ReaderFacts
<1>7. 3 * Len(units') - Len(wire') = 3 * n - Len(wire)
  BY <1>1, <1>4, <1>6
<1>8. Ends(Ahead', 3 * Len(units') - Len(wire'))
  BY <1>5, <1>7 DEF ReaderInv
<1>9. DOMAIN units \subseteq DOMAIN units'
  BY <1>1 DEF ReaderInv
<1>10. \A k \in DOMAIN cache' : cache'[k] \in (DOMAIN units') \X (1 .. 3)
  BY <1>5, <1>9 DEF ReaderInv
<1>11. Ahead' # <<>> /\ Ahead'[1][2] # 1 => units'[Ahead'[1][1]].kind = "pack"
  <2>1. Ahead # <<>> => Ahead[1][1] \in 1 .. n
    BY ReaderFacts
  <2>. QED BY <1>1, <1>5, <2>1 DEF ReaderInv
<1>12. Pos' = Pos
  BY <1>5, <1>7 DEF Pos
<1>13. Ends(wire', 3 * Len(units'))
  BY <1>1, <1>4
<1>. QED BY <1>1, <1>5, <1>7, <1>8, <1>10, <1>11, <1>12, <1>13 DEF ReaderInv

-----------------------------------------------------------------------------
(* The steps of the reader. *)

\* What a step leaves to be read.
LEMMA ReaderStep ==
  ASSUME ReaderInv, UNCHANGED <<units, wire>>, busy' \in BOOLEAN,
         Ends(Ahead', 3 * Len(units) - Len(wire)),
         \A k \in DOMAIN cache' : cache'[k] \in (DOMAIN units) \X (1 .. 3),
         ~busy' => /\ bs' = <<>> /\ Len(cache') < 3
                   /\ \A k \in DOMAIN cache' : cache'[k][1] = cache'[1][1],
         Ahead' = <<>> => \E m \in Nat : 3 * Len(units) - Len(wire) = 3 * m,
         Ahead' # <<>> /\ Ahead'[1][2] # 1 => units[Ahead'[1][1]].kind = "pack"
  PROVE  ReaderInv'
BY DEF ReaderInv

\* The type of Pos.
LEMMA PosType ==
  ASSUME ReaderInv
  PROVE  Pos \in Int /\ Pos <= 3 * Len(units)
BY ReaderFacts DEF Pos

\* The first atom of what is ahead, and how many there are.
LEMMA FirstAhead ==
  ASSUME ReaderInv, Ahead # <<>>
  PROVE  /\ Ahead[1] = <<Ahead[1][1], Ahead[1][2]>>
         /\ Ahead[1][1] \in DOMAIN units /\ Ahead[1][2] \in 1 .. 3
         /\ Pos = 3 * (Ahead[1][1] - 1) + Ahead[1][2] - 1
         /\ 3 * Len(units) - Len(wire) = Pos + Len(Ahead)
<1>. DEFINE e == 3 * Len(units) - Len(wire)
<1>1. /\ Len(units) \in Nat /\ Len(wire) \in Nat /\ Ahead \in Seq(Atom) /\ Len(Ahead) \in Nat
      /\ DOMAIN units = 1 .. Len(units)
      /\ Ahead[1] \in (DOMAIN units) \X (1 .. 3)
  BY ReaderFacts
<1>2. e \in Int /\ 1 \in 1 .. Len(Ahead)
  BY <1>1
<1>3. Ends(Ahead, e)
  BY DEF ReaderInv
<1>4. 3 * (Ahead[1][1] - 1) + Ahead[1][2] = e - Len(Ahead) + 1
  <2>. HIDE DEF e
  <2>. QED BY <1>2, <1>3, AtomAt
<1>5. Ahead[1][1] \in 1 .. Len(units) /\ Ahead[1][2] \in 1 .. 3
  BY <1>1
<1>6. Pos = e - Len(Ahead)
  BY <1>1 DEF Pos
<1>7. Ahead[1] = <<Ahead[1][1], Ahead[1][2]>>
  BY ONLY <1>1
<1>8. Pos = 3 * (Ahead[1][1] - 1) + Ahead[1][2] - 1 /\ e = Pos + Len(Ahead)
  <2>. DEFINE a == Ahead[1][1]
              b == Ahead[1][2]
              l == Len(Ahead)
  <2>1. /\ a \in Nat /\ b \in Nat /\ l \in Nat /\ e \in Int
        /\ 3 * (a - 1) + b = e - l + 1 /\ Pos = e - l
    BY <1>1, <1>2, <1>4, <1>5, <1>6
  <2>. HIDE DEF a, b, l, e
  <2>2. Pos = 3 * (a - 1) + b - 1 /\ e = Pos + l
    BY ONLY <2>1
  <2>. QED BY <2>2 DEF a, b, l
<1>. QED BY <1>1, <1>5, <1>7, <1>8

\* An atom that is not the last of its unit is followed by the next of the same unit; the last
\* by the first of another.
LEMMA SecondAhead ==
  ASSUME NEW s, NEW e \in Int, Ends(s, e), NEW k \in 1 .. Len(s) - 1
  PROVE  /\ s[k][2] < 3 => s[k + 1][1] = s[k][1] /\ s[k + 1][2] = s[k][2] + 1
         /\ s[k][2] = 3 => s[k + 1][2] = 1
<1>1. Len(s) \in Nat /\ k \in 1 .. Len(s) /\ k + 1 \in 1 .. Len(s)
  BY DEF Ends
<1>2. /\ s[k][1] \in Nat \ {0} /\ s[k][2] \in 1 .. 3
      /\ 3 * (s[k][1] - 1) + s[k][2] = e - Len(s) + k
  BY <1>1, AtomAt
<1>3. /\ s[k + 1][1] \in Nat \ {0} /\ s[k + 1][2] \in 1 .. 3
      /\ 3 * (s[k + 1][1] - 1) + s[k + 1][2] = e - Len(s) + (k + 1)
  BY <1>1, AtomAt
<1>. DEFINE a == s[k][1]
            b == s[k][2]
            c == s[k + 1][1]
            d == s[k + 1][2]
            f == e - Len(s) + k
<1>4. f \in Int /\ e - Len(s) + (k + 1) = f + 1
  BY <1>1
<1>5. a \in Nat /\ b \in 1 .. 3 /\ 3 * (a - 1) + b = f
  BY <1>2
<1>6. c \in Nat /\ d \in 1 .. 3 /\ 3 * (c - 1) + d = f + 1
  BY <1>3, <1>4
<1>7. (b < 3 => c = a /\ d = b + 1) /\ (b = 3 => d = 1)
  <2>. HIDE DEF a, b, c, d, f
  <2>. QED BY <1>4, <1>5, <1>6
<1>. QED BY <1>7

\* The type of such a part.
LEMMA EndsSeq ==
  ASSUME NEW s, NEW e, Ends(s, e)
  PROVE  /\ s \in Seq(Atom) /\ Len(s) \in Nat /\ DOMAIN s = 1 .. Len(s)
         /\ s = <<>> <=> Len(s) = 0
BY DEF Ends

\* What is left behind the first m atoms.
LEMMA DropAhead ==
  ASSUME ReaderInv, busy, NEW m \in 0 .. Len(bs)
  PROVE  /\ Ends(SubSeq(bs, m + 1, Len(bs)), 3 * Len(units) - Len(wire))
         /\ Len(SubSeq(bs, m + 1, Len(bs))) = Len(bs) - m
         /\ m < Len(bs) => SubSeq(bs, m + 1, Len(bs))[1] = bs[m + 1]
<1>. DEFINE e == 3 * Len(units) - Len(wire)
<1>1. e \in Int
  BY ReaderFacts
<1>2. Ends(bs, e)
  BY DEF ReaderInv, Ahead
<1>3. /\ Ends(SubSeq(bs, m + 1, Len(bs)), e)
      /\ Len(SubSeq(bs, m + 1, Len(bs))) = Len(bs) - m
      /\ m < Len(bs) => SubSeq(bs, m + 1, Len(bs))[1] = bs[m + 1]
  <2>. HIDE DEF e
  <2>. QED BY <1>1, <1>2, EndsBack
<1>. QED BY <1>3

\* The atoms of the first unit that are there.
LEMMA FirstUnit ==
  ASSUME ReaderInv, busy, NEW k \in 1 .. Len(bs) - 1
  PROVE  /\ bs[k][2] < 3 => bs[k + 1][1] = bs[k][1] /\ bs[k + 1][2] = bs[k][2] + 1
         /\ bs[k][2] = 3 => bs[k + 1][2] = 1
<1>. DEFINE e == 3 * Len(units) - Len(wire)
<1>1. e \in Int
  BY ReaderFacts
<1>2. Ends(bs, e)
  BY DEF ReaderInv, Ahead
<1>. HIDE DEF e
<1>. QED BY <1>1, <1>2, SecondAhead

\* A unit is read as a whole.
LEMMA ReaderUnit ==
  ASSUME ReaderInv, Unit
  PROVE  /\ ReaderInv' /\ bs[1][1] \in DOMAIN units
         /\ Pos = 3 * (bs[1][1] - 1) /\ Pos' = Pos + 3
<1>1. /\ busy /\ busy' = busy /\ bs # <<>> /\ bs[1][2] = 1 /\ Len(bs) >= 3
      /\ bs' = SubSeq(bs, 4, Len(bs)) /\ UNCHANGED <<units, wire, cache>>
  BY DEF Unit, AtUnit, camera
<1>2. Ahead = bs /\ Ahead' = bs'
  BY <1>1 DEF Ahead
<1>3. /\ Len(bs) \in Nat /\ Len(units) \in Nat /\ Len(wire) \in Nat
      /\ \A k \in DOMAIN cache : cache[k] \in (DOMAIN units) \X (1 .. 3)
      /\ busy \in BOOLEAN
  BY <1>2, ReaderFacts DEF ReaderInv
<1>4. /\ bs[1][1] \in 1 .. Len(units) /\ Pos = 3 * (bs[1][1] - 1)
      /\ 3 * Len(units) - Len(wire) = Pos + Len(bs)
  <2>1. /\ bs[1][1] \in DOMAIN units
        /\ Pos = 3 * (bs[1][1] - 1) + bs[1][2] - 1
        /\ 3 * Len(units) - Len(wire) = Pos + Len(bs)
    BY <1>1, <1>2, FirstAhead
  <2>. QED BY <1>1, <2>1, ReaderFacts
<1>5. /\ Ends(bs', 3 * Len(units) - Len(wire))
      /\ Len(bs') = Len(bs) - 3
      /\ 3 < Len(bs) => bs'[1] = bs[4]
  <2>. DEFINE m == 3
  <2>1. m \in 0 .. Len(bs) /\ m + 1 = 4 /\ m = 3
    BY <1>1, <1>3
  <2>2. bs' = SubSeq(bs, m + 1, Len(bs))
    BY <1>1
  <2>. HIDE DEF m
  <2>3. /\ Ends(SubSeq(bs, m + 1, Len(bs)), 3 * Len(units) - Len(wire))
        /\ Len(SubSeq(bs, m + 1, Len(bs))) = Len(bs) - m
        /\ m < Len(bs) => SubSeq(bs, m + 1, Len(bs))[1] = bs[m + 1]
    BY <1>1, <2>1, DropAhead
  <2>. QED BY <2>1, <2>2, <2>3
<1>6. ASSUME 3 < Len(bs) PROVE bs[4][2] = 1
  <2>1. 1 \in 1 .. Len(bs) - 1 /\ 2 \in 1 .. Len(bs) - 1 /\ 3 \in 1 .. Len(bs) - 1
    BY <1>3, <1>6
  <2>2. bs[2][2] = 2
    BY <1>1, <2>1, FirstUnit
  <2>3. bs[3][2] = 3
    BY <1>1, <2>1, <2>2, FirstUnit
  <2>. QED BY <1>1, <2>1, <2>3, FirstUnit
<1>7. ASSUME bs' = <<>>
      PROVE  \E m \in Nat : 3 * Len(units) - Len(wire) = 3 * m
  <2>1. Len(bs) = 3
    BY <1>3, <1>5, <1>7, EndsSeq
  <2>2. 3 * Len(units) - Len(wire) = 3 * bs[1][1] /\ bs[1][1] \in Nat
    BY <1>3, <1>4, <2>1
  <2>. QED BY <2>2
<1>8. bs' # <<>> => bs'[1][2] = 1
  <2>1. bs' # <<>> => 3 < Len(bs)
    BY <1>3, <1>5, EndsSeq
  <2>. QED BY <1>5, <1>6, <2>1
<1>9. Pos' = Pos + 3
  <2>1. Len(units') = Len(units) /\ Len(wire') = Len(wire)
    BY <1>1
  <2>2. Len(Ahead') = Len(bs) - 3 /\ Len(Ahead) = Len(bs)
    BY <1>2, <1>5
  <2>. QED BY <1>3, <2>1, <2>2 DEF Pos
<1>10. ReaderInv'
  BY <1>1, <1>2, <1>3, <1>5, <1>7, <1>8, ReaderStep
<1>. QED BY <1>3, <1>4, <1>9, <1>10, ReaderFacts

\* Only bytes of a pack header are passed over.
LEMMA ReaderSkip ==
  ASSUME ReaderInv, Skip
  PROVE  /\ ReaderInv' /\ Pos' = Pos + 1
         /\ bs[1][1] \in DOMAIN units /\ units[bs[1][1]].kind = "pack"
         /\ Pos = 3 * (bs[1][1] - 1) + bs[1][2] - 1 /\ bs[1][2] \in {2, 3}
<1>1. /\ busy /\ busy' = busy /\ bs # <<>> /\ bs[1][2] # 1 /\ Len(bs) > 1
      /\ bs' = Tail(bs) /\ UNCHANGED <<units, wire, cache>>
  BY DEF Skip, AtUnit, camera
<1>2. Ahead = bs /\ Ahead' = bs'
  BY <1>1 DEF Ahead
<1>3. /\ Len(bs) \in Nat /\ Len(units) \in Nat /\ Len(wire) \in Nat
      /\ \A k \in DOMAIN cache : cache[k] \in (DOMAIN units) \X (1 .. 3)
      /\ busy \in BOOLEAN
  BY <1>2, ReaderFacts DEF ReaderInv
<1>4. /\ bs[1][1] \in DOMAIN units /\ bs[1][2] \in {2, 3}
      /\ Pos = 3 * (bs[1][1] - 1) + bs[1][2] - 1
  BY <1>1, <1>2, FirstAhead
<1>5. units[bs[1][1]].kind = "pack"
  BY <1>1, <1>2 DEF ReaderInv
<1>6. /\ Ends(bs', 3 * Len(units) - Len(wire))
      /\ Len(bs') = Len(bs) - 1 /\ bs'[1] = bs[2]
  <2>. DEFINE m == 1
  <2>1. bs \in Seq(Atom)
    BY <1>2, ReaderFacts
  <2>2. bs' = SubSeq(bs, m + 1, Len(bs))
    BY <1>1, <1>3, <2>1
  <2>3. m \in 0 .. Len(bs) /\ m + 1 = 2 /\ m = 1 /\ m < Len(bs)
    BY <1>1, <1>3
  <2>. HIDE DEF m
  <2>4. /\ Ends(SubSeq(bs, m + 1, Len(bs)), 3 * Len(units) - Len(wire))
        /\ Len(SubSeq(bs, m + 1, Len(bs))) = Len(bs) - m
        /\ m < Len(bs) => SubSeq(bs, m + 1, Len(bs))[1] = bs[m + 1]
    BY <1>1, <2>3, DropAhead
  <2>. QED BY <2>2, <2>3, <2>4
<1>7. bs[2][2] # 1 => bs[2][1] = bs[1][1]
  <2>1. 1 \in 1 .. Len(bs) - 1
    BY <1>1, <1>3
  <2>. QED BY <1>1, <1>4, <2>1, FirstUnit
<1>8. bs' # <<>>
  <2>1. Len(bs') # 0
    BY <1>1, <1>3, <1>6
  <2>. QED BY <1>6, <2>1, EndsSeq
<1>9. Pos' = Pos + 1
  BY <1>1, <1>2, <1>3, <1>6 DEF Pos
<1>10. ReaderInv'
  BY <1>1, <1>2, <1>3, <1>5, <1>6, <1>7, <1>8, ReaderStep
<1>. QED BY <1>4, <1>5, <1>9, <1>10

\* What is kept for the next packet is a part of one unit; of a pack header its start code
\* is gone.
LEMMA ReaderNeedMore ==
  ASSUME ReaderInv, NeedMore
  PROVE  /\ ReaderInv'
         /\ \/ Pos' = Pos
            \/ /\ Pos' = Pos + 1 /\ Pos = 3 * (bs[1][1] - 1)
               /\ bs[1][1] \in DOMAIN units /\ units[bs[1][1]].kind = "pack"
<1>1. /\ busy /\ ~busy' /\ busy' = FALSE /\ bs # <<>> /\ bs' = <<>>
      /\ UNCHANGED <<units, wire>>
      /\ bs[1][2] = 1 => Len(bs) < 3
      /\ bs[1][2] # 1 => Len(bs) = 1
      /\ cache' = Unread
  BY DEF NeedMore, AtUnit, camera
<1>2. Ahead = bs /\ Ahead' = cache'
  BY <1>1 DEF Ahead
<1>3. /\ bs \in Seq(Atom) /\ Len(bs) \in Nat /\ Len(units) \in Nat /\ Len(wire) \in Nat
      /\ \A k \in DOMAIN bs : bs[k] \in (DOMAIN units) \X (1 .. 3)
  BY <1>2, ReaderFacts
<1>4. /\ bs[1][1] \in DOMAIN units
      /\ Pos = 3 * (bs[1][1] - 1) + bs[1][2] - 1
      /\ 3 * Len(units) - Len(wire) = Pos + Len(bs)
  BY <1>1, <1>2, FirstAhead
<1>5. Len(bs) \in {1, 2} /\ DOMAIN bs = 1 .. Len(bs)
  <2>1. Len(bs) > 0
    BY <1>1, <1>3
  <2>2. Len(bs) < 3
    BY <1>1, <1>3
  <2>3. DOMAIN bs = 1 .. Len(bs)
    BY <1>3
  <2>4. Len(bs) \in {1, 2}
    <3>. DEFINE m == Len(bs)
    <3>1. m \in Nat /\ m > 0 /\ m < 3
      BY <1>3, <2>1, <2>2
    <3>2. m = 1 \/ m = 2
      <4>. HIDE DEF m
      <4>. QED BY <3>1
    <3>. QED BY <3>2
  <2>. QED BY <2>3, <2>4
<1>6. ASSUME Len(bs) = 2
      PROVE  bs[1][2] = 1 /\ bs[2][1] = bs[1][1]
  <2>1. 1 \in 1 .. Len(bs) - 1 /\ bs[1][2] = 1
    BY <1>1, <1>6
  <2>. QED BY <1>1, <2>1, FirstUnit
<1>7. CASE cache' = bs
  <2>1. \A k \in DOMAIN cache' : cache'[k][1] = cache'[1][1]
    BY <1>5, <1>6, <1>7
  <2>2. Ends(Ahead', 3 * Len(units) - Len(wire))
    BY <1>2, <1>7 DEF ReaderInv
  <2>3. ReaderInv'
    <3>1. /\ \A k \in DOMAIN cache' : cache'[k] \in (DOMAIN units) \X (1 .. 3)
          /\ busy' \in BOOLEAN
      BY <1>1, <1>3, <1>7
    <3>2. Ahead' # <<>> /\ Len(cache') < 3
      BY <1>1, <1>2, <1>5, <1>7
    <3>3. Ahead'[1][2] # 1 => units[Ahead'[1][1]].kind = "pack"
      BY <1>1, <1>2, <1>7 DEF ReaderInv
    <3>. QED BY <1>1, <2>1, <2>2, <3>1, <3>2, <3>3, ReaderStep
  <2>4. Pos' = Pos
    BY <1>1, <1>2, <1>7 DEF Pos
  <2>. QED BY <2>3, <2>4
<1>8. CASE cache' # bs
  <2>1. /\ bs[1][2] = 1 /\ units[bs[1][1]].kind = "pack" /\ Len(bs) = 2
        /\ cache' = Tail(bs)
    <3>1. bs[1][2] = 1 /\ units[bs[1][1]].kind = "pack" /\ Len(bs) > 1
      BY <1>1, <1>8 DEF Unread, AtUnit
    <3>2. cache' = Tail(bs)
      BY <1>1, <1>8 DEF Unread, AtUnit
    <3>3. Len(bs) = 2
      BY <1>5, <3>1
    <3>. QED BY <3>1, <3>2, <3>3
  <2>2. /\ Ends(cache', 3 * Len(units) - Len(wire))
        /\ Len(cache') = 1 /\ cache'[1] = bs[2]
    <3>. DEFINE m == 1
    <3>1. cache' = SubSeq(bs, m + 1, Len(bs))
      BY <1>3, <2>1
    <3>2. m \in 0 .. Len(bs) /\ m + 1 = 2 /\ m = 1 /\ m < Len(bs)
      BY <2>1
    <3>. HIDE DEF m
    <3>3. /\ Ends(SubSeq(bs, m + 1, Len(bs)), 3 * Len(units) - Len(wire))
          /\ Len(SubSeq(bs, m + 1, Len(bs))) = Len(bs) - m
          /\ m < Len(bs) => SubSeq(bs, m + 1, Len(bs))[1] = bs[m + 1]
      BY <1>1, <3>2, DropAhead
    <3>4. Len(bs) - m = 1
      BY <2>1, <3>2
    <3>5. Ends(cache', 3 * Len(units) - Len(wire)) /\ Len(cache') = 1
      BY <3>1, <3>3, <3>4
    <3>6. cache'[1] = bs[2]
      BY <3>1, <3>2, <3>3
    <3>. QED BY <3>5, <3>6
  <2>3. DOMAIN cache' = {1}
    BY <2>2 DEF Ends
  <2>4. /\ \A k \in DOMAIN cache' : cache'[k] \in (DOMAIN units) \X (1 .. 3)
        /\ \A k \in DOMAIN cache' : cache'[k][1] = cache'[1][1]
        /\ cache' # <<>> /\ Len(cache') < 3
    <3>1. 2 \in DOMAIN bs
      BY <1>5, <2>1
    <3>2. cache'[1] \in (DOMAIN units) \X (1 .. 3)
      BY <1>3, <2>2, <3>1
    <3>3. cache' # <<>> /\ Len(cache') < 3
      BY <2>2, EndsSeq
    <3>. QED BY <2>3, <3>2, <3>3
  <2>5. ReaderInv'
    BY <1>1, <1>2, <1>6, <2>1, <2>2, <2>4, ReaderStep
  <2>6. Pos' = Pos + 1 /\ Pos = 3 * (bs[1][1] - 1)
    <3>1. Pos' = 3 * Len(units) - Len(wire) - 1
      BY <1>1, <1>2, <2>2 DEF Pos
    <3>2. Pos' = Pos + 1
      <4>. DEFINE e == 3 * Len(units) - Len(wire)
      <4>1. e = Pos + 2 /\ Pos' = e - 1 /\ e \in Int /\ Pos = e - 2
        <5>1. e \in Int
          BY ONLY <1>3
        <5>2. e = Pos + 2 /\ Pos \in Int
          BY <1>4, <2>1, PosType
        <5>. HIDE DEF e
        <5>3. Pos = e - 2
          BY ONLY <5>1, <5>2
        <5>. QED BY <3>1, <5>1, <5>2, <5>3 DEF e
      <4>. HIDE DEF e
      <4>. QED BY ONLY <4>1
    <3>3. Pos = 3 * (bs[1][1] - 1)
      BY <1>3, <1>4, <2>1, ReaderFacts
    <3>. QED BY <3>2, <3>3
  <2>. QED BY <1>4, <2>1, <2>5, <2>6
<1>. QED BY <1>7, <1>8

\* Input ends behind a unit, with nothing to keep.
LEMMA ReaderEndInput ==
  ASSUME ReaderInv, EndInput
  PROVE  ReaderInv' /\ Pos' = Pos
<1>1. /\ busy /\ busy' = FALSE /\ bs = <<>> /\ bs' = bs /\ cache' = <<>>
      /\ UNCHANGED <<units, wire>>
  BY DEF EndInput, camera
<1>2. Ahead = <<>> /\ Ahead' = <<>>
  BY <1>1 DEF Ahead
<1>3. Len(cache') = 0 /\ DOMAIN cache' = {}
  BY <1>1
<1>4. /\ Ends(Ahead', 3 * Len(units) - Len(wire))
      /\ \E m \in Nat : 3 * Len(units) - Len(wire) = 3 * m
  BY <1>2 DEF ReaderInv
<1>5. ReaderInv'
  <2>1. Len(cache') < 3
    BY <1>3
  <2>3. busy' \in BOOLEAN /\ ~busy'
    BY <1>1
  <2>2. /\ \A k \in DOMAIN cache' : cache'[k] \in (DOMAIN units) \X (1 .. 3)
        /\ \A k \in DOMAIN cache' : cache'[k][1] = cache'[1][1]
    BY <1>3
  <2>. QED BY <1>1, <1>2, <1>4, <2>1, <2>2, <2>3, ReaderStep
<1>6. Pos' = Pos
  BY <1>1, <1>2 DEF Pos
<1>. QED BY <1>5, <1>6

\* A packet goes on where the cache ends, or it begins with a unit.
LEMMA ReaderInput ==
  ASSUME ReaderInv, NEW n \in DOMAIN wire, Input(n)
  PROVE  ReaderInv' /\ Pos' = Pos /\ wire[1][1] \in DOMAIN units
<1>. DEFINE e == 3 * Len(units)
            d == e - Len(wire)
            packet == SubSeq(wire, 1, n)
<1>1. /\ ~busy /\ busy' = TRUE /\ bs' = cache \o packet
      /\ cache' = (IF cache = <<>> THEN <<>> ELSE bs')
      /\ wire' = SubSeq(wire, n + 1, Len(wire)) /\ units' = units
  BY DEF Input, camera
<1>2. Ahead = cache /\ Ahead' = bs'
  BY <1>1 DEF Ahead
<1>3. /\ Len(units) \in Nat /\ DOMAIN units = 1 .. Len(units) /\ units \in Seq(UnitType)
      /\ wire \in Seq(Atom) /\ Len(wire) \in Nat
      /\ cache \in Seq(Atom) /\ Len(cache) \in Nat
      /\ \A k \in DOMAIN wire : wire[k] \in (DOMAIN units) \X (1 .. 3)
      /\ \A k \in DOMAIN cache : cache[k] \in (DOMAIN units) \X (1 .. 3)
  BY <1>2, ReaderFacts DEF ReaderInv
<1>4. /\ n \in 1 .. Len(wire) /\ n \in 0 .. Len(wire) /\ n > 0
      /\ e \in Int /\ d \in Int /\ 1 \in DOMAIN wire
  BY <1>3
<1>5. Ends(wire, e) /\ Ends(cache, d)
  BY <1>2 DEF ReaderInv
<1>6. Ends(wire', e) /\ Len(wire') = Len(wire) - n
  <2>. HIDE DEF e
  <2>. QED BY <1>1, <1>4, <1>5, EndsBack
<1>7. Ends(packet, e - (Len(wire) - n)) /\ Len(packet) = n /\ packet[1] = wire[1]
  <2>. HIDE DEF e
  <2>. QED BY <1>4, <1>5, EndsFront
<1>8. /\ Ends(bs', d + n) /\ Len(bs') = Len(cache) + n
      /\ cache # <<>> => bs'[1] = cache[1]
      /\ cache = <<>> => bs'[1] = wire[1]
  <2>. DEFINE c == d + n
  <2>1. c \in Int /\ c - n = d /\ e - (Len(wire) - n) = c
    BY <1>3, <1>4
  <2>2. Ends(cache, c - Len(packet)) /\ Ends(packet, c)
    BY <1>5, <1>7, <2>1
  <2>3. /\ Ends(cache \o packet, c) /\ Len(cache \o packet) = Len(cache) + Len(packet)
        /\ cache # <<>> => (cache \o packet)[1] = cache[1]
        /\ cache = <<>> => cache \o packet = packet
    <3>1. c \in Int
      BY <2>1
    <3>. HIDE DEF c, packet
    <3>2. Ends(cache, c - Len(packet)) /\ Ends(packet, c)
      BY <2>2
    <3>. QED BY Zenon, <3>1, <3>2, EndsJoined
  <2>4. Ends(bs', c) /\ Len(bs') = Len(cache) + n
    BY <1>1, <1>7, <2>3
  <2>5. /\ cache # <<>> => bs'[1] = cache[1]
        /\ cache = <<>> => bs'[1] = wire[1]
    BY <1>1, <1>7, <2>3
  <2>. QED BY <2>4, <2>5
<1>9. 3 * Len(units') - Len(wire') = d + n
  <2>1. Len(units') = Len(units)
    BY <1>1
  <2>. QED BY <1>3, <1>4, <1>6, <2>1
<1>10. Ends(Ahead', 3 * Len(units') - Len(wire'))
  BY <1>2, <1>8, <1>9
<1>11. bs' # <<>>
  <2>1. Len(bs') # 0
    BY <1>3, <1>4, <1>8
  <2>. QED BY <1>8, <2>1, EndsSeq
<1>12. cache = <<>> => wire[1][2] = 1
  <2>1. SUFFICES ASSUME cache = <<>> PROVE wire[1][2] = 1
    OBVIOUS
  <2>2. PICK m \in Nat : d = 3 * m
    BY <1>2, <2>1 DEF ReaderInv
  <2>3. /\ wire[1][1] \in Nat \ {0} /\ wire[1][2] \in 1 .. 3
        /\ 3 * (wire[1][1] - 1) + wire[1][2] = e - Len(wire) + 1
    <3>1. 1 \in 1 .. Len(wire)
      BY <1>3, <1>4
    <3>. HIDE DEF e
    <3>. QED BY <1>4, <1>5, <3>1, AtomAt
  <2>. DEFINE a == wire[1][1]
              b == wire[1][2]
  <2>4. a \in Nat /\ b \in 1 .. 3 /\ 3 * (a - 1) + b = 3 * m + 1
    BY <2>2, <2>3
  <2>5. b = 1
    <3>. HIDE DEF a, b
    <3>. QED BY <2>4
  <2>. QED BY <2>5
<1>13. Ahead'[1][2] # 1 => units'[Ahead'[1][1]].kind = "pack"
  <2>1. cache = <<>> => Ahead'[1][2] = 1
    BY <1>2, <1>8, <1>12
  <2>2. cache # <<>> => Ahead'[1] = Ahead[1] /\ Ahead # <<>>
    BY <1>2, <1>8
  <2>. QED BY <1>1, <2>1, <2>2 DEF ReaderInv
<1>14. \A k \in DOMAIN bs' : bs'[k] \in (DOMAIN units) \X (1 .. 3)
  <2>. DEFINE c == d + n
  <2>1. c \in Int /\ c <= 3 * Len(units)
    BY <1>3, <1>4
  <2>2. \A k \in DOMAIN bs' : bs'[k] \in (1 .. Len(units)) \X (1 .. 3)
    <3>1. Ends(bs', c)
      BY <1>8
    <3>. HIDE DEF c
    <3>. QED BY <1>3, <2>1, <3>1, AtomSent
  <2>. QED BY <1>3, <2>2
<1>15. \A k \in DOMAIN cache' : cache'[k] \in (DOMAIN units') \X (1 .. 3)
  <2>1. CASE cache = <<>>
    <3>1. cache' = <<>>
      BY <1>1, <2>1
    <3>2. DOMAIN cache' = {}
      BY <3>1
    <3>. QED BY <3>2
  <2>2. CASE cache # <<>>
    <3>1. cache' = bs'
      BY <1>1, <2>2
    <3>. QED BY <1>1, <1>14, <3>1
  <2>. QED BY <2>1, <2>2
<1>16. Ends(wire', 3 * Len(units'))
  BY <1>1, <1>6
<1>17. ReaderInv'
  BY <1>1, <1>2, <1>3, <1>10, <1>11, <1>13, <1>15, <1>16 DEF ReaderInv
<1>18. Pos' = Pos
  BY <1>2, <1>3, <1>4, <1>8, <1>9 DEF Pos
<1>19. wire[1][1] \in DOMAIN units
  BY <1>3, <1>4
<1>. QED BY <1>17, <1>18, <1>19

-----------------------------------------------------------------------------
(***************************************************************************)
(* NALs.                                                                   *)
(***************************************************************************)

\* A set of natural numbers has a least element.
LEMMA MinExists ==
  ASSUME NEW S \in SUBSET Nat, S # {}
  PROVE  \E x \in S : \A y \in S : x <= y
<1>. DEFINE R == OpToRel(<, Nat)
<1>1. IsWellFoundedOn(R, Nat)
  BY NatLessThanWellFounded
<1>2. ASSUME NEW x \in Nat, NEW y \in Nat, y < x
      PROVE  <<y, x>> \in R
  BY <1>2 DEF OpToRel
<1>. HIDE DEF R
<1>3. PICK x \in S : \A y \in S : <<y, x>> \notin R
  BY <1>1, WFMin
<1>4. ASSUME NEW y \in S
      PROVE  x <= y
  <2>1. x \in Nat /\ y \in Nat /\ <<y, x>> \notin R
    BY <1>3
  <2>. QED BY <1>2, <2>1
<1>. QED BY <1>4

\* A set of natural numbers up to n has a greatest element.
LEMMA MaxExists ==
  ASSUME NEW n \in Nat, NEW S \in SUBSET (0 .. n), S # {}
  PROVE  \E x \in S : \A y \in S : y <= x
<1>. DEFINE T == {n - x : x \in S}
<1>1. T \in SUBSET Nat /\ T # {}
  <2>1. \A x \in S : x \in Int /\ n - x \in Nat /\ n - x \in T
    OBVIOUS
  <2>. QED BY <2>1
<1>2. PICK t \in T : \A u \in T : t <= u
  <2>. HIDE DEF T
  <2>. QED BY <1>1, MinExists
<1>3. PICK x \in S : t = n - x
  OBVIOUS
<1>4. ASSUME NEW y \in S
      PROVE  y <= x
  <2>1. n - y \in T
    OBVIOUS
  <2>2. t <= n - y
    BY <1>2, <2>1
  <2>. QED BY <1>3, <2>2
<1>. QED BY <1>4

\* The k-th smallest element of a set that has k is one of it, and k - 1 are smaller.
LEMMA NthExists ==
  ASSUME NEW n \in Nat, NEW S \in SUBSET (1 .. n), NEW k \in 1 .. Cardinality(S)
  PROVE  /\ Nth(S, k) \in S
         /\ Cardinality({j \in S : j < Nth(S, k)}) = k - 1
<1>. DEFINE Below(i) == {j \in S : j < i}
<1>1. IsFiniteSet(S) /\ Cardinality(S) \in Nat
  <2>1. IsFiniteSet(1 .. n)
    BY FS_Interval
  <2>2. IsFiniteSet(S)
    BY <2>1, FS_Subset
  <2>. QED BY <2>2, FS_CardinalityType
<1>2. ASSUME NEW i
      PROVE  IsFiniteSet(Below(i)) /\ Cardinality(Below(i)) \in Nat
  BY <1>1, FS_Subset, FS_CardinalityType
<1>3. ASSUME NEW T \in SUBSET S, NEW m \in T, \A j \in T : j <= m,
             \A i \in S : i < m => i \in T
      PROVE  Cardinality(Below(m)) = Cardinality(T) - 1
  <2>1. Below(m) = T \ {m}
    <3>1. \A j \in T : j \in S /\ j \in Int /\ j <= m
      BY <1>3
    <3>2. m \in Int /\ m \in S
      BY <1>3
    <3>3. \A j \in T \ {m} : j \in Below(m)
      BY <3>1, <3>2
    <3>4. \A j \in Below(m) : j \in T \ {m}
      BY <1>3, <3>2
    <3>. QED BY <3>3, <3>4
  <2>2. IsFiniteSet(T)
    BY <1>1, FS_Subset
  <2>. QED BY <2>1, <2>2, FS_RemoveElement
<1>. DEFINE P == {i \in S : Cardinality(Below(i)) >= k - 1}
<1>4. P # {}
  <2>1. S # {}
    BY <1>1, FS_EmptySet
  <2>2. PICK m \in S : \A j \in S : j <= m
    <3>1. S \in SUBSET (0 .. n)
      OBVIOUS
    <3>. QED BY <2>1, <3>1, MaxExists
  <2>3. Cardinality(Below(m)) = Cardinality(S) - 1
    BY <1>3, <2>2
  <2>. QED BY <1>1, <2>2, <2>3
<1>5. PICK i \in P : \A j \in P : i <= j
  <2>1. P \in SUBSET Nat
    <3>1. \A x \in P : x \in S
      OBVIOUS
    <3>2. \A x \in S : x \in Nat
      OBVIOUS
    <3>. HIDE DEF P
    <3>. QED BY <3>1, <3>2
  <2>. HIDE DEF P
  <2>. QED BY <1>4, <2>1, MinExists
<1>6. Cardinality(Below(i)) = k - 1
  <2>1. SUFFICES ASSUME Cardinality(Below(i)) # k - 1 PROVE FALSE
    OBVIOUS
  <2>2. Cardinality(Below(i)) >= k
    <3>. DEFINE c == Cardinality(Below(i))
    <3>1. c \in Nat /\ c >= k - 1 /\ c # k - 1
      BY <1>2, <2>1
    <3>. HIDE DEF c
    <3>2. c >= k
      BY <3>1
    <3>. QED BY <3>2 DEF c
  <2>3. Below(i) # {}
    BY <1>2, <2>2, FS_EmptySet
  <2>4. PICK m \in Below(i) : \A j \in Below(i) : j <= m
    <3>1. Below(i) \in SUBSET (0 .. n)
      <4>1. \A x \in Below(i) : x \in S
        OBVIOUS
      <4>2. \A x \in S : x \in 0 .. n
        OBVIOUS
      <4>. HIDE DEF Below
      <4>. QED BY <4>1, <4>2
    <3>. HIDE DEF Below
    <3>. QED BY <2>3, <3>1, MaxExists
  <2>5. Cardinality(Below(m)) = Cardinality(Below(i)) - 1
    <3>1. Below(i) \in SUBSET S /\ m \in Below(i)
      OBVIOUS
    <3>2. \A j \in S : j < m => j \in Below(i)
      OBVIOUS
    <3>. HIDE DEF Below
    <3>. QED BY <1>3, <2>4, <3>1, <3>2
  <2>6. m \in P
    <3>. DEFINE c == Cardinality(Below(i))
                d == Cardinality(Below(m))
    <3>1. c \in Nat /\ c >= k /\ d = c - 1
      BY <1>2, <2>2, <2>5
    <3>2. d >= k - 1
      <4>. HIDE DEF c, d
      <4>. QED BY <3>1
    <3>3. m \in S
      OBVIOUS
    <3>. QED BY <3>2, <3>3
  <2>7. m < i /\ i <= m /\ m \in Nat /\ i \in Nat
    BY <1>5, <2>6
  <2>. QED BY <2>7
<1>7. \E x \in S : Cardinality({j \in S : j < x}) = k - 1
  BY <1>6
<1>. QED BY <1>7 DEF Nth

\* A NAL ends with the data or before a start code, and there is none inside.
LEMMA NalEndExists ==
  ASSUME NEW data, NEW n \in Nat, Len(data) = n, DOMAIN data = 1 .. n, NEW i \in 1 .. n
  PROVE  /\ NalEnd(data, i) \in i .. n
         /\ NalEnd(data, i) = n \/ NalEnd(data, i) + 1 \in StartCodes(data)
         /\ \A j \in StartCodes(data) : j <= i \/ NalEnd(data, i) < j
<1>. DEFINE S == StartCodes(data)
            T == {e \in i .. n : e = n \/ e + 1 \in S}
<1>1. S \subseteq 1 .. n
  BY DEF StartCodes
<1>2. T \in SUBSET Nat /\ n \in T
  OBVIOUS
<1>3. PICK e \in T : \A x \in T : e <= x
  <2>. HIDE DEF T
  <2>. QED BY <1>2, MinExists
<1>4. ASSUME NEW j \in S, i < j
      PROVE  e < j
  <2>1. j - 1 \in i .. n /\ (j - 1) + 1 = j /\ j \in Nat
    BY <1>1, <1>4
  <2>2. j - 1 \in T
    BY <2>1
  <2>3. e <= j - 1 /\ e \in Nat
    BY <1>3, <2>2
  <2>. QED BY <2>1, <2>3
<1>5. \A j \in S : j <= i \/ e < j
  BY <1>1, <1>4
<1>6. \E x \in i .. Len(data) : /\ x = Len(data) \/ x + 1 \in StartCodes(data)
                                /\ \A j \in StartCodes(data) : j <= i \/ x < j
  <2>. HIDE DEF S
  <2>1. e \in i .. n /\ (e = n \/ e + 1 \in S)
    OBVIOUS
  <2>. QED BY <1>5, <2>1 DEF S
<1>. HIDE DEF S, T
<1>. QED BY <1>6 DEF NalEnd

\* FindStartCode cuts data at its start codes: each NAL begins with the head of one and is
\* the data from there on.
LEMMA NalsType ==
  ASSUME NEW data \in Seq(Token)
  PROVE  /\ Nals(data) \in Seq(Seq(Token))
         /\ \A k \in DOMAIN Nals(data) :
              /\ Nals(data)[k] # <<>>
              /\ \E i \in DOMAIN data : Nals(data)[k][1] = data[i]
<1>. DEFINE n == Len(data)
            begins == {i \in StartCodes(data) : data[i].type # "aud"}
            c == Cardinality(begins)
<1>1. n \in Nat /\ DOMAIN data = 1 .. n
  OBVIOUS
<1>2. begins \in SUBSET (1 .. n)
  BY <1>1 DEF StartCodes
<1>3. c \in Nat
  <2>. HIDE DEF begins
  <2>1. IsFiniteSet(1 .. n)
    BY <1>1, FS_Interval
  <2>2. IsFiniteSet(begins)
    BY <1>2, <2>1, FS_Subset
  <2>. QED BY <2>2, FS_CardinalityType
<1>4. Nals(data) = [k \in 1 .. c |-> SubSeq(data, Nth(begins, k), NalEnd(data, Nth(begins, k)))]
  BY DEF Nals
<1>5. ASSUME NEW k \in 1 .. c
      PROVE  LET i == Nth(begins, k)
                 nal == SubSeq(data, i, NalEnd(data, i))
             IN  /\ nal \in Seq(Token) /\ nal # <<>>
                 /\ i \in DOMAIN data /\ nal[1] = data[i]
  <2>. DEFINE i == Nth(begins, k)
              e == NalEnd(data, i)
              nal == SubSeq(data, i, e)
  <2>1. i \in 1 .. n
    <3>1. i \in begins
      <4>. HIDE DEF begins
      <4>. QED BY <1>1, <1>2, NthExists
    <3>. QED BY <1>2, <3>1
  <2>2. e \in i .. n
    <3>. HIDE DEF i
    <3>. QED BY <1>1, <2>1, NalEndExists
  <2>3. nal \in Seq(Token) /\ nal # <<>> /\ nal[1] = data[i]
    <3>. HIDE DEF i, e
    <3>1. nal \in Seq(Token) /\ Len(nal) = e - i + 1
      BY <1>1, <2>1, <2>2
    <3>2. nal[1] = data[i]
      BY <1>1, <2>1, <2>2
    <3>3. nal # <<>>
      <4>1. e - i + 1 # 0
        BY <2>1, <2>2
      <4>. HIDE DEF nal
      <4>. QED BY <3>1, <4>1
    <3>. QED BY <3>1, <3>2, <3>3
  <2>. QED BY <1>1, <2>1, <2>3
<1>. HIDE DEF c, begins
<1>6. DOMAIN Nals(data) = 1 .. c /\ Len(Nals(data)) = c
  BY <1>3, <1>4
<1>7. Nals(data) \in Seq(Seq(Token))
  <2>. DEFINE nal(k) == SubSeq(data, Nth(begins, k), NalEnd(data, Nth(begins, k)))
              S == Seq(Token)
  <2>1. \A k \in 1 .. c : nal(k) \in S
    BY ONLY <1>5
  <2>2. Nals(data) = [k \in 1 .. c |-> nal(k)]
    BY ONLY <1>4
  <2>. HIDE DEF nal, S
  <2>3. [k \in 1 .. c |-> nal(k)] \in Seq(S)
    BY ONLY <1>3, <2>1
  <2>. QED BY ONLY <2>2, <2>3 DEF S
<1>. QED BY <1>4, <1>5, <1>6, <1>7

-----------------------------------------------------------------------------
(***************************************************************************)
(* What the camera sends.                                                  *)
(***************************************************************************)

\* The video PES among the units, and the frame each belongs to.
VideoUnit(n) == n \in DOMAIN units /\ units[n].kind = "video"
FrameOf(n) == units[n].data[1].frame

\* The PTS of a frame or of the next one: what audio between its parts has.
Near(f) == {PtsAt(f), PtsAt(f + 1)}

CameraType ==
  /\ setting \in Settings
  /\ frames \in Seq(Seq(Token))
  /\ rest \in Seq(Token)
  /\ torn \subseteq DOMAIN frames
  /\ \A n \in DOMAIN units :
       /\ units[n].kind \notin Streams => units[n].pts = NoPts
       /\ setting.first = NoPts => units[n].pts = NoPts

\* A video PES has data of one frame, and its PTS or none.
PartsOfFrames ==
  \A n \in DOMAIN units : units[n].kind = "video" =>
    /\ units[n].data # <<>> /\ FrameOf(n) \in DOMAIN frames
    /\ \A i \in DOMAIN units[n].data : units[n].data[i].frame = FrameOf(n)
    /\ units[n].pts \in {PtsAt(FrameOf(n)), NoPts}

\* The frames come in order, each in at least one PES.
FramesInOrder ==
  /\ \A n \in DOMAIN units : \A m \in 1 .. n - 1 :
       VideoUnit(m) /\ VideoUnit(n) => FrameOf(m) <= FrameOf(n)
  /\ \A f \in DOMAIN frames : \E n \in DOMAIN units : VideoUnit(n) /\ FrameOf(n) = f

\* A PES without PTS is the rest of a frame; the unit before has the PTS of the frame, or the
\* frame is torn.
RestsFollow ==
  \A n \in DOMAIN units :
    VideoUnit(n) /\ units[n].pts = NoPts /\ setting.first # NoPts =>
      /\ n > 1 /\ units[n - 1].pts \in Near(FrameOf(n))
      /\ units[n - 1].pts = PtsAt(FrameOf(n)) \/ FrameOf(n) \in torn
      /\ \E m \in 1 .. n - 1 : VideoUnit(m) /\ FrameOf(m) = FrameOf(n)

\* As long as a frame has a rest, the last unit is its first part or audio of its time.
RestOpen ==
  rest # <<>> =>
    /\ frames # <<>> /\ \A i \in DOMAIN rest : rest[i].frame = Len(frames)
    /\ units[Len(units)].pts \in Near(Len(frames))

CameraInv == CameraType /\ PartsOfFrames /\ FramesInOrder /\ RestsFollow /\ RestOpen

\* The PTS of a frame is a number, unless the camera sends none.
LEMMA PtsAtType ==
  ASSUME setting \in Settings
  PROVE  /\ setting.first \in Nat \cup {-1} /\ setting.psm \in BOOLEAN
         /\ \A f \in Nat : setting.first = NoPts => PtsAt(f) = NoPts
         /\ \A f \in Nat : setting.first # NoPts => PtsAt(f) = setting.first + f - 1 /\ PtsAt(f) \in Int
         /\ \A f \in Nat \ {0} : PtsAt(f) \in Nat \cup {NoPts}
<1>1. setting.first \in Nat \cup {-1} /\ setting.psm \in BOOLEAN
  BY PsDemuxerAssumption DEF NoPts
<1>. QED BY <1>1 DEF PtsAt, NoPts

LEMMA CameraInit == Init => CameraInv
<1>. SUFFICES ASSUME Init PROVE CameraInv
  OBVIOUS
<1>1. /\ setting \in Settings /\ frames = <<>> /\ rest = <<>> /\ torn = {}
      /\ DOMAIN units = {1} /\ units[1].kind = "pack" /\ units[1].pts = NoPts
  BY DEF Init
<1>2. CameraType
  BY <1>1 DEF CameraType
<1>3. PartsOfFrames /\ RestsFollow /\ RestOpen
  BY <1>1 DEF PartsOfFrames, RestsFollow, RestOpen, VideoUnit
<1>4. FramesInOrder
  <2>1. DOMAIN frames = {}
    BY <1>1
  <2>. QED BY <1>1, <2>1 DEF FramesInOrder, VideoUnit
<1>. QED BY <1>2, <1>3, <1>4 DEF CameraInv

\* A unit is sent after the others: what it has to be like.
LEMMA CameraSend ==
  ASSUME CameraInv, units \in Seq(UnitType), NEW n \in Nat, n = Len(units),
         NEW u \in UnitType, units' = Append(units, u), setting' = setting,
         NEW g \in Nat, g = Len(frames'),
         frames' \in Seq(Seq(Token)), rest' \in Seq(Token),
         torn \subseteq torn', torn' \subseteq DOMAIN frames',
         u.kind \notin Streams => u.pts = NoPts,
         setting.first = NoPts => u.pts = NoPts,
         u.kind = "video" => /\ u.data # <<>> /\ g > 0 /\ u.pts \in {PtsAt(g), NoPts}
                             /\ \A i \in DOMAIN u.data : u.data[i].frame = g,
         \/ g = Len(frames)
         \/ g = Len(frames) + 1 /\ u.kind = "video",
         u.kind = "video" /\ u.pts = NoPts /\ setting.first # NoPts =>
           /\ g = Len(frames) /\ units[n].pts \in Near(g)
           /\ units[n].pts = PtsAt(g) \/ g \in torn',
         rest' # <<>> => /\ g > 0 /\ u.pts \in Near(g)
                         /\ \A i \in DOMAIN rest' : rest'[i].frame = g
  PROVE  CameraInv'
<1>1. /\ DOMAIN units = 1 .. n /\ DOMAIN units' = 1 .. n + 1 /\ Len(units') = n + 1
      /\ units'[n + 1] = u /\ \A k \in 1 .. n : units'[k] = units[k]
  OBVIOUS
<1>2. /\ Len(frames) \in Nat /\ DOMAIN frames = 1 .. Len(frames) /\ DOMAIN frames' = 1 .. g
      /\ Len(frames) <= g
  BY DEF CameraInv, CameraType
<1>10. \A f \in DOMAIN frames : f \in DOMAIN frames'
  <2>1. \A f \in 1 .. Len(frames) : f \in 1 .. g
    BY <1>2
  <2>. QED BY <1>2, <2>1
<1>3. /\ \A f : PtsAt(f)' = PtsAt(f)
      /\ \A f : Near(f)' = Near(f)
  BY DEF PtsAt, Near
<1>4. /\ \A k \in 1 .. n : (FrameOf(k)' = FrameOf(k)) /\ (VideoUnit(k)' <=> VideoUnit(k))
      /\ VideoUnit(n + 1)' <=> u.kind = "video"
      /\ u.kind = "video" => FrameOf(n + 1)' = g
  <2>1. \A k \in 1 .. n : (FrameOf(k)' = FrameOf(k)) /\ (VideoUnit(k)' <=> VideoUnit(k))
    BY <1>1 DEF FrameOf, VideoUnit
  <2>2. VideoUnit(n + 1)' <=> u.kind = "video"
    BY <1>1 DEF VideoUnit
  <2>3. ASSUME u.kind = "video" PROVE FrameOf(n + 1)' = g
    <3>1. 1 \in DOMAIN u.data
      <4>1. u.data \in Seq(Token) /\ u.data # <<>>
        BY <2>3 DEF UnitType
      <4>. QED BY <4>1
    <3>2. FrameOf(n + 1)' = u.data[1].frame
      BY <1>1 DEF FrameOf
    <3>. QED BY <2>3, <3>1, <3>2
  <2>. QED BY <2>1, <2>2, <2>3
<1>5. CameraType'
  <2>1. ASSUME NEW k \in DOMAIN units'
        PROVE  /\ units'[k].kind \notin Streams => units'[k].pts = NoPts
               /\ setting.first = NoPts => units'[k].pts = NoPts
    <3>1. CASE k \in 1 .. n
      BY <1>1, <3>1 DEF CameraInv, CameraType
    <3>2. CASE k = n + 1
      BY <1>1, <3>2
    <3>. QED BY <1>1, <3>1, <3>2
  <2>2. setting' \in Settings
    BY DEF CameraInv, CameraType
  <2>. QED BY <2>1, <2>2 DEF CameraType
<1>6. PartsOfFrames'
  <2>1. ASSUME NEW k \in DOMAIN units', units'[k].kind = "video"
        PROVE  /\ units'[k].data # <<>> /\ FrameOf(k)' \in DOMAIN frames'
               /\ \A i \in DOMAIN units'[k].data : units'[k].data[i].frame = FrameOf(k)'
               /\ units'[k].pts \in {PtsAt(FrameOf(k)'), NoPts}
    <3>1. CASE k \in 1 .. n
      <4>1. units'[k] = units[k] /\ FrameOf(k)' = FrameOf(k)
        BY <1>1, <1>4, <3>1
      <4>2. /\ units[k].data # <<>> /\ FrameOf(k) \in DOMAIN frames
            /\ \A i \in DOMAIN units[k].data : units[k].data[i].frame = FrameOf(k)
            /\ units[k].pts \in {PtsAt(FrameOf(k)), NoPts}
        BY <1>1, <2>1, <3>1, <4>1 DEF CameraInv, PartsOfFrames
      <4>3. FrameOf(k) \in DOMAIN frames'
        BY <1>10, <4>2
      <4>. QED BY <4>1, <4>2, <4>3
    <3>2. CASE k = n + 1
      <4>1. units'[k] = u /\ u.kind = "video" /\ FrameOf(k)' = g
        BY <1>1, <1>4, <2>1, <3>2
      <4>2. g \in DOMAIN frames'
        BY <1>2, <4>1
      <4>. QED BY <4>1, <4>2
    <3>. QED BY <1>1, <3>1, <3>2
  <2>. QED BY <1>3, <2>1 DEF PartsOfFrames
<1>7. FramesInOrder'
  <2>1. ASSUME NEW k \in DOMAIN units', NEW m \in 1 .. k - 1, VideoUnit(m)', VideoUnit(k)'
        PROVE  FrameOf(m)' <= FrameOf(k)'
    <3>1. m \in 1 .. n
      BY <1>1
    <3>2. VideoUnit(m) /\ FrameOf(m)' = FrameOf(m)
      BY <1>4, <2>1, <3>1
    <3>3. CASE k \in 1 .. n
      <4>1. VideoUnit(k) /\ FrameOf(k)' = FrameOf(k)
        BY <1>4, <2>1, <3>3
      <4>. QED BY <1>1, <3>2, <3>3, <4>1 DEF CameraInv, FramesInOrder
    <3>4. CASE k = n + 1
      <4>1. FrameOf(k)' = g
        BY <1>4, <2>1, <3>4
      <4>2. FrameOf(m) \in DOMAIN frames
        BY <3>2 DEF CameraInv, PartsOfFrames, VideoUnit
      <4>. QED BY <1>2, <3>2, <4>1, <4>2
    <3>. QED BY <1>1, <3>3, <3>4
  <2>2. ASSUME NEW f \in DOMAIN frames'
        PROVE  \E k \in DOMAIN units' : VideoUnit(k)' /\ FrameOf(k)' = f
    <3>1. CASE f \in DOMAIN frames
      <4>1. PICK k \in DOMAIN units : VideoUnit(k) /\ FrameOf(k) = f
        BY <3>1 DEF CameraInv, FramesInOrder
      <4>2. k \in 1 .. n /\ k \in DOMAIN units'
        BY <1>1
      <4>. QED BY <1>4, <4>1, <4>2
    <3>2. CASE f \notin DOMAIN frames
      <4>1. f = g /\ u.kind = "video"
        <5>1. f \in 1 .. g /\ f \notin 1 .. Len(frames)
          BY <1>2, <3>2
        <5>2. g # Len(frames)
          BY ONLY <5>1
        <5>3. g = Len(frames) + 1 /\ u.kind = "video"
          BY <5>2
        <5>. QED BY ONLY <1>2, <5>1, <5>3
      <4>2. n + 1 \in DOMAIN units'
        BY <1>1
      <4>. QED BY <1>4, <4>1, <4>2
    <3>. QED BY <3>1, <3>2
  <2>. QED BY <2>1, <2>2 DEF FramesInOrder
<1>8. RestsFollow'
  <2>1. ASSUME NEW k \in DOMAIN units', VideoUnit(k)', units'[k].pts = NoPts,
               setting.first # NoPts
        PROVE  /\ k > 1 /\ units'[k - 1].pts \in Near(FrameOf(k)')
               /\ units'[k - 1].pts = PtsAt(FrameOf(k)') \/ FrameOf(k)' \in torn'
               /\ \E m \in 1 .. k - 1 : VideoUnit(m)' /\ FrameOf(m)' = FrameOf(k)'
    <3>1. CASE k \in 1 .. n
      <4>1. VideoUnit(k) /\ FrameOf(k)' = FrameOf(k) /\ units'[k] = units[k]
        BY <1>1, <1>4, <2>1, <3>1
      <4>2. /\ k > 1 /\ units[k - 1].pts \in Near(FrameOf(k))
            /\ units[k - 1].pts = PtsAt(FrameOf(k)) \/ FrameOf(k) \in torn
            /\ \E m \in 1 .. k - 1 : VideoUnit(m) /\ FrameOf(m) = FrameOf(k)
        BY <1>1, <2>1, <3>1, <4>1 DEF CameraInv, RestsFollow
      <4>3. k - 1 \in 1 .. n /\ \A m \in 1 .. k - 1 : m \in 1 .. n
        BY <1>1, <3>1, <4>2
      <4>4. units'[k - 1] = units[k - 1]
        BY <1>1, <4>3
      <4>5. \E m \in 1 .. k - 1 : VideoUnit(m)' /\ FrameOf(m)' = FrameOf(k)'
        BY <1>4, <4>1, <4>2, <4>3
      <4>. QED BY <4>1, <4>2, <4>4, <4>5
    <3>2. CASE k = n + 1
      <4>1. units'[k] = u /\ u.kind = "video" /\ u.pts = NoPts /\ FrameOf(k)' = g /\ k - 1 = n
        BY <1>1, <1>4, <2>1, <3>2
      <4>2. /\ g = Len(frames) /\ units[n].pts \in Near(g) /\ g > 0
            /\ units[n].pts = PtsAt(g) \/ g \in torn'
        BY <2>1, <4>1
      <4>3. PICK m \in DOMAIN units : VideoUnit(m) /\ FrameOf(m) = g
        <5>1. g \in DOMAIN frames
          BY <1>2, <4>2
        <5>. QED BY <5>1 DEF CameraInv, FramesInOrder
      <4>4. m \in 1 .. n /\ n >= 1
        BY <1>1
      <4>5. units'[k - 1] = units[n] /\ k > 1
        BY <1>1, <3>2, <4>1, <4>4
      <4>6. \E j \in 1 .. k - 1 : VideoUnit(j)' /\ FrameOf(j)' = g
        BY <1>4, <4>1, <4>3, <4>4
      <4>. QED BY <4>1, <4>2, <4>5, <4>6
    <3>. QED BY <1>1, <3>1, <3>2
  <2>. QED BY <1>3, <2>1 DEF RestsFollow
<1>9. RestOpen'
  <2>1. ASSUME rest' # <<>>
        PROVE  /\ frames' # <<>> /\ \A i \in DOMAIN rest' : rest'[i].frame = Len(frames')
               /\ units'[Len(units')].pts \in Near(Len(frames'))
    <3>1. frames' # <<>>
      <4>1. Len(frames') > 0
        BY <2>1
      <4>. QED BY <4>1
    <3>. QED BY <1>1, <2>1, <3>1
  <2>. QED BY <1>3, <2>1 DEF RestOpen
<1>. QED BY <1>5, <1>6, <1>7, <1>8, <1>9 DEF CameraInv

\* What the steps of the camera have in common.
LEMMA SendFacts ==
  ASSUME CameraInv, units \in Seq(UnitType)
  PROVE  /\ Len(units) \in Nat /\ Len(frames) \in Nat /\ frames \in Seq(Seq(Token))
         /\ DOMAIN frames = 1 .. Len(frames) /\ torn \subseteq 1 .. Len(frames)
         /\ rest \in Seq(Token) /\ setting \in Settings
         /\ frames # <<>> => Len(frames) > 0
         /\ \A f \in Nat \ {0} : PtsAt(f) \in Nat \cup {NoPts}
         /\ \A f \in Nat : setting.first = NoPts => PtsAt(f) = NoPts
         /\ rest # <<>> => /\ frames # <<>> /\ \A i \in DOMAIN rest : rest[i].frame = Len(frames)
                           /\ units[Len(units)].pts \in Near(Len(frames))
<1>1. /\ setting \in Settings /\ frames \in Seq(Seq(Token)) /\ rest \in Seq(Token)
      /\ torn \subseteq DOMAIN frames
  BY DEF CameraInv, CameraType
<1>2. /\ Len(frames) \in Nat /\ DOMAIN frames = 1 .. Len(frames)
      /\ frames # <<>> => Len(frames) > 0
  BY <1>1
<1>3. Len(units) \in Nat
  OBVIOUS
<1>4. rest # <<>> => /\ frames # <<>> /\ \A i \in DOMAIN rest : rest[i].frame = Len(frames)
                     /\ units[Len(units)].pts \in Near(Len(frames))
  BY DEF CameraInv, RestOpen
<1>. QED BY <1>1, <1>2, <1>3, <1>4, PtsAtType

\* Its actions, one by one.
LEMMA CameraOther ==
  ASSUME CameraInv, ReaderInv, NEW kind \in {"pack", "psm", "passed"}, SendOther(kind)
  PROVE  CameraInv' /\ ReaderInv' /\ Pos' = Pos /\ Ahead' = Ahead
<1>. DEFINE u == [kind |-> kind, pts |-> NoPts, data |-> <<>>, time |-> Len(frames')]
<1>1. units \in Seq(UnitType)
  BY DEF ReaderInv
<1>2. /\ rest = <<>> /\ rest' = rest /\ frames' = frames /\ torn' = torn /\ setting' = setting
      /\ ~busy /\ units' = Append(units, u) /\ UNCHANGED reader
      /\ wire' = wire \o [i \in 1 .. 3 |-> <<Len(units) + 1, i>>]
  BY DEF SendOther, Send
<1>3. u \in UnitType /\ u.kind = kind /\ u.pts = NoPts /\ u.kind \notin Streams
  <2>1. Len(frames') \in Nat
    BY <1>1, <1>2, SendFacts
  <2>. QED BY <2>1 DEF UnitType, NoPts, Streams
<1>. HIDE DEF u
<1>4. CameraInv'
  <2>. DEFINE n == Len(units)
              g == Len(frames)
  <2>1. /\ n \in Nat /\ g \in Nat /\ g = Len(frames') /\ frames' \in Seq(Seq(Token))
        /\ rest' \in Seq(Token) /\ torn' \subseteq DOMAIN frames' /\ rest' = <<>>
    BY <1>1, <1>2, SendFacts
  <2>2. u.kind # "video"
    BY <1>3 DEF Streams
  <2>3. n = Len(units)
    OBVIOUS
  <2>4. g = Len(frames)
    OBVIOUS
  <2>. HIDE DEF n, g
  <2>. QED BY <1>1, <1>2, <1>3, <2>1, <2>2, <2>3, <2>4, CameraSend
<1>. QED BY <1>2, <1>3, <1>4, ReaderSend

LEMMA CameraFrame ==
  ASSUME CameraInv, ReaderInv, NEW shape \in Shapes, NEW k \in shape.cuts \cup {Len(shape.tokens)},
         SendFrame(shape, k)
  PROVE  CameraInv' /\ ReaderInv' /\ Pos' = Pos /\ Ahead' = Ahead
<1>. DEFINE g == Len(frames) + 1
            tokens == [i \in DOMAIN shape.tokens |->
                         [frame |-> g, n |-> i, type |-> shape.tokens[i].type,
                          head |-> shape.tokens[i].head]]
            u == [kind |-> "video", pts |-> PtsAt(g), data |-> SubSeq(tokens, 1, k),
                  time |-> Len(frames')]
            m == Len(shape.tokens)
<1>1. units \in Seq(UnitType)
  BY DEF ReaderInv
<1>2. /\ rest = <<>> /\ rest' = SubSeq(tokens, k + 1, Len(tokens))
      /\ frames' = Append(frames, tokens) /\ torn' = torn /\ setting' = setting
      /\ ~busy /\ units' = Append(units, u) /\ UNCHANGED reader
      /\ wire' = wire \o [i \in 1 .. 3 |-> <<Len(units) + 1, i>>]
  BY DEF SendFrame, Send
<1>3. /\ Len(units) \in Nat /\ Len(frames) \in Nat /\ g \in Nat \ {0} /\ torn \subseteq 1 .. Len(frames)
      /\ frames \in Seq(Seq(Token)) /\ DOMAIN frames = 1 .. Len(frames)
      /\ PtsAt(g) \in Nat \cup {NoPts}
      /\ setting.first = NoPts => PtsAt(g) = NoPts
      /\ setting \in Settings
  BY <1>1, SendFacts
<1>4. /\ m \in Nat /\ m > 0 /\ DOMAIN shape.tokens = 1 .. m /\ k \in 1 .. m
      /\ \A i \in 1 .. m : /\ shape.tokens[i].type \in {"aud", "sps", "pps", "idr", "p"}
                           /\ shape.tokens[i].head \in BOOLEAN
  <2>1. /\ shape.tokens \in Seq([type : {"aud", "sps", "pps", "idr", "p"}, head : BOOLEAN])
        /\ shape.tokens # <<>> /\ shape.cuts \subseteq 1 .. Len(shape.tokens) - 1
    BY PsDemuxerAssumption
  <2>. DEFINE tok == shape.tokens
  <2>2. tok \in Seq([type : {"aud", "sps", "pps", "idr", "p"}, head : BOOLEAN]) /\ tok # <<>>
    BY <2>1
  <2>3. k \in 1 .. Len(tok) - 1 \/ k = Len(tok)
    BY <2>1
  <2>. HIDE DEF tok
  <2>4. Len(tok) \in Nat /\ Len(tok) > 0 /\ DOMAIN tok = 1 .. Len(tok)
    BY <2>2
  <2>5. k \in 1 .. Len(tok)
    BY <2>3, <2>4
  <2>6. \A i \in 1 .. Len(tok) : /\ tok[i].type \in {"aud", "sps", "pps", "idr", "p"}
                                 /\ tok[i].head \in BOOLEAN
    <3>1. \A i \in 1 .. Len(tok) : tok[i] \in [type : {"aud", "sps", "pps", "idr", "p"}, head : BOOLEAN]
      <4>. DEFINE R == [type : {"aud", "sps", "pps", "idr", "p"}, head : BOOLEAN]
      <4>1. tok \in Seq(R)
        BY <2>2
      <4>. HIDE DEF R
      <4>2. \A i \in 1 .. Len(tok) : tok[i] \in R
        BY <2>4, <4>1
      <4>. QED BY <4>2 DEF R
    <3>. QED BY <3>1
  <2>. QED BY <2>4, <2>5, <2>6 DEF tok
<1>. HIDE DEF m
<1>5. DOMAIN tokens = 1 .. m /\ \A i \in 1 .. m : tokens[i] \in Token /\ tokens[i].frame = g
  BY <1>3, <1>4 DEF Token
<1>. HIDE DEF tokens
<1>6. tokens \in Seq(Token) /\ Len(tokens) = m
  <2>1. tokens = [i \in 1 .. m |-> tokens[i]]
    BY <1>4, <1>5 DEF tokens
  <2>. QED BY <1>4, <1>5, <2>1
<1>7. /\ SubSeq(tokens, 1, k) \in Seq(Token) /\ Len(SubSeq(tokens, 1, k)) = k
      /\ \A i \in 1 .. k : SubSeq(tokens, 1, k)[i] = tokens[i]
  BY <1>4, <1>6
<1>8. /\ rest' \in Seq(Token) /\ Len(rest') = m - k
      /\ \A i \in 1 .. m - k : rest'[i] = tokens[k + i]
  BY <1>2, <1>4, <1>6
<1>9. frames' \in Seq(Seq(Token)) /\ Len(frames') = g /\ DOMAIN frames' = 1 .. g
  BY <1>2, <1>3, <1>6
<1>10. /\ u \in UnitType /\ u.kind = "video" /\ u.pts = PtsAt(g) /\ u.data = SubSeq(tokens, 1, k)
  BY <1>3, <1>7, <1>9 DEF UnitType, Streams
<1>11. u.data # <<>> /\ \A i \in DOMAIN u.data : u.data[i].frame = g
  <2>1. u.data # <<>>
    <3>1. Len(u.data) = k /\ k # 0
      BY <1>4, <1>7
    <3>. HIDE DEF u
    <3>. QED BY <3>1
  <2>2. DOMAIN u.data = 1 .. k
    BY <1>7
  <2>. QED BY <1>4, <1>5, <1>7, <2>1, <2>2
<1>12. \A i \in DOMAIN rest' : rest'[i].frame = g
  <2>1. DOMAIN rest' = 1 .. m - k
    BY <1>8
  <2>2. \A i \in 1 .. m - k : k + i \in 1 .. m
    BY <1>4
  <2>. QED BY <1>5, <1>8, <2>1, <2>2
<1>13. u.pts = NoPts => setting.first = NoPts
  <2>1. SUFFICES ASSUME setting.first # NoPts PROVE u.pts # NoPts
    OBVIOUS
  <2>2. PtsAt(g) = setting.first + g - 1 /\ setting.first \in Nat
    <3>. HIDE DEF g
    <3>. QED BY <1>3, <2>1, PtsAtType DEF NoPts
  <2>3. PtsAt(g) # NoPts
    <3>. HIDE DEF g
    <3>. QED BY <1>3, <2>2 DEF NoPts
  <2>. QED BY <1>10, <2>3
<1>14. torn' \subseteq DOMAIN frames'
  BY <1>2, <1>3, <1>9
<1>15. u.pts \in Near(g) /\ g > 0 /\ g = Len(frames) + 1 /\ g = Len(frames') /\ g \in Nat
  BY <1>3, <1>9, <1>10 DEF Near
<1>16. u.kind \in Streams
  BY <1>10 DEF Streams
<1>. HIDE DEF u, g
<1>17. CameraInv'
  <2>. DEFINE n == Len(units)
  <2>1. n = Len(units) /\ n \in Nat
    BY <1>3
  <2>. HIDE DEF n
  <2>. QED BY <1>1, <1>2, <1>3, <1>8, <1>9, <1>10, <1>11, <1>12, <1>13, <1>14, <1>15, <1>16,
              <2>1, CameraSend
<1>. QED BY <1>2, <1>10, <1>17, ReaderSend

LEMMA CameraRest ==
  ASSUME CameraInv, ReaderInv, NEW stamp, SendRest(stamp)
  PROVE  CameraInv' /\ ReaderInv' /\ Pos' = Pos /\ Ahead' = Ahead
<1>. DEFINE g == Len(frames)
            n == Len(units)
            u == [kind |-> "video", pts |-> stamp, data |-> rest, time |-> Len(frames')]
<1>1. units \in Seq(UnitType)
  BY DEF ReaderInv
<1>2. /\ rest # <<>> /\ rest' = <<>> /\ frames' = frames /\ setting' = setting
      /\ stamp \in {PtsAt(g), NoPts}
      /\ torn' = IF stamp = NoPts /\ units[n].pts # PtsAt(g) THEN torn \cup {g} ELSE torn
      /\ ~busy /\ units' = Append(units, u) /\ UNCHANGED reader
      /\ wire' = wire \o [i \in 1 .. 3 |-> <<Len(units) + 1, i>>]
  BY DEF SendRest, Send, Last
<1>3. /\ n \in Nat /\ g \in Nat \ {0} /\ torn \subseteq 1 .. g /\ frames \in Seq(Seq(Token))
      /\ DOMAIN frames = 1 .. g /\ rest \in Seq(Token)
      /\ PtsAt(g) \in Nat \cup {NoPts}
      /\ setting.first = NoPts => PtsAt(g) = NoPts
      /\ \A i \in DOMAIN rest : rest[i].frame = g
      /\ units[n].pts \in Near(g)
  BY <1>1, <1>2, SendFacts
<1>4. /\ u \in UnitType /\ u.kind = "video" /\ u.pts = stamp /\ u.data = rest
      /\ u.kind \in Streams
  BY <1>2, <1>3 DEF UnitType, Streams, NoPts
<1>5. /\ torn \subseteq torn' /\ torn' \subseteq DOMAIN frames'
      /\ stamp = NoPts => units[n].pts = PtsAt(g) \/ g \in torn'
  <2>1. DOMAIN frames' = 1 .. g /\ g \in 1 .. g
    BY <1>2, <1>3
  <2>2. torn' = torn \cup {g} \/ torn' = torn
    BY <1>2
  <2>3. stamp = NoPts /\ units[n].pts # PtsAt(g) => torn' = torn \cup {g}
    BY <1>2
  <2>. HIDE DEF g, n
  <2>. QED BY <1>3, <2>1, <2>2, <2>3
<1>6. /\ n = Len(units) /\ g = Len(frames') /\ g = Len(frames) /\ g > 0 /\ g \in Nat
      /\ frames' \in Seq(Seq(Token)) /\ rest' \in Seq(Token)
  BY <1>2, <1>3
<1>. HIDE DEF u, g, n
<1>7. CameraInv'
  BY <1>1, <1>2, <1>3, <1>4, <1>5, <1>6, CameraSend
<1>. QED BY <1>2, <1>4, <1>7, ReaderSend

LEMMA CameraAudio ==
  ASSUME CameraInv, ReaderInv, NEW stamp, SendAudio(stamp)
  PROVE  CameraInv' /\ ReaderInv' /\ Pos' = Pos /\ Ahead' = Ahead
<1>. DEFINE g == Len(frames)
            n == Len(units)
            u == [kind |-> "audio", pts |-> stamp, data |-> <<>>, time |-> Len(frames')]
<1>1. units \in Seq(UnitType)
  BY DEF ReaderInv
<1>2. /\ rest' = rest /\ frames' = frames /\ setting' = setting /\ torn' = torn
      /\ frames # <<>> /\ stamp \in {PtsAt(g), PtsAt(g + 1)}
      /\ ~busy /\ units' = Append(units, u) /\ UNCHANGED reader
      /\ wire' = wire \o [i \in 1 .. 3 |-> <<Len(units) + 1, i>>]
  BY DEF SendAudio, Send
<1>3. /\ n \in Nat /\ g \in Nat \ {0} /\ torn \subseteq 1 .. g /\ frames \in Seq(Seq(Token))
      /\ DOMAIN frames = 1 .. g /\ rest \in Seq(Token)
      /\ PtsAt(g) \in Nat \cup {NoPts} /\ PtsAt(g + 1) \in Nat \cup {NoPts}
      /\ setting.first = NoPts => PtsAt(g) = NoPts /\ PtsAt(g + 1) = NoPts
      /\ rest # <<>> => \A i \in DOMAIN rest : rest[i].frame = g
  <2>1. g \in Nat \ {0} /\ g \in Nat /\ g + 1 \in Nat /\ g + 1 \in Nat \ {0}
    BY <1>1, <1>2, SendFacts
  <2>. HIDE DEF g
  <2>2. /\ PtsAt(g) \in Nat \cup {NoPts} /\ PtsAt(g + 1) \in Nat \cup {NoPts}
        /\ setting.first = NoPts => PtsAt(g) = NoPts /\ PtsAt(g + 1) = NoPts
    BY <1>1, <2>1, SendFacts
  <2>. QED BY <1>1, <2>1, <2>2, SendFacts DEF g
<1>4. /\ u \in UnitType /\ u.kind = "audio" /\ u.pts = stamp /\ u.kind \in Streams
      /\ u.kind # "video" /\ u.pts \in Near(g)
  <2>1. stamp \in {PtsAt(g), PtsAt(g + 1)} /\ stamp \in Nat \cup {NoPts} /\ Len(frames') \in Nat
    BY ONLY <1>2, <1>3
  <2>. QED BY ONLY <2>1 DEF UnitType, Streams, NoPts, Near
<1>5. /\ torn \subseteq torn' /\ torn' \subseteq DOMAIN frames'
      /\ setting.first = NoPts => u.pts = NoPts
  BY <1>2, <1>3, <1>4
<1>6. /\ n = Len(units) /\ g = Len(frames') /\ g = Len(frames) /\ g > 0 /\ g \in Nat
      /\ frames' \in Seq(Seq(Token)) /\ rest' \in Seq(Token)
      /\ rest' # <<>> => \A i \in DOMAIN rest' : rest'[i].frame = g
  BY <1>2, <1>3
<1>. HIDE DEF u, g, n
<1>7. CameraInv'
  BY <1>1, <1>2, <1>3, <1>4, <1>5, <1>6, CameraSend
<1>. QED BY <1>2, <1>4, <1>7, ReaderSend

\* The camera does not change what the reader has, and the frames only grow in number.
LEMMA CameraStep ==
  ASSUME CameraInv, ReaderInv, Camera
  PROVE  /\ CameraInv' /\ ReaderInv' /\ Pos' = Pos /\ Ahead' = Ahead
         /\ UNCHANGED <<setting, reader, demuxer, conn>>
         /\ \E u : units' = Append(units, u)
         /\ Len(frames) <= Len(frames') /\ torn \subseteq torn'
<1>. DEFINE Rest == /\ UNCHANGED <<setting, reader, demuxer, conn>>
                    /\ \E u : units' = Append(units, u)
                    /\ Len(frames) <= Len(frames') /\ torn \subseteq torn'
<1>1. Len(frames) \in Nat /\ frames \in Seq(Seq(Token))
  BY SendFacts DEF ReaderInv
<1>2. ASSUME NEW kind \in {"pack", "psm", "passed"}, SendOther(kind)
      PROVE  Rest
  BY <1>1, <1>2 DEF SendOther, Send
<1>3. ASSUME NEW shape \in Shapes, NEW k \in shape.cuts \cup {Len(shape.tokens)},
             SendFrame(shape, k)
      PROVE  Rest
  <2>1. UNCHANGED <<setting, reader, demuxer, conn>> /\ torn' = torn
    BY <1>3 DEF SendFrame, Send
  <2>2. \E u : units' = Append(units, u)
    BY <1>3 DEF SendFrame, Send
  <2>3. \E s : frames' = Append(frames, s)
    BY <1>3 DEF SendFrame
  <2>4. Len(frames') = Len(frames) + 1
    BY <1>1, <2>3
  <2>. QED BY <1>1, <2>1, <2>2, <2>4
<1>4. ASSUME NEW stamp, SendRest(stamp) \/ SendAudio(stamp)
      PROVE  Rest
  <2>1. UNCHANGED <<setting, reader, demuxer, conn>> /\ frames' = frames
    BY <1>4 DEF SendRest, SendAudio, Send
  <2>2. \E u : units' = Append(units, u)
    BY <1>4 DEF SendRest, SendAudio, Send
  <2>3. torn \subseteq torn'
    BY <1>4 DEF SendRest, SendAudio
  <2>. QED BY <1>1, <2>1, <2>2, <2>3
<1>. HIDE DEF Rest
<1>5. Rest
  BY <1>2, <1>3, <1>4 DEF Camera
<1>6. CameraInv' /\ ReaderInv' /\ Pos' = Pos /\ Ahead' = Ahead
  BY CameraOther, CameraFrame, CameraRest, CameraAudio DEF Camera
<1>. QED BY <1>5, <1>6 DEF Rest

-----------------------------------------------------------------------------
(***************************************************************************)
(* What the demuxer makes of it.                                           *)
(***************************************************************************)

\* The types of the demuxer, and of what was fed.
DemuxerType ==
  /\ cid \in [Streams -> BOOLEAN]
  /\ pesPts \in Nat /\ pts \in Nat
  /\ buf \in Seq(Token) /\ verify \in Seq(Token)

\* The PTS a PES without one gets is that of the last unit that was read, if it had one; a
\* camera that sends none leaves the PTSs at 0.
LastPts ==
  /\ setting.first = NoPts => pesPts = 0 /\ pts = 0
  /\ \A n \in DOMAIN units :
       3 * n <= Pos /\ Pos < 3 * n + 3 /\ units[n].pts # NoPts => pesPts = units[n].pts

\* What a frame can be given: its PTS, or that of the next frame when its own is 0.
Fits(f, p) == f \in torn \/ p = PtsAt(f) \/ (PtsAt(f) = 0 /\ p = PtsAt(f + 1))

\* The video that is collected: its PTS fits each frame in it and is not ahead of the stream;
\* while it is 0, nothing but the first frame was read.
Collected ==
  /\ buf # <<>> => cid["video"]
  /\ setting.first # NoPts =>
       /\ \A i \in DOMAIN buf : Fits(buf[i].frame, pts)
       /\ pts <= PtsAt(Len(frames)) + 1
       /\ \A n \in DOMAIN units : VideoUnit(n) /\ Pos < 3 * n => pts <= PtsAt(FrameOf(n)) + 1
       /\ pts = 0 /\ buf # <<>> =>
            /\ setting.first = 0
            /\ \A n \in DOMAIN units : VideoUnit(n) /\ 3 * n <= Pos => FrameOf(n) = 1

Item == [stream : Streams, data : Nat \cup Seq(Token), pts : Nat, ts : Int]

\* What was fed keeps its distance from the first PTS of its stream.
SinceFirst ==
  \A k \in DOMAIN fed : fed[k].pts # 0 =>
    init[fed[k].stream] # 0 /\ fed[k].ts = fed[k].pts - init[fed[k].stream]

\* What PtsOfFrame rests on, and TimestampsKeepDistance.
PtsInv == CameraInv /\ ReaderInv /\ DemuxerType /\ LastPts /\ Collected

ConnInv ==
  /\ init \in [Streams -> Nat] /\ zeros \in Nat \cup {-1} /\ rtpPts \in Nat
  /\ fed \in Seq(Item)
  /\ SinceFirst

\* A sequence behind another.
LEMMA Joined ==
  ASSUME NEW S, NEW s \in Seq(S), NEW r \in Seq(S)
  PROVE  /\ s \o r \in Seq(S) /\ DOMAIN (s \o r) = 1 .. Len(s) + Len(r)
         /\ \A k \in 1 .. Len(s) : (s \o r)[k] = s[k]
         /\ \A k \in Len(s) + 1 .. Len(s) + Len(r) :
              k - Len(s) \in 1 .. Len(r) /\ (s \o r)[k] = r[k - Len(s)]
OBVIOUS

\* What OnFrame feeds.
LEMMA OnFrameStep ==
  ASSUME ConnInv, NEW s \in Streams, NEW items \in Seq(Nat \cup Seq(Token)), NEW stamp \in Nat,
         OnFrame(s, items, stamp)
  PROVE  /\ ConnInv'
         /\ \A k \in DOMAIN fed' :
              \/ k \in DOMAIN fed /\ fed'[k] = fed[k]
              \/ \E i \in DOMAIN items : /\ fed'[k].data = items[i]
                                         /\ fed'[k].stream = s /\ fed'[k].pts = stamp
<1>. DEFINE p == IF stamp = 0 /\ zeros >= ZeroLimit THEN rtpPts ELSE stamp
            b == init'[s]
            new == [i \in DOMAIN items |->
                      [stream |-> s, data |-> items[i], pts |-> stamp, ts |-> p - b]]
            n == Len(fed)
            m == Len(items)
<1>1. /\ zeros' = (IF stamp # 0 THEN -1 ELSE IF zeros >= 0 THEN zeros + 1 ELSE zeros)
      /\ init' = [init EXCEPT ![s] = IF @ = 0 THEN p ELSE @]
      /\ fed' = fed \o new /\ rtpPts' = rtpPts
  BY DEF OnFrame, Start
<1>2. /\ init \in [Streams -> Nat] /\ zeros \in Nat \cup {-1} /\ rtpPts \in Nat
      /\ fed \in Seq(Item) /\ n \in Nat /\ DOMAIN fed = 1 .. n /\ m \in Nat /\ DOMAIN items = 1 .. m
      /\ \A i \in 1 .. m : items[i] \in Nat \cup Seq(Token)
  BY DEF ConnInv
<1>3. p \in Nat
  BY <1>2
<1>4. init' \in [Streams -> Nat] /\ b \in Nat
  BY <1>1, <1>2, <1>3
<1>5. zeros' \in Nat \cup {-1} /\ rtpPts' \in Nat
  BY <1>1, <1>2
<1>6. new \in Seq(Item) /\ Len(new) = m /\ DOMAIN new = 1 .. m
  <2>1. p - b \in Int
    BY <1>3, <1>4
  <2>. DEFINE q == p - b
  <2>. HIDE DEF q
  <2>2. \A i \in 1 .. m : [stream |-> s, data |-> items[i], pts |-> stamp, ts |-> q] \in Item
    BY <1>2, <2>1 DEF Item, q
  <2>. QED BY <1>2, <2>2 DEF q
<1>7. \A i \in 1 .. m : /\ new[i].stream = s /\ new[i].data = items[i] /\ new[i].pts = stamp
                        /\ new[i].ts = p - b
  BY <1>2
<1>8. stamp # 0 => p = stamp /\ b # 0
  BY <1>1, <1>2
<1>9. \A t \in Streams : init[t] # 0 => init'[t] = init[t]
  BY <1>1, <1>2
<1>. HIDE DEF p, b, new
<1>10. /\ fed' \in Seq(Item) /\ DOMAIN fed' = 1 .. n + m
       /\ \A k \in 1 .. n : fed'[k] = fed[k]
       /\ \A k \in n + 1 .. n + m : k - n \in 1 .. m /\ fed'[k] = new[k - n]
  <2>1. fed' = fed \o new /\ fed \in Seq(Item) /\ new \in Seq(Item) /\ n = Len(fed) /\ Len(new) = m
    BY <1>1, <1>2, <1>6
  <2>. HIDE DEF n, m
  <2>. QED BY <2>1, Joined
<1>11. ASSUME NEW k \in DOMAIN fed', fed'[k].pts # 0
       PROVE  init'[fed'[k].stream] # 0 /\ fed'[k].ts = fed'[k].pts - init'[fed'[k].stream]
  <2>1. CASE k \in 1 .. n
    <3>1. fed'[k] = fed[k] /\ fed[k] \in Item /\ fed[k].stream \in Streams
      <4>1. fed'[k] = fed[k] /\ k \in DOMAIN fed
        BY <1>2, <1>10, <2>1
      <4>2. fed[k] \in Item
        BY <1>2, <4>1
      <4>. QED BY <4>1, <4>2 DEF Item
    <3>2. init[fed[k].stream] # 0 /\ fed[k].ts = fed[k].pts - init[fed[k].stream]
      BY <1>2, <1>11, <2>1, <3>1 DEF ConnInv, SinceFirst
    <3>. QED BY <1>9, <3>1, <3>2
  <2>2. CASE k \in n + 1 .. n + m
    <3>1. /\ fed'[k].stream = s /\ fed'[k].pts = stamp /\ fed'[k].ts = p - b
      BY <1>7, <1>10, <2>2
    <3>. QED BY <1>8, <1>11, <3>1 DEF b
  <2>. QED BY <1>2, <1>10, <2>1, <2>2
<1>12. ASSUME NEW k \in DOMAIN fed'
       PROVE  \/ k \in DOMAIN fed /\ fed'[k] = fed[k]
              \/ \E i \in DOMAIN items : /\ fed'[k].data = items[i]
                                         /\ fed'[k].stream = s /\ fed'[k].pts = stamp
  <2>1. CASE k \in 1 .. n
    BY <1>2, <1>10, <2>1
  <2>2. CASE k \in n + 1 .. n + m
    <3>1. k - n \in 1 .. m /\ fed'[k] = new[k - n]
      BY ONLY <1>10, <2>2
    <3>. QED BY <1>2, <1>7, <3>1
  <2>. QED BY <1>2, <1>10, <2>1, <2>2
<1>. QED BY <1>4, <1>5, <1>10, <1>11, <1>12 DEF ConnInv, SinceFirst

\* The PTS a video PES is demuxed with: that of its frame, but the rest of a torn frame has that
\* of the next.
LEMMA StampOf ==
  ASSUME CameraInv, ReaderInv, DemuxerType, LastPts, NEW n \in DOMAIN units, VideoUnit(n),
         Pos = 3 * (n - 1)
  PROVE  /\ PesPts(units[n]) \in Nat
         /\ setting.first = NoPts => PesPts(units[n]) = 0
         /\ setting.first # NoPts =>
              /\ PesPts(units[n]) \in Near(FrameOf(n))
              /\ PesPts(units[n]) = PtsAt(FrameOf(n)) \/ FrameOf(n) \in torn
              /\ \/ PesPts(units[n]) = PtsAt(FrameOf(n))
                 \/ \E m \in 1 .. n - 1 : VideoUnit(m) /\ FrameOf(m) = FrameOf(n)
<1>. DEFINE u == units[n]
            f == FrameOf(n)
<1>1. /\ units \in Seq(UnitType) /\ n \in Nat /\ u.pts \in Nat \cup {NoPts} /\ pesPts \in Nat
      /\ setting \in Settings
      /\ setting.first = NoPts => u.pts = NoPts /\ pesPts = 0
  <2>1. units \in Seq(UnitType) /\ n \in Nat
    BY DEF ReaderInv
  <2>2. u \in UnitType
    BY <2>1
  <2>3. u.pts \in Nat \cup {NoPts}
    BY <2>2 DEF UnitType
  <2>4. setting \in Settings /\ (setting.first = NoPts => u.pts = NoPts)
    BY DEF CameraInv, CameraType
  <2>. QED BY <2>1, <2>3, <2>4 DEF DemuxerType, LastPts
<1>2. /\ f \in DOMAIN frames /\ u.pts \in {PtsAt(f), NoPts} /\ f \in Nat \ {0}
  BY DEF CameraInv, PartsOfFrames, VideoUnit, CameraType
<1>3. PesPts(u) \in Nat /\ (setting.first = NoPts => PesPts(u) = 0)
  BY <1>1 DEF PesPts
<1>4. CASE u.pts # NoPts
  BY <1>2, <1>3, <1>4 DEF PesPts, Near
<1>5. ASSUME u.pts = NoPts, setting.first # NoPts
      PROVE  /\ PesPts(u) \in Near(f)
             /\ PesPts(u) = PtsAt(f) \/ f \in torn
             /\ \E m \in 1 .. n - 1 : VideoUnit(m) /\ FrameOf(m) = f
  <2>1. /\ n > 1 /\ units[n - 1].pts \in Near(f)
        /\ units[n - 1].pts = PtsAt(f) \/ f \in torn
        /\ \E m \in 1 .. n - 1 : VideoUnit(m) /\ FrameOf(m) = f
    BY <1>5 DEF CameraInv, RestsFollow
  <2>2. n - 1 \in DOMAIN units /\ 3 * (n - 1) <= Pos /\ Pos < 3 * (n - 1) + 3
    BY <1>1, <2>1
  <2>3. units[n - 1].pts # NoPts
    <3>1. PtsAt(f) # NoPts /\ PtsAt(f + 1) # NoPts
      <4>. DEFINE g == f + 1
      <4>1. g = f + 1 /\ g \in Nat
        BY <1>2
      <4>2. PtsAt(f) = setting.first + f - 1 /\ PtsAt(g) = setting.first + g - 1
        <5>. HIDE DEF f, g
        <5>. QED BY <1>1, <1>2, <1>5, <4>1, PtsAtType
      <4>3. setting.first \in Nat
        BY <1>1, <1>5, PtsAtType DEF NoPts
      <4>. HIDE DEF f
      <4>. QED BY <1>2, <4>1, <4>2, <4>3 DEF NoPts
    <3>. QED BY <2>1, <3>1 DEF Near
  <2>4. pesPts = units[n - 1].pts
    BY <2>2, <2>3 DEF LastPts
  <2>5. PesPts(u) = units[n - 1].pts
    BY <1>5, <2>4 DEF PesPts
  <2>. QED BY <2>1, <2>5
<1>. QED BY <1>3, <1>4, <1>5

\* What is collected, and its PTS, after a video PES.
LEMMA CollectStep ==
  ASSUME PtsInv, NEW n \in DOMAIN units, VideoUnit(n), Pos = 3 * (n - 1), Pos' = 3 * n,
         UNCHANGED camera, cid'["video"],
         NEW stamp, stamp = PesPts(units[n]),
         NEW data, data = units[n].data,
         \/ /\ pts = 0 \/ stamp \in {pts, 0}
            /\ buf' = buf \o data
            /\ pts' = IF pts = 0 THEN stamp ELSE pts
         \/ /\ pts # 0 /\ stamp \notin {pts, 0}
            /\ buf' = data
            /\ pts' = stamp
  PROVE  buf' \in Seq(Token) /\ pts' \in Nat /\ (setting.first = NoPts => pts' = 0) /\ Collected'
<1>. DEFINE f == FrameOf(n)
            a == setting.first
<1>1. /\ buf \in Seq(Token) /\ pts \in Nat /\ (a = NoPts => pts = 0) /\ a \in Nat \cup {NoPts}
      /\ Len(frames) \in Nat /\ DOMAIN frames = 1 .. Len(frames) /\ n \in Nat
      /\ units \in Seq(UnitType) /\ Len(units) \in Nat /\ DOMAIN units = 1 .. Len(units)
  <2>1. units \in Seq(UnitType) /\ setting \in Settings
    BY DEF PtsInv, ReaderInv, CameraInv, CameraType
  <2>2. a \in Nat \cup {NoPts}
    BY <2>1, PtsAtType DEF NoPts
  <2>3. /\ Len(units) \in Nat /\ DOMAIN units = 1 .. Len(units)
        /\ Len(frames) \in Nat /\ DOMAIN frames = 1 .. Len(frames)
    BY <2>1, SendFacts DEF PtsInv
  <2>4. n \in Nat
    BY <2>3
  <2>. QED BY <2>1, <2>2, <2>3, <2>4 DEF PtsInv, DemuxerType, LastPts
<1>2. /\ data \in Seq(Token) /\ data # <<>> /\ f \in 1 .. Len(frames)
      /\ \A i \in DOMAIN data : data[i].frame = f
  <2>1. units[n] \in UnitType
    BY <1>1
  <2>. QED BY <1>1, <2>1 DEF PtsInv, CameraInv, PartsOfFrames, VideoUnit, UnitType
<1>3. /\ stamp \in Nat
      /\ a = NoPts => stamp = 0
      /\ a # NoPts =>
           /\ stamp \in Near(f)
           /\ stamp = PtsAt(f) \/ f \in torn
           /\ \/ stamp = PtsAt(f)
              \/ \E m \in 1 .. n - 1 : VideoUnit(m) /\ FrameOf(m) = f
  BY StampOf DEF PtsInv
<1>4. buf' \in Seq(Token) /\ pts' \in Nat
  <2>1. buf' = buf \o data \/ buf' = data
    OBVIOUS
  <2>2. buf \o data \in Seq(Token)
    BY <1>1, <1>2
  <2>3. pts' = pts \/ pts' = stamp
    OBVIOUS
  <2>4. buf' \in Seq(Token)
    BY <1>2, <2>1, <2>2
  <2>5. pts' \in Nat
    BY <1>1, <1>3, <2>3
  <2>. QED BY <2>4, <2>5
<1>5. a = NoPts => pts' = 0
  BY <1>1, <1>3
<1>6. /\ \A k : VideoUnit(k)' <=> VideoUnit(k)
      /\ \A k : FrameOf(k)' = FrameOf(k)
      /\ \A g : PtsAt(g)' = PtsAt(g)
      /\ \A g, q : Fits(g, q)' <=> Fits(g, q)
      /\ units' = units /\ frames' = frames /\ setting' = setting
  BY DEF camera, VideoUnit, FrameOf, PtsAt, Fits
<1>7. ASSUME a # NoPts
      PROVE  /\ \A i \in DOMAIN buf' : Fits(buf'[i].frame, pts')
             /\ pts' <= PtsAt(Len(frames)) + 1
             /\ \A k \in DOMAIN units : VideoUnit(k) /\ 3 * n < 3 * k => pts' <= PtsAt(FrameOf(k)) + 1
             /\ pts' = 0 /\ buf' # <<>> =>
                  /\ a = 0
                  /\ \A k \in DOMAIN units : VideoUnit(k) /\ 3 * k <= 3 * n => FrameOf(k) = 1
  <2>1. a \in Nat /\ \A g \in Nat : PtsAt(g) = a + g - 1
    BY <1>1, <1>7 DEF PtsAt
  <2>2. f \in Nat \ {0} /\ stamp \in {a + f - 1, a + f} /\ (stamp = a + f - 1 \/ f \in torn)
    <3>1. f \in Nat \ {0} /\ f + 1 \in Nat
      <4>1. f \in 1 .. Len(frames) /\ Len(frames) \in Nat
        BY <1>1, <1>2
      <4>. HIDE DEF f
      <4>. QED BY ONLY <4>1
    <3>2. PtsAt(f) = a + f - 1 /\ PtsAt(f + 1) = a + (f + 1) - 1
      BY <2>1, <3>1
    <3>3. a + (f + 1) - 1 = a + f
      BY <2>1, <3>1
    <3>. QED BY <1>3, <1>7, <3>1, <3>2, <3>3 DEF Near
  <2>3. ASSUME NEW k \in DOMAIN units, VideoUnit(k)
        PROVE  /\ FrameOf(k) \in 1 .. Len(frames)
               /\ n < k => f <= FrameOf(k)
               /\ k < n => FrameOf(k) <= f
    <3>1. FrameOf(k) \in 1 .. Len(frames)
      BY <1>1, <2>3 DEF PtsInv, CameraInv, PartsOfFrames, VideoUnit
    <3>2. n < k => n \in 1 .. k - 1
      BY <1>1
    <3>3. k < n => k \in 1 .. n - 1
      BY <1>1
    <3>. QED BY <2>3, <3>1, <3>2, <3>3 DEF PtsInv, CameraInv, FramesInOrder
  <2>4. /\ \A i \in DOMAIN buf : Fits(buf[i].frame, pts)
        /\ pts <= PtsAt(Len(frames)) + 1
        /\ \A k \in DOMAIN units : VideoUnit(k) /\ Pos < 3 * k => pts <= PtsAt(FrameOf(k)) + 1
        /\ pts = 0 /\ buf # <<>> =>
             /\ a = 0
             /\ \A k \in DOMAIN units : VideoUnit(k) /\ 3 * k <= Pos => FrameOf(k) = 1
    BY <1>7 DEF PtsInv, Collected
  <2>5. pts <= a + f
    <3>1. Pos < 3 * n
      BY <1>1
    <3>. QED BY <2>1, <2>2, <2>4, <3>1
  <2>6. Fits(f, stamp)
    <3>1. PtsAt(f) = a + f - 1
      BY <2>1, <2>2
    <3>. QED BY <2>2, <3>1 DEF Fits
  <2>7. pts # 0 /\ stamp = 0 => Fits(f, pts)
    <3>1. SUFFICES ASSUME pts # 0, stamp = 0, f \notin torn
                   PROVE  PtsAt(f) = 0 /\ pts = PtsAt(f + 1)
      BY DEF Fits
    <3>2. f = 1 /\ a = 0 /\ pts = 1
      <4>1. a + f - 1 = 0
        BY <2>2, <3>1
      <4>2. a \in Nat /\ f \in Nat \ {0}
        BY <2>1, <2>2
      <4>3. pts \in Nat /\ pts # 0 /\ pts <= a + f
        BY <1>1, <2>5, <3>1
      <4>. HIDE DEF a, f
      <4>. QED BY <4>1, <4>2, <4>3
    <3>3. PtsAt(1) = 0 /\ PtsAt(1 + 1) = 1
      BY <2>1, <3>2
    <3>. QED BY <3>2, <3>3
  <2>8. ASSUME NEW g, Fits(g, 0), g \in Nat, pts = 0, buf # <<>>
        PROVE  Fits(g, stamp)
    <3>1. a = 0 /\ \A k \in DOMAIN units : VideoUnit(k) /\ k < n => FrameOf(k) = 1
      <4>1. \A k \in DOMAIN units : k < n => 3 * k <= Pos
        BY <1>1
      <4>. QED BY <2>4, <2>8, <4>1
    <3>2. f <= 2
      <4>1. SUFFICES ASSUME f > 2 PROVE FALSE
        BY <2>2
      <4>2. 2 \in DOMAIN frames
        BY <1>1, <1>2, <4>1
      <4>3. PICK k \in DOMAIN units : VideoUnit(k) /\ FrameOf(k) = 2
        BY <4>2 DEF PtsInv, CameraInv, FramesInOrder
      <4>4. k # n /\ ~(n < k)
        BY <2>2, <2>3, <4>1, <4>3
      <4>5. k < n
        BY <1>1, <4>4
      <4>. QED BY <3>1, <4>3, <4>5
    <3>3. f = 2 => stamp = 1
      <4>1. SUFFICES ASSUME f = 2 PROVE stamp = PtsAt(f)
        BY <2>1, <3>1
      <4>2. \A m \in 1 .. n - 1 : m \in DOMAIN units /\ m < n
        BY <1>1
      <4>. QED BY <1>3, <1>7, <3>1, <4>1, <4>2
    <3>4. stamp = 0 \/ stamp = 1
      BY <2>2, <3>1, <3>2, <3>3
    <3>5. SUFFICES ASSUME g \notin torn PROVE g = 1
      <4>1. PtsAt(1) = 0 /\ PtsAt(1 + 1) = 1
        BY <2>1, <3>1
      <4>. QED BY <3>4, <4>1 DEF Fits
    <3>6. PtsAt(g) = g - 1 /\ (0 = PtsAt(g) \/ PtsAt(g) = 0)
      BY <2>1, <2>8, <3>1, <3>5 DEF Fits
    <3>. QED BY <2>8, <3>6
  <2>9. ASSUME NEW i \in DOMAIN buf'
        PROVE  Fits(buf'[i].frame, pts')
    <3>1. CASE buf' = data /\ pts' = stamp
      BY <1>2, <2>6, <3>1
    <3>2. CASE /\ pts = 0 \/ stamp \in {pts, 0}
               /\ buf' = buf \o data
               /\ pts' = IF pts = 0 THEN stamp ELSE pts
      <4>1. /\ DOMAIN buf' = 1 .. Len(buf) + Len(data)
            /\ \A k \in 1 .. Len(buf) : buf'[k] = buf[k]
            /\ \A k \in Len(buf) + 1 .. Len(buf) + Len(data) :
                 k - Len(buf) \in 1 .. Len(data) /\ buf'[k] = data[k - Len(buf)]
        <5>1. buf \in Seq(Token) /\ data \in Seq(Token) /\ buf' = buf \o data
          BY <1>1, <1>2, <3>2
        <5>2. /\ DOMAIN (buf \o data) = 1 .. Len(buf) + Len(data)
              /\ \A k \in 1 .. Len(buf) : (buf \o data)[k] = buf[k]
              /\ \A k \in Len(buf) + 1 .. Len(buf) + Len(data) :
                   k - Len(buf) \in 1 .. Len(data) /\ (buf \o data)[k] = data[k - Len(buf)]
          BY ONLY <5>1, Joined
        <5>. QED BY ONLY <5>1, <5>2
      <4>2. Len(buf) \in Nat /\ Len(data) \in Nat
        BY <1>1, <1>2
      <4>3. CASE i \in 1 .. Len(buf)
        <5>1. i \in DOMAIN buf /\ buf'[i] = buf[i] /\ buf[i] \in Token /\ buf # <<>>
          <6>1. buf \in Seq(Token) /\ buf'[i] = buf[i]
            BY <1>1, <4>1, <4>3
          <6>. QED BY ONLY <4>3, <6>1
        <5>2. Fits(buf[i].frame, pts) /\ buf[i].frame \in Nat
          BY <2>4, <5>1 DEF Token
        <5>3. CASE pts = 0
          BY <2>8, <3>2, <5>1, <5>2, <5>3
        <5>4. CASE pts # 0
          BY <3>2, <5>1, <5>2, <5>4
        <5>. QED BY <5>3, <5>4
      <4>4. CASE i \in Len(buf) + 1 .. Len(buf) + Len(data)
        <5>1. buf'[i].frame = f
          <6>1. i - Len(buf) \in 1 .. Len(data) /\ buf'[i] = data[i - Len(buf)]
            BY <4>1, <4>4
          <6>2. DOMAIN data = 1 .. Len(data)
            BY <1>2
          <6>. QED BY <1>2, <6>1, <6>2
        <5>2. CASE pts = 0
          BY <2>6, <3>2, <5>1, <5>2
        <5>3. CASE pts # 0
          BY <2>6, <2>7, <3>2, <5>1, <5>3
        <5>. QED BY <5>2, <5>3
      <4>. QED BY <4>1, <4>2, <4>3, <4>4
    <3>. QED BY <3>1, <3>2
  <2>10. pts' = pts \/ pts' = stamp
    OBVIOUS
  <2>14. pts' <= a + f
    <3>1. a \in Nat /\ f \in Nat /\ stamp \in {a + f - 1, a + f} /\ pts <= a + f
      BY <2>1, <2>2, <2>5
    <3>. HIDE DEF a, f
    <3>. QED BY <2>10, <3>1
  <2>11. pts' <= PtsAt(Len(frames)) + 1
    <3>. DEFINE h == Len(frames)
    <3>1. a \in Nat /\ f \in Nat /\ h \in Nat /\ f <= h /\ PtsAt(h) = a + h - 1
      BY <1>1, <1>2, <2>1
    <3>. HIDE DEF a, f, h
    <3>2. PtsAt(h) + 1 = a + h
      BY <3>1
    <3>3. pts' <= a + h
      BY <1>4, <2>14, <3>1
    <3>4. pts' <= PtsAt(h) + 1
      BY <3>2, <3>3
    <3>. QED BY <3>4 DEF h
  <2>12. ASSUME NEW k \in DOMAIN units, VideoUnit(k), 3 * n < 3 * k
         PROVE  pts' <= PtsAt(FrameOf(k)) + 1
    <3>. DEFINE h == FrameOf(k)
    <3>1. h \in Nat
      BY <1>1, <2>3, <2>12
    <3>2. n < k
      BY <1>1, <2>12
    <3>3. f <= h
      BY <2>3, <2>12, <3>2
    <3>4. PtsAt(h) = a + h - 1
      <4>. HIDE DEF h
      <4>. QED BY <2>1, <3>1
    <3>5. a \in Nat /\ f \in Nat
      BY <2>1, <2>2
    <3>. HIDE DEF h, a, f
    <3>6. PtsAt(h) + 1 = a + h
      BY <3>1, <3>4, <3>5
    <3>7. pts' <= a + h
      BY <1>4, <2>14, <3>1, <3>3, <3>5
    <3>8. pts' <= PtsAt(h) + 1
      BY <3>6, <3>7
    <3>. QED BY <3>8 DEF h
  <2>13. ASSUME pts' = 0
         PROVE  /\ a = 0
                /\ \A k \in DOMAIN units : VideoUnit(k) /\ 3 * k <= 3 * n => FrameOf(k) = 1
    <3>1. stamp = 0
      BY <2>13
    <3>2. a = 0 /\ f = 1
      <4>1. a \in Nat /\ f \in Nat \ {0} /\ (0 = a + f - 1 \/ 0 = a + f)
        BY <2>1, <2>2, <3>1
      <4>. HIDE DEF a, f
      <4>. QED BY <4>1
    <3>3. ASSUME NEW k \in DOMAIN units, VideoUnit(k), 3 * k <= 3 * n
          PROVE  FrameOf(k) = 1
      <4>1. k = n \/ k < n
        BY <1>1, <3>3
      <4>2. FrameOf(k) \in 1 .. Len(frames) /\ FrameOf(k) <= 1
        BY <2>3, <3>2, <3>3, <4>1
      <4>. QED BY <1>1, <4>2
    <3>. QED BY <3>2, <3>3
  <2>. QED BY <2>9, <2>11, <2>12, <2>13
<1>8. buf' # <<>> => cid'["video"]
  OBVIOUS
<1>9. Collected'
  <2>1. CASE a = NoPts
    BY <1>6, <1>8, <2>1 DEF Collected
  <2>2. CASE a # NoPts
    <3>1. Pos' = 3 * n
      OBVIOUS
    <3>. HIDE DEF a, f
    <3>2. a = setting'.first
      BY <1>6 DEF a
    <3>. QED BY <1>6, <1>7, <1>8, <2>2, <3>1, <3>2 DEF Collected
  <2>. QED BY <2>1, <2>2
<1>. QED BY <1>4, <1>5, <1>9

\* The camera is as it was.
LEMMA CameraKept ==
  ASSUME CameraInv, UNCHANGED camera
  PROVE  CameraInv'
<1>1. /\ \A n : VideoUnit(n)' <=> VideoUnit(n)
      /\ \A n : FrameOf(n)' = FrameOf(n)
      /\ \A f : Near(f)' = Near(f) /\ PtsAt(f)' = PtsAt(f)
      /\ UNCHANGED <<setting, units, frames, rest, torn>>
  BY DEF camera, VideoUnit, FrameOf, Near, PtsAt
<1>2. CameraType'
  BY <1>1 DEF CameraInv, CameraType
<1>3. PartsOfFrames'
  BY <1>1 DEF CameraInv, PartsOfFrames
<1>4. FramesInOrder'
  BY <1>1 DEF CameraInv, FramesInOrder
<1>5. RestsFollow'
  BY <1>1 DEF CameraInv, RestsFollow
<1>6. RestOpen'
  BY <1>1 DEF CameraInv, RestOpen
<1>. QED BY <1>2, <1>3, <1>4, <1>5, <1>6 DEF CameraInv

\* A step that demuxes no video leaves what is collected as it was.
LEMMA CollectedKept ==
  ASSUME Collected, Pos \in Int, Pos' \in Int, Pos <= Pos', units \in Seq(UnitType),
         UNCHANGED camera, UNCHANGED <<buf, pts>>, cid["video"] => cid'["video"],
         \A k \in DOMAIN units : VideoUnit(k) /\ 3 * k <= Pos' => 3 * k <= Pos \/ buf = <<>>
  PROVE  Collected'
<1>1. /\ \A n : VideoUnit(n)' <=> VideoUnit(n)
      /\ \A n : FrameOf(n)' = FrameOf(n)
      /\ \A f : PtsAt(f)' = PtsAt(f)
      /\ \A f, q : Fits(f, q)' <=> Fits(f, q)
      /\ units' = units /\ frames' = frames /\ setting' = setting
  BY DEF camera, VideoUnit, FrameOf, PtsAt, Fits
<1>2. buf' # <<>> => cid'["video"]
  BY DEF Collected
<1>3. ASSUME setting.first # NoPts
      PROVE  /\ \A i \in DOMAIN buf : Fits(buf[i].frame, pts)
             /\ pts <= PtsAt(Len(frames)) + 1
             /\ \A n \in DOMAIN units : VideoUnit(n) /\ Pos' < 3 * n => pts <= PtsAt(FrameOf(n)) + 1
             /\ pts = 0 /\ buf # <<>> =>
                  /\ setting.first = 0
                  /\ \A n \in DOMAIN units : VideoUnit(n) /\ 3 * n <= Pos' => FrameOf(n) = 1
  <2>1. \A n \in DOMAIN units : Pos' < 3 * n => Pos < 3 * n
    <3>1. \A n \in DOMAIN units : n \in Nat
      OBVIOUS
    <3>2. ASSUME NEW n \in Nat, NEW p \in Int, NEW q \in Int, p <= q, q < 3 * n
          PROVE  p < 3 * n
      BY <3>2
    <3>. QED BY <3>1, <3>2
  <2>. QED BY <1>3, <2>1 DEF Collected
<1>4. buf' = buf /\ pts' = pts
  OBVIOUS
<1>. QED BY Zenon, <1>1, <1>2, <1>3, <1>4 DEF Collected

\* Nor does a step that reads no more than a part of a unit without PTS change the last PTS.
LEMMA LastPtsKept ==
  ASSUME LastPts, UNCHANGED camera, pesPts' = pesPts, pts' = pts,
         \A k \in DOMAIN units : 3 * k <= Pos' /\ Pos' < 3 * k + 3 /\ units[k].pts # NoPts =>
                                   3 * k <= Pos /\ Pos < 3 * k + 3
  PROVE  LastPts'
<1>1. units' = units /\ setting' = setting
  BY DEF camera
<1>. QED BY <1>1 DEF LastPts

\* What is read behind a unit.
LEMMA ReadThree ==
  ASSUME NEW n \in Nat \ {0}, NEW k \in Nat \ {0}
  PROVE  /\ 3 * k <= 3 * n /\ k # n => 3 * k <= 3 * (n - 1)
         /\ 3 * k <= 3 * n /\ 3 * n < 3 * k + 3 => k = n
OBVIOUS

\* Video or not, PES or not: a unit that is read.
LEMMA UnitStep ==
  ASSUME PtsInv, ConnInv, PtsOfFrame, Unit
  PROVE  PtsInv' /\ ConnInv' /\ PtsOfFrame'
<1>. DEFINE n == bs[1][1]
            u == units[n]
<1>1. /\ ReaderInv' /\ n \in DOMAIN units /\ Pos = 3 * (n - 1) /\ Pos' = Pos + 3
  BY ReaderUnit DEF PtsInv
<1>2. UNCHANGED camera
  BY DEF Unit
<1>3. /\ CASE u.kind = "pack"   -> PackHeader
           [] u.kind = "passed" -> SystemHeader \/ OtherUnit
           [] u.kind = "psm" -> StreamMap(u)
           [] u.kind \in Streams -> Pes(n)
  BY DEF Unit
<1>4. /\ units \in Seq(UnitType) /\ n \in Nat \ {0} /\ u \in UnitType /\ Pos' = 3 * n /\ Pos \in Int
      /\ DOMAIN units = 1 .. Len(units) /\ Len(units) \in Nat
  <2>1. units \in Seq(UnitType) /\ Pos \in Int
    BY PosType DEF PtsInv, ReaderInv
  <2>2. DOMAIN units = 1 .. Len(units) /\ Len(units) \in Nat /\ u \in UnitType
    BY <1>1, <2>1
  <2>3. n \in Nat \ {0}
    BY ONLY <1>1, <2>2
  <2>. HIDE DEF n, u
  <2>4. Pos' = 3 * n
    BY ONLY <1>1, <2>1, <2>3
  <2>. QED BY <2>1, <2>2, <2>3, <2>4
<1>5. u.kind \in {"pack", "passed", "psm", "video", "audio"} /\ u.pts \in Nat \cup {NoPts}
  BY <1>4 DEF UnitType, Streams
<1>6. CameraInv'
  BY <1>2, CameraKept DEF PtsInv
<1>7. setting' = setting /\ units' = units /\ torn' = torn /\ \A f, p : Fits(f, p)' <=> Fits(f, p)
  BY <1>2 DEF camera, Fits, PtsAt
<1>. HIDE DEF n, u
<1>8. ASSUME u.kind # "video", UNCHANGED <<buf, pts>>, cid["video"] => cid'["video"]
      PROVE  Collected'
  <2>1. ASSUME NEW k \in DOMAIN units, VideoUnit(k), 3 * k <= Pos'
        PROVE  3 * k <= Pos
    <3>1. k # n /\ k \in Nat \ {0}
      BY <1>4, <1>8, <2>1 DEF VideoUnit, u
    <3>2. 3 * k <= 3 * n
      BY <1>4, <2>1
    <3>. QED BY <1>1, <1>4, <3>1, <3>2, ReadThree
  <2>2. Pos <= Pos' /\ Pos' \in Int
    BY <1>1, <1>4
  <2>. QED BY <1>2, <1>4, <1>8, <2>1, <2>2, CollectedKept DEF PtsInv
<1>9. ASSUME setting.first = NoPts => pesPts' = 0 /\ pts' = 0,
             u.pts # NoPts => pesPts' = u.pts
      PROVE  LastPts'
  <2>1. ASSUME NEW k \in DOMAIN units, 3 * k <= Pos', Pos' < 3 * k + 3
        PROVE  k = n
    <3>1. k \in Nat \ {0} /\ 3 * k <= 3 * n /\ 3 * n < 3 * k + 3
      BY <1>4, <2>1
    <3>. QED BY <1>4, <3>1, ReadThree
  <2>. QED BY <1>7, <1>9, <2>1 DEF LastPts, u
<1>10. ASSUME UNCHANGED conn
       PROVE  ConnInv' /\ PtsOfFrame'
  <2>1. ConnInv'
    BY <1>10 DEF ConnInv, SinceFirst, conn
  <2>2. fed' = fed
    BY <1>10 DEF conn
  <2>. QED BY <1>7, <2>1, <2>2 DEF PtsOfFrame, PtsAt
<1>11. CASE u.kind \in {"pack", "passed"}
  <2>1. UNCHANGED <<demuxer, conn>>
    BY <1>3, <1>11 DEF PackHeader, SystemHeader, OtherUnit, Streams
  <2>2. UNCHANGED <<pesPts, cid, buf, pts, verify>>
    BY <2>1 DEF demuxer
  <2>3. u.pts = NoPts
    BY <1>1, <1>11 DEF PtsInv, CameraInv, CameraType, u, Streams
  <2>4. Collected'
    BY <1>8, <1>11, <2>2
  <2>5. LastPts'
    BY <1>9, <2>2, <2>3 DEF PtsInv, LastPts
  <2>6. DemuxerType'
    BY <2>2 DEF PtsInv, DemuxerType
  <2>. QED BY <1>1, <1>6, <1>10, <2>1, <2>4, <2>5, <2>6 DEF PtsInv
<1>12. CASE u.kind = "psm"
  <2>1. StreamMap(u)
    BY <1>3, <1>12 DEF Streams
  <2>2. UNCHANGED <<pesPts, buf, pts, verify, conn>> /\ cid' = [s \in Streams |-> TRUE]
    BY <2>1 DEF StreamMap
  <2>3. u.pts = NoPts
    BY <1>1, <1>12 DEF PtsInv, CameraInv, CameraType, u, Streams
  <2>4. Collected'
    BY <1>8, <1>12, <2>2 DEF Streams
  <2>5. LastPts'
    BY <1>9, <2>2, <2>3 DEF PtsInv, LastPts
  <2>6. DemuxerType'
    BY <2>2 DEF PtsInv, DemuxerType
  <2>. QED BY <1>1, <1>6, <1>10, <2>2, <2>4, <2>5, <2>6 DEF PtsInv
<1>13. ASSUME u.kind \in Streams
       PROVE  /\ Pes(n) /\ pesPts' = PesPts(u) /\ PesPts(u) \in Nat
              /\ setting.first = NoPts => PesPts(u) = 0
              /\ u.pts # NoPts => pesPts' = u.pts
  <2>1. Pes(n)
    BY <1>3, <1>13 DEF Streams
  <2>2. pesPts \in Nat /\ (setting.first = NoPts => pesPts = 0 /\ u.pts = NoPts)
    BY <1>1 DEF PtsInv, DemuxerType, LastPts, CameraInv, CameraType, u
  <2>. QED BY <1>5, <2>1, <2>2 DEF Pes, PesPts, u
<1>14. CASE u.kind = "audio"
  <2>1. AudioPes(n)
    BY <1>13, <1>14 DEF Pes, Streams, u
  <2>2. /\ UNCHANGED <<buf, pts, verify>>
        /\ cid' = [cid EXCEPT !["audio"] = @ \/ cid["video"]]
        /\ IF cid'["audio"] THEN OnFrame("audio", <<n>>, PesPts(u)) ELSE UNCHANGED conn
    BY <2>1 DEF AudioPes, u
  <2>3. cid \in [Streams -> BOOLEAN]
    BY DEF PtsInv, DemuxerType
  <2>4. cid' \in [Streams -> BOOLEAN] /\ cid'["video"] = cid["video"]
    BY <2>2, <2>3 DEF Streams
  <2>5. DemuxerType'
    BY <1>13, <1>14, <2>2, <2>4 DEF PtsInv, DemuxerType, Streams
  <2>6. Collected'
    BY <1>8, <1>14, <2>2, <2>4
  <2>7. LastPts'
    BY <1>9, <1>13, <1>14, <2>2 DEF PtsInv, LastPts, Streams
  <2>8. ConnInv' /\ PtsOfFrame'
    <3>1. CASE ~cid'["audio"]
      BY <1>10, <2>2, <3>1
    <3>2. CASE cid'["audio"]
      <4>. DEFINE items == <<n>>
                  stamp == PesPts(u)
      <4>1. /\ OnFrame("audio", items, stamp) /\ "audio" \in Streams /\ stamp \in Nat
            /\ items \in Seq(Nat \cup Seq(Token))
        BY <1>4, <1>13, <1>14, <2>2, <3>2 DEF Streams
      <4>. HIDE DEF items, stamp
      <4>2. /\ ConnInv'
            /\ \A k \in DOMAIN fed' :
                 \/ k \in DOMAIN fed /\ fed'[k] = fed[k]
                 \/ \E i \in DOMAIN items : /\ fed'[k].data = items[i]
                                            /\ fed'[k].stream = "audio" /\ fed'[k].pts = stamp
        BY <4>1, OnFrameStep
      <4>3. PtsOfFrame'
        BY <1>7, <4>2 DEF PtsOfFrame, PtsAt
      <4>. QED BY <4>2, <4>3
    <3>. QED BY <3>1, <3>2
  <2>. QED BY <1>1, <1>6, <2>5, <2>6, <2>7, <2>8 DEF PtsInv
<1>15. CASE u.kind = "video"
  <2>. DEFINE stamp == PesPts(u)
              data == u.data
              Demuxed == /\ DemuxH26x(data, stamp) /\ cid'["video"]
              Kept == UNCHANGED <<buf, pts, conn>> /\ ~cid["video"]
  <2>1. VideoPes(u) /\ VideoUnit(n)
    BY <1>1, <1>13, <1>15 DEF Pes, Streams, u, VideoUnit
  <2>2. cid \in [Streams -> BOOLEAN] /\ verify \in Seq(Token) /\ data \in Seq(Token)
    BY <1>4 DEF PtsInv, DemuxerType, UnitType
  <2>3. /\ cid' \in [Streams -> BOOLEAN] /\ verify' \in Seq(Token)
        /\ cid["video"] => cid'["video"]
        /\ Demuxed \/ Kept
    <3>1. CASE cid["video"]
      BY <2>1, <2>2, <3>1 DEF VideoPes
    <3>2. CASE ~cid["video"]
      <4>. DEFINE seen == (IF Len(verify) > VerifyMax THEN <<>> ELSE verify) \o data
      <4>1. /\ verify' = seen /\ cid' = [cid EXCEPT !["video"] = IsH264(seen)]
            /\ IF IsH264(seen) THEN DemuxH26x(data, stamp) ELSE UNCHANGED <<buf, pts, conn>>
        BY <2>1, <3>2 DEF VideoPes
      <4>2. seen \in Seq(Token)
        BY <2>2
      <4>3. IsH264(seen) \in BOOLEAN
        BY DEF IsH264
      <4>. HIDE DEF seen
      <4>4. cid' \in [Streams -> BOOLEAN] /\ cid'["video"] = IsH264(seen)
        BY <2>2, <4>1, <4>3 DEF Streams
      <4>. QED BY <3>2, <4>1, <4>2, <4>4
    <3>. QED BY <3>1, <3>2
  <2>4. CASE Kept
    <3>1. /\ buf' = buf /\ pts' = pts /\ UNCHANGED conn /\ buf = <<>>
      BY <2>4 DEF PtsInv, Collected
    <3>2. Collected'
      <4>1. Pos <= Pos' /\ Pos' \in Int
        BY <1>1, <1>4
      <4>. QED BY <1>2, <1>4, <2>3, <3>1, <4>1, CollectedKept DEF PtsInv
    <3>3. DemuxerType'
      BY <1>13, <1>15, <2>3, <3>1 DEF PtsInv, DemuxerType, Streams
    <3>4. LastPts'
      BY <1>9, <1>13, <1>15, <3>1 DEF PtsInv, LastPts, Streams
    <3>. QED BY <1>1, <1>6, <1>10, <3>1, <3>2, <3>3, <3>4 DEF PtsInv
  <2>5. CASE Demuxed
    <3>1. \/ /\ pts = 0 \/ stamp \in {pts, 0}
             /\ buf' = buf \o data
             /\ pts' = IF pts = 0 THEN stamp ELSE pts
             /\ UNCHANGED conn
          \/ /\ pts # 0 /\ stamp \notin {pts, 0}
             /\ buf' = data
             /\ pts' = stamp
             /\ UNCHANGED conn \/ OnFrame("video", Nals(buf), pts)
      BY <2>5 DEF DemuxH26x
    <3>2. buf' \in Seq(Token) /\ pts' \in Nat /\ (setting.first = NoPts => pts' = 0) /\ Collected'
      <4>1. /\ stamp = PesPts(units[n]) /\ data = units[n].data
            /\ Pos = 3 * (n - 1) /\ Pos' = 3 * n /\ cid'["video"]
        BY <1>1, <1>4, <2>5 DEF u
      <4>. HIDE DEF stamp, data
      <4>. QED BY <1>1, <1>2, <2>1, <3>1, <4>1, CollectStep
    <3>3. DemuxerType'
      BY <1>13, <1>15, <2>3, <3>2 DEF PtsInv, DemuxerType, Streams
    <3>4. LastPts'
      BY <1>9, <1>13, <1>15, <3>2 DEF Streams
    <3>5. ConnInv' /\ PtsOfFrame'
      <4>1. CASE UNCHANGED conn
        BY <1>10, <4>1
      <4>2. CASE pts # 0 /\ OnFrame("video", Nals(buf), pts)
        <5>. DEFINE items == Nals(buf)
        <5>1. buf \in Seq(Token) /\ pts \in Nat /\ setting.first # NoPts
          BY <4>2 DEF PtsInv, DemuxerType, LastPts
        <5>2. /\ items \in Seq(Seq(Token))
              /\ \A k \in DOMAIN items : \E i \in DOMAIN buf : items[k][1] = buf[i]
          BY <5>1, NalsType
        <5>3. items \in Seq(Nat \cup Seq(Token)) /\ "video" \in Streams
          BY <5>2 DEF Streams
        <5>. HIDE DEF items
        <5>4. /\ ConnInv'
              /\ \A k \in DOMAIN fed' :
                   \/ k \in DOMAIN fed /\ fed'[k] = fed[k]
                   \/ \E i \in DOMAIN items : /\ fed'[k].data = items[i]
                                              /\ fed'[k].stream = "video" /\ fed'[k].pts = pts
          BY <4>2, <5>1, <5>3, OnFrameStep DEF items
        <5>5. ASSUME NEW k \in DOMAIN fed', fed'[k].stream = "video"
              PROVE  Fits(fed'[k].data[1].frame, fed'[k].pts)
          <6>1. CASE k \in DOMAIN fed /\ fed'[k] = fed[k]
            BY <5>5, <6>1 DEF PtsOfFrame, Fits
          <6>2. CASE \E i \in DOMAIN items : fed'[k].data = items[i] /\ fed'[k].pts = pts
            <7>1. PICK i \in DOMAIN buf : fed'[k].data[1] = buf[i]
              BY <5>2, <6>2
            <7>2. Fits(buf[i].frame, pts)
              BY <5>1 DEF PtsInv, Collected
            <7>. QED BY <6>2, <7>1, <7>2
          <6>. QED BY <5>4, <6>1, <6>2
        <5>6. PtsOfFrame'
          BY <1>7, <5>5 DEF PtsOfFrame, Fits, PtsAt
        <5>. QED BY <5>4, <5>6
      <4>. QED BY <3>1, <4>1, <4>2
    <3>. QED BY <1>1, <1>6, <3>2, <3>3, <3>4, <3>5 DEF PtsInv
  <2>. HIDE DEF Kept, Demuxed
  <2>. QED BY <2>3, <2>4, <2>5
<1>. QED BY <1>5, <1>11, <1>12, <1>14, <1>15

\* What the camera sends is behind what was read.
LEMMA CameraPts ==
  ASSUME PtsInv, ConnInv, PtsOfFrame, Camera
  PROVE  PtsInv' /\ ConnInv' /\ PtsOfFrame'
<1>1. /\ CameraInv' /\ ReaderInv' /\ Pos' = Pos
      /\ UNCHANGED <<setting, demuxer, conn>>
      /\ Len(frames) <= Len(frames') /\ torn \subseteq torn'
  BY CameraStep DEF PtsInv
<1>2. PICK u : units' = Append(units, u)
  BY CameraStep DEF PtsInv
<1>3. /\ units \in Seq(UnitType) /\ Len(units) \in Nat /\ DOMAIN units = 1 .. Len(units)
      /\ units' \in Seq(UnitType) /\ DOMAIN units' = 1 .. Len(units')
      /\ Pos \in Int /\ Pos <= 3 * Len(units)
      /\ frames \in Seq(Seq(Token)) /\ frames' \in Seq(Seq(Token))
  BY <1>1, PosType DEF PtsInv, ReaderInv, CameraInv, CameraType
<1>4. /\ DOMAIN units' = 1 .. Len(units) + 1
      /\ \A k \in DOMAIN units : units'[k] = units[k] /\ k \in DOMAIN units'
  <2>1. Len(units') = Len(units) + 1
    BY <1>2, <1>3
  <2>. QED BY <1>2, <1>3, <2>1
<1>5. \A k \in DOMAIN units : (VideoUnit(k)' <=> VideoUnit(k)) /\ FrameOf(k)' = FrameOf(k)
  BY <1>4 DEF VideoUnit, FrameOf
<1>6. \A k \in DOMAIN units' : k \in DOMAIN units \/ (k = Len(units) + 1 /\ Pos < 3 * k)
  BY <1>3, <1>4
<1>7. /\ \A f : PtsAt(f)' = PtsAt(f)
      /\ \A f, p : Fits(f, p) => Fits(f, p)'
  BY <1>1 DEF PtsAt, Fits
<1>8. UNCHANGED <<pesPts, cid, buf, pts, verify, zeros, rtpPts, init, fed>>
  BY <1>1 DEF demuxer, conn
<1>9. DemuxerType' /\ ConnInv'
  BY <1>8 DEF PtsInv, DemuxerType, ConnInv, SinceFirst
<1>10. PtsOfFrame'
  <2>1. ASSUME NEW k \in DOMAIN fed, fed[k].stream = "video"
        PROVE  Fits(fed[k].data[1].frame, fed[k].pts)'
    <3>1. Fits(fed[k].data[1].frame, fed[k].pts)
      BY <2>1 DEF PtsOfFrame, Fits
    <3>. QED BY <1>7, <1>8, <3>1
  <2>. QED BY <1>8, <2>1 DEF PtsOfFrame, Fits
<1>11. LastPts'
  <2>1. ASSUME NEW k \in DOMAIN units', 3 * k <= Pos'
        PROVE  k \in DOMAIN units /\ units'[k] = units[k]
    <3>1. k \in Nat /\ ~(Pos < 3 * k)
      BY <1>1, <1>3, <2>1
    <3>. QED BY <1>4, <1>6, <3>1
  <2>. QED BY <1>1, <1>8, <2>1 DEF PtsInv, LastPts
<1>12. Collected'
  <2>1. ASSUME setting.first # NoPts
        PROVE  /\ \A i \in DOMAIN buf : Fits(buf[i].frame, pts)'
               /\ pts <= PtsAt(Len(frames')) + 1
               /\ \A n \in DOMAIN units' : VideoUnit(n)' /\ Pos < 3 * n => pts <= PtsAt(FrameOf(n)') + 1
               /\ pts = 0 /\ buf # <<>> =>
                    /\ setting.first = 0
                    /\ \A n \in DOMAIN units' : VideoUnit(n)' /\ 3 * n <= Pos => FrameOf(n)' = 1
    <3>. DEFINE a == setting.first
    <3>1. a \in Nat /\ pts \in Nat /\ \A f \in Nat : PtsAt(f) = a + f - 1
      BY <2>1, PtsAtType DEF PtsInv, CameraInv, CameraType, DemuxerType, NoPts, PtsAt
    <3>2. /\ \A i \in DOMAIN buf : Fits(buf[i].frame, pts)
          /\ pts <= PtsAt(Len(frames)) + 1
          /\ \A n \in DOMAIN units : VideoUnit(n) /\ Pos < 3 * n => pts <= PtsAt(FrameOf(n)) + 1
          /\ pts = 0 /\ buf # <<>> =>
               /\ a = 0
               /\ \A n \in DOMAIN units : VideoUnit(n) /\ 3 * n <= Pos => FrameOf(n) = 1
      BY <2>1 DEF PtsInv, Collected
    <3>3. Len(frames) \in Nat /\ Len(frames') \in Nat
      BY <1>3
    <3>4. \A h \in Nat : Len(frames) <= h => pts <= PtsAt(h) + 1
      <4>. DEFINE f == Len(frames)
      <4>1. f \in Nat /\ pts <= (a + f - 1) + 1
        BY <3>1, <3>2, <3>3
      <4>2. ASSUME NEW h \in Nat, f <= h
            PROVE  pts <= PtsAt(h) + 1
        <5>1. PtsAt(h) = a + h - 1
          BY <3>1
        <5>2. a \in Nat /\ pts \in Nat
          BY <3>1
        <5>. HIDE DEF a, f
        <5>. QED BY <4>1, <4>2, <5>1, <5>2
      <4>. QED BY <4>2
    <3>5. \A i \in DOMAIN buf : Fits(buf[i].frame, pts)'
      <4>1. \A i \in DOMAIN buf : Fits(buf[i].frame, pts)
        BY <3>2
      <4>. QED BY <1>7, <1>8, <4>1
    <3>6. ASSUME NEW n \in DOMAIN units', VideoUnit(n)', Pos < 3 * n
          PROVE  pts <= PtsAt(FrameOf(n)') + 1
      <4>1. CASE n \in DOMAIN units
        BY <1>5, <3>2, <3>6, <4>1
      <4>2. CASE n \notin DOMAIN units
        <5>. DEFINE g == FrameOf(n)'
        <5>1. n = Len(units) + 1 /\ n \in DOMAIN units'
          BY <1>6, <4>2
        <5>2. g \in DOMAIN frames'
          BY <1>1, <3>6 DEF CameraInv, PartsOfFrames, VideoUnit
        <5>3. g \in Nat
          BY <1>3, <5>2
        <5>4. Len(frames) <= g
          <6>1. CASE Len(frames) = 0
            BY <5>3, <6>1
          <6>2. CASE Len(frames) # 0
            <7>1. Len(frames) \in DOMAIN frames
              BY <1>3, <6>2
            <7>2. PICK k \in DOMAIN units : VideoUnit(k) /\ FrameOf(k) = Len(frames)
              BY <7>1 DEF PtsInv, CameraInv, FramesInOrder
            <7>3. k \in 1 .. n - 1 /\ VideoUnit(k)' /\ FrameOf(k)' = Len(frames)
              BY <1>3, <1>5, <5>1, <7>2
            <7>4. FrameOf(k)' <= FrameOf(n)'
              BY <1>1, <3>6, <5>1, <7>3 DEF CameraInv, FramesInOrder
            <7>. QED BY <7>3, <7>4
          <6>. QED BY <6>1, <6>2
        <5>. HIDE DEF g
        <5>5. pts <= PtsAt(g) + 1
          BY <3>4, <5>3, <5>4
        <5>. QED BY <5>5 DEF g
      <4>. QED BY <4>1, <4>2
    <3>7. ASSUME NEW n \in DOMAIN units', VideoUnit(n)', 3 * n <= Pos, pts = 0, buf # <<>>
          PROVE  FrameOf(n)' = 1
      <4>1. n \in DOMAIN units
        <5>1. n \in Nat /\ ~(Pos < 3 * n)
          BY <1>3, <3>7
        <5>. QED BY <1>6, <5>1
      <4>. QED BY <1>5, <3>2, <3>7, <4>1
    <3>. QED BY <1>1, <3>2, <3>3, <3>4, <3>5, <3>6, <3>7
  <2>2. buf # <<>> => cid["video"]
    BY DEF PtsInv, Collected
  <2>. QED BY <1>1, <1>7, <1>8, <2>1, <2>2 DEF Collected
<1>. QED BY <1>1, <1>9, <1>10, <1>11, <1>12 DEF PtsInv

\* A step that reads no unit leaves everything about PTSs as it was.
LEMMA NothingRead ==
  ASSUME PtsInv, PtsOfFrame, ReaderInv', UNCHANGED <<camera, demuxer, fed>>,
         \/ Pos' = Pos
         \/ \E b \in DOMAIN units :
              /\ units[b].kind = "pack" /\ Pos' = Pos + 1
              /\ 3 * (b - 1) <= Pos /\ Pos < 3 * b
  PROVE  PtsInv' /\ PtsOfFrame'
<1>1. /\ units \in Seq(UnitType) /\ DOMAIN units = 1 .. Len(units) /\ Len(units) \in Nat
      /\ Pos \in Int /\ Pos' \in Int /\ Pos <= Pos'
  BY PosType DEF PtsInv, ReaderInv
<1>2. UNCHANGED <<pesPts, cid, buf, pts, verify, fed>>
  BY DEF demuxer
<1>3. CameraInv'
  BY CameraKept DEF PtsInv
<1>4. DemuxerType'
  BY <1>2 DEF PtsInv, DemuxerType
<1>5. ASSUME NEW k \in DOMAIN units, 3 * k <= Pos', units[k].pts # NoPts \/ units[k].kind = "video"
      PROVE  /\ 3 * k <= Pos
             /\ Pos' < 3 * k + 3 => Pos < 3 * k + 3
  <2>1. CASE Pos' = Pos
    BY <1>5, <2>1
  <2>2. ASSUME NEW b \in DOMAIN units, units[b].kind = "pack", Pos' = Pos + 1,
               3 * (b - 1) <= Pos, Pos < 3 * b
        PROVE  /\ 3 * k <= Pos
               /\ Pos' < 3 * k + 3 => Pos < 3 * k + 3
    <3>1. units[b].pts = NoPts
      BY <2>2 DEF PtsInv, CameraInv, CameraType, Streams
    <3>2. k # b
      BY <1>5, <2>2, <3>1
    <3>3. k \in Nat /\ b \in Nat
      BY <1>1
    <3>. DEFINE p == Pos
    <3>4. p \in Int /\ 3 * k <= p + 1 /\ 3 * (b - 1) <= p /\ p < 3 * b
      BY <1>1, <1>5, <2>2
    <3>5. 3 * k <= p /\ (p + 1 < 3 * k + 3 => p < 3 * k + 3)
      <4>. HIDE DEF p
      <4>. QED BY <3>2, <3>3, <3>4
    <3>. QED BY <2>2, <3>5
  <2>. QED BY <2>1, <2>2
<1>6. LastPts'
  <2>1. LastPts
    BY DEF PtsInv
  <2>. QED BY <1>2, <1>5, <2>1, LastPtsKept
<1>7. Collected'
  <2>1. \A k \in DOMAIN units : VideoUnit(k) /\ 3 * k <= Pos' => 3 * k <= Pos
    BY <1>5 DEF VideoUnit
  <2>2. Collected
    BY DEF PtsInv
  <2>. QED BY <1>1, <1>2, <2>1, <2>2, CollectedKept
<1>8. PtsOfFrame'
  BY <1>2 DEF PtsOfFrame, PtsAt, camera
<1>. QED BY <1>3, <1>4, <1>6, <1>7, <1>8 DEF PtsInv

\* The connection is as it was.
LEMMA ConnKept ==
  ASSUME ConnInv, UNCHANGED conn
  PROVE  ConnInv'
BY DEF ConnInv, SinceFirst, conn

\* The whole of it is an invariant.
DemuxInv == PtsInv /\ ConnInv /\ PtsOfFrame

LEMMA DemuxInit == Init => DemuxInv
<1>. SUFFICES ASSUME Init PROVE DemuxInv
  OBVIOUS
<1>1. ReaderInv /\ CameraInv
  BY ReaderInit, CameraInit
<1>2. /\ pesPts = 0 /\ pts = 0 /\ buf = <<>> /\ verify = <<>> /\ fed = <<>> /\ frames = <<>>
      /\ cid = [s \in Streams |-> FALSE] /\ init = [s \in Streams |-> 0]
      /\ zeros = 0 /\ rtpPts = 0
      /\ DOMAIN units = {1} /\ units[1].kind = "pack" /\ units[1].pts = NoPts
  BY DEF Init
<1>3. DemuxerType /\ LastPts
  BY <1>2 DEF DemuxerType, LastPts
<1>4. Collected
  <2>1. setting \in Settings
    BY <1>1 DEF CameraInv, CameraType
  <2>2. setting.first # NoPts => pts <= PtsAt(Len(frames)) + 1
    <3>1. setting.first # NoPts => PtsAt(0) = setting.first + 0 - 1 /\ setting.first \in Nat
      BY <2>1, PtsAtType DEF NoPts
    <3>2. Len(frames) = 0
      BY <1>2
    <3>. QED BY <1>2, <3>1, <3>2
  <2>3. DOMAIN buf = {}
    BY <1>2
  <2>4. \A n \in DOMAIN units : ~VideoUnit(n)
    BY <1>2 DEF VideoUnit
  <2>. QED BY <1>2, <2>2, <2>3, <2>4 DEF Collected
<1>5. ConnInv /\ PtsOfFrame
  <2>1. DOMAIN fed = {} /\ fed \in Seq(Item)
    BY <1>2
  <2>. QED BY <1>2, <2>1 DEF ConnInv, SinceFirst, PtsOfFrame
<1>. QED BY <1>1, <1>3, <1>4, <1>5 DEF DemuxInv, PtsInv

LEMMA DemuxNext == DemuxInv /\ [Next]_vars => DemuxInv'
<1>. SUFFICES ASSUME DemuxInv, [Next]_vars PROVE DemuxInv'
  OBVIOUS
<1>. USE DEF DemuxInv
<1>1. CASE Camera
  BY <1>1, CameraPts
<1>2. ASSUME NEW n \in DOMAIN wire, Input(n)
      PROVE  DemuxInv'
  <2>1. ReaderInv' /\ Pos' = Pos /\ wire[1][1] \in DOMAIN units /\ units \in Seq(UnitType)
    BY <1>2, ReaderInput DEF PtsInv, ReaderInv
  <2>2. UNCHANGED <<camera, demuxer, zeros, init, fed>> /\ rtpPts' = units[wire[1][1]].time
    BY <1>2 DEF Input
  <2>3. PtsInv' /\ PtsOfFrame'
    BY <2>1, <2>2, NothingRead
  <2>4. rtpPts' \in Nat
    <3>1. units[wire[1][1]] \in UnitType
      BY <2>1
    <3>. QED BY <2>2, <3>1 DEF UnitType
  <2>5. ConnInv'
    BY <2>2, <2>4 DEF ConnInv, SinceFirst
  <2>. QED BY <2>3, <2>5
<1>3. CASE Unit
  BY <1>3, UnitStep
<1>4. CASE Skip
  <2>1. /\ ReaderInv' /\ Pos' = Pos + 1
        /\ bs[1][1] \in DOMAIN units /\ units[bs[1][1]].kind = "pack"
        /\ Pos = 3 * (bs[1][1] - 1) + bs[1][2] - 1 /\ bs[1][2] \in {2, 3}
    BY <1>4, ReaderSkip DEF PtsInv
  <2>2. UNCHANGED <<camera, demuxer, conn>>
    BY <1>4 DEF Skip
  <2>. DEFINE b == bs[1][1]
  <2>3. b \in DOMAIN units /\ units[b].kind = "pack" /\ b \in Nat
    <3>1. DOMAIN units = 1 .. Len(units) /\ Len(units) \in Nat
      BY ReaderFacts DEF PtsInv
    <3>. QED BY ONLY <2>1, <3>1
  <2>4. 3 * (b - 1) <= Pos /\ Pos < 3 * b
    BY <2>1, <2>3
  <2>5. fed' = fed
    BY <2>2 DEF conn
  <2>. HIDE DEF b
  <2>6. PtsInv' /\ PtsOfFrame'
    BY <2>1, <2>2, <2>3, <2>4, <2>5, NothingRead
  <2>. QED BY <2>2, <2>6, ConnKept
<1>5. CASE NeedMore
  <2>1. /\ ReaderInv'
        /\ \/ Pos' = Pos
           \/ /\ Pos' = Pos + 1 /\ Pos = 3 * (bs[1][1] - 1)
              /\ bs[1][1] \in DOMAIN units /\ units[bs[1][1]].kind = "pack"
    BY <1>5, ReaderNeedMore DEF PtsInv
  <2>2. UNCHANGED <<camera, demuxer, conn>> /\ fed' = fed
    BY <1>5 DEF NeedMore, conn
  <2>3. ASSUME NEW b \in DOMAIN units, Pos = 3 * (b - 1)
        PROVE  3 * (b - 1) <= Pos /\ Pos < 3 * b
    <3>1. b \in Nat
      BY DEF PtsInv, ReaderInv
    <3>. QED BY <2>3, <3>1
  <2>4. PtsInv' /\ PtsOfFrame'
    BY <2>1, <2>2, <2>3, NothingRead
  <2>. QED BY <2>2, <2>4, ConnKept
<1>6. CASE EndInput
  <2>1. ReaderInv' /\ Pos' = Pos
    BY <1>6, ReaderEndInput DEF PtsInv
  <2>2. UNCHANGED <<camera, demuxer, conn>> /\ fed' = fed
    BY <1>6 DEF EndInput, conn
  <2>. QED BY <2>1, <2>2, NothingRead, ConnKept
<1>7. CASE UNCHANGED vars
  <2>1. UNCHANGED <<camera, wire, reader, demuxer, conn>>
    BY <1>7 DEF vars
  <2>2. UNCHANGED <<units, wire, cache, bs, busy>> /\ Pos' = Pos /\ Ahead' = Ahead /\ fed' = fed
    BY <2>1 DEF camera, reader, Pos, Ahead, conn
  <2>3. ReaderInv'
    BY <2>2 DEF PtsInv, ReaderInv
  <2>. QED BY <2>1, <2>2, <2>3, NothingRead, ConnKept
<1>. QED BY <1>1, <1>2, <1>3, <1>4, <1>5, <1>6, <1>7 DEF Next

LEMMA DemuxAlways == Spec => []DemuxInv
BY DemuxInit, DemuxNext, PTL DEF Spec

-----------------------------------------------------------------------------
(***************************************************************************)
(* The properties.                                                         *)
(***************************************************************************)

\* What is in the cache between packets is a part of one unit, whatever the packets
\* (saveReseved, ps_demuxer.go), and every variable has its type.
THEOREM TypeCorrect == Spec => []TypeOK
<1>1. DemuxInv => TypeOK
  <2>. SUFFICES ASSUME DemuxInv PROVE TypeOK
    OBVIOUS
  <2>1. ReaderInv /\ CameraInv /\ DemuxerType /\ ConnInv
    BY DEF DemuxInv, PtsInv
  <2>2. /\ \A k \in DOMAIN wire : wire[k] \in (DOMAIN units) \X (1 .. 3)
        /\ \A k \in DOMAIN Ahead : Ahead[k] \in (DOMAIN units) \X (1 .. 3)
        /\ \A k \in DOMAIN cache : cache[k] \in (DOMAIN units) \X (1 .. 3)
    BY <2>1, ReaderFacts DEF ReaderInv
  <2>3. \A k \in DOMAIN bs : bs[k] \in (DOMAIN units) \X (1 .. 3)
    <3>1. CASE busy
      BY <2>2, <3>1 DEF Ahead
    <3>2. CASE ~busy
      <4>1. DOMAIN bs = {}
        BY <2>1, <3>2 DEF ReaderInv
      <4>. QED BY <4>1
    <3>. QED BY <3>1, <3>2
  <2>4. setting \in Settings /\ torn \subseteq DOMAIN frames
    BY <2>1 DEF CameraInv, CameraType
  <2>5. /\ busy \in BOOLEAN
        /\ ~busy => Len(cache) < 3 /\ \A k \in DOMAIN cache : cache[k][1] = cache[1][1]
    BY <2>1 DEF ReaderInv
  <2>6. cid \in [Streams -> BOOLEAN] /\ pesPts \in Nat /\ pts \in Nat
    BY <2>1 DEF DemuxerType
  <2>7. init \in [Streams -> Nat] /\ zeros \in Nat \cup {-1}
    BY <2>1 DEF ConnInv
  <2>. QED BY <2>2, <2>3, <2>4, <2>5, <2>6, <2>7 DEF TypeOK
<1>. QED BY <1>1, DemuxAlways, PTL

\* Wherever the packets of a camera end, looking for a start code (NextBits and SkipBits in
\* Input, ps_demuxer.go) passes over bytes of pack headers only.
THEOREM NoUnitSkipped == Spec => OnlyPackHeadersSkipped
<1>1. DemuxInv /\ [Next]_vars => [Skip => units[bs[1][1]].kind = "pack"]_vars
  BY ReaderSkip DEF DemuxInv, PtsInv
<1>. QED BY <1>1, DemuxAlways, PTL DEF Spec, OnlyPackHeadersSkipped

\* Each NAL goes to lal with the PTS of its frame, although a frame comes in several PES with
\* and without PTS, between audio of other times (demuxPespacket, ps_demuxer.go; Decode of a
\* PES, pes_proto.go).
THEOREM PtsOfFrameAlways == Spec => []PtsOfFrame
<1>1. DemuxInv => PtsOfFrame
  BY DEF DemuxInv
<1>. QED BY <1>1, DemuxAlways, PTL

\* OnFrame takes the first PTS of each stream off all its timestamps (mediaserver/conn.go).
THEOREM KeepDistance == Spec => []TimestampsKeepDistance
<1>1. DemuxInv => TimestampsKeepDistance
  <2>. SUFFICES ASSUME DemuxInv, NEW i \in DOMAIN fed, NEW j \in DOMAIN fed,
                       fed[i].stream = fed[j].stream, fed[i].pts # 0, fed[j].pts # 0
                PROVE  fed[i].ts - fed[j].ts = fed[i].pts - fed[j].pts
    BY DEF TimestampsKeepDistance
  <2>1. fed \in Seq(Item) /\ init \in [Streams -> Nat] /\ SinceFirst
    BY DEF DemuxInv, ConnInv
  <2>2. /\ fed[i].stream \in Streams /\ fed[i].pts \in Nat /\ fed[j].pts \in Nat
    <3>1. fed[i] \in Item /\ fed[j] \in Item
      BY <2>1
    <3>. QED BY <3>1 DEF Item
  <2>. DEFINE b == init[fed[i].stream]
  <2>3. b \in Nat /\ fed[i].ts = fed[i].pts - b /\ fed[j].ts = fed[j].pts - b
    BY <2>1, <2>2 DEF SinceFirst
  <2>. QED BY <2>2, <2>3
<1>. QED BY <1>1, DemuxAlways, PTL

=============================================================================
