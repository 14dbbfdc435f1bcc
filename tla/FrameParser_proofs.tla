------------------------- MODULE FrameParser_proofs -------------------------
(***************************************************************************)
(* The framer for every frame length, alphabet and checksum modulus: what  *)
(* it buffers, counts and delivers, and that it loses no genuine frame.    *)
(***************************************************************************)
EXTENDS FrameParser, SequenceTheorems, WellFoundedInduction, TLAPS

-----------------------------------------------------------------------------
(* resync()                                                                *)

(* A nonempty set of naturals has a minimum.                               *)
LEMMA MinExists ==
    ASSUME NEW T, T \subseteq Nat, T # {}
    PROVE  Min(T) \in T /\ \A y \in T : Min(T) <= y
<1>1. PICK x \in T : \A y \in T : ~(<<y, x>> \in OpToRel(<, Nat))
  BY WFMin, NatLessThanWellFounded
<1>2. ASSUME NEW y \in T PROVE x <= y
  <2>1. ~(<<y, x>> \in OpToRel(<, Nat))
    BY <1>1
  <2>2. x \in Nat /\ y \in Nat
    OBVIOUS
  <2>3. ~(y < x)
    BY <2>1, <2>2 DEF OpToRel
  <2> QED
    BY <2>2, <2>3
<1> QED
  BY <1>1, <1>2 DEF Min

(* resync() drops the first byte and every byte before the next start flag *)
(* and keeps the rest.                                                     *)
LEMMA ResyncFacts ==
    ASSUME NEW b \in Seq(Bytes), Len(b) > 0
    PROVE  /\ NextStart(b) \in 2..(Len(b) + 1)
           /\ NextStart(b) <= Len(b) => b[NextStart(b)] = START_FLAG
           /\ \A i \in 2..(NextStart(b) - 1) : b[i] # START_FLAG
           /\ resync(b) \in Seq(Bytes)
           /\ Len(resync(b)) = Len(b) + 1 - NextStart(b)
           /\ \A i \in 1..Len(resync(b)) : resync(b)[i] = b[NextStart(b) + i - 1]
<1> DEFINE T == {i \in 2..(Len(b) + 1) : i <= Len(b) => b[i] = START_FLAG}
           n == NextStart(b)
<1>0. Len(b) \in Nat
  OBVIOUS
<1>1. T \subseteq Nat /\ Len(b) + 1 \in T
  BY <1>0
<1>2. n = Min(T)
  BY DEF NextStart
<1>3. n \in T /\ \A y \in T : n <= y
  BY <1>1, <1>2, MinExists
<1>4. n \in 2..(Len(b) + 1) /\ (n <= Len(b) => b[n] = START_FLAG)
  BY <1>3
<1>5. ASSUME NEW i \in 2..(n - 1) PROVE b[i] # START_FLAG
  <2>1. i \in 2..(Len(b) + 1) /\ i < n
    BY <1>0, <1>4
  <2>2. i \notin T
    BY <1>0, <1>3, <1>4, <2>1
  <2> QED
    BY <2>1, <2>2
<1> HIDE DEF T, n
<1>6. \A i \in n..Len(b) : b[i] \in Bytes
  BY <1>0, <1>4
<1>7. n \in Int /\ Len(b) \in Int
  BY <1>0, <1>4
<1>8. /\ SubSeq(b, n, Len(b)) \in Seq(Bytes)
      /\ Len(SubSeq(b, n, Len(b))) = IF n <= Len(b) THEN Len(b) - n + 1 ELSE 0
      /\ \A i \in 1..(Len(b) - n + 1) : SubSeq(b, n, Len(b))[i] = b[n + i - 1]
  BY <1>6, <1>7, SubSeqProperties
<1>9. Len(SubSeq(b, n, Len(b))) = Len(b) + 1 - n /\ Len(b) - n + 1 = Len(b) + 1 - n
  BY <1>0, <1>4, <1>8
<1>10. resync(b) = SubSeq(b, n, Len(b))
  BY DEF resync, n
<1> QED
  BY <1>4, <1>5, <1>8, <1>9, <1>10 DEF n

-----------------------------------------------------------------------------
(* The state of the framer, as predicates of buffer, stream and frames.    *)

(* b holds the last bytes of s.                                            *)
Tailing(b, s) ==
    /\ Len(b) <= Len(s)
    /\ \A i \in 1..Len(b) : b[i] = s[Len(s) - Len(b) + i]

(* What has been fed shows that no frame begins at p.  Bytes still to come *)
(* cannot change that.                                                     *)
Refuted(s, p) ==
    \/ s[p] # START_FLAG
    \/ p + MSG_LEN_INDEX <= Len(s) /\ s[p + MSG_LEN_INDEX] # LENGTH_FLAG
    \/ p + MSG_MAX_LEN - 1 <= Len(s) /\ ~ChecksumOK(Window(s, p))

Covered(f, p) == \E k \in DOMAIN f : Covers(f[k], p)

(* The k-th frame lies before the buffer and after the earlier ones.       *)
InPlace(b, s, f, k) ==
    /\ f[k] + MSG_MAX_LEN <= Len(s) - Len(b) + 1
    /\ s[f[k]] = START_FLAG /\ ChecksumOK(Window(s, f[k]))
    /\ \A j \in DOMAIN f : j < k => f[j] + MSG_MAX_LEN <= f[k]

(* Every byte before the buffer is in a frame or is known to begin none.   *)
Parsed(b, s, f) ==
    /\ b \in Seq(Bytes) /\ s \in Seq(Bytes) /\ f \in Seq(Nat \ {0})
    /\ Len(b) < MSG_MAX_LEN
    /\ b # <<>> => b[1] = START_FLAG
    /\ Tailing(b, s)
    /\ \A k \in DOMAIN f : InPlace(b, s, f, k)
    /\ \A p \in 1..(Len(s) - Len(b)) : Covered(f, p) \/ Refuted(s, p)

(* The basic facts about appending a byte.                                 *)
LEMMA AppendFacts ==
    ASSUME NEW S, NEW s \in Seq(S), NEW x \in S
    PROVE  /\ Append(s, x) \in Seq(S) /\ Len(s) \in Nat
           /\ Len(Append(s, x)) = Len(s) + 1
           /\ \A i \in 1..Len(s) : Append(s, x)[i] = s[i]
           /\ Append(s, x)[Len(s) + 1] = x
OBVIOUS

(* A stretch that is all in has the length of a frame.                     *)
LEMMA WindowFacts ==
    ASSUME NEW s \in Seq(Bytes), NEW p \in Nat \ {0}, p + MSG_MAX_LEN - 1 <= Len(s)
    PROVE  /\ Window(s, p) \in Seq(Bytes) /\ Len(Window(s, p)) = MSG_MAX_LEN
           /\ \A i \in 1..MSG_MAX_LEN : Window(s, p)[i] = s[p + i - 1]
<1>1. MSG_MAX_LEN \in Nat \ {0} /\ p \in Int /\ p + MSG_MAX_LEN - 1 \in Int
  BY FrameAssumption
<1>2. \A i \in p..(p + MSG_MAX_LEN - 1) : s[i] \in Bytes
  BY <1>1
<1>3. /\ Window(s, p) \in Seq(Bytes)
      /\ Len(Window(s, p)) = IF p <= p + MSG_MAX_LEN - 1 THEN p + MSG_MAX_LEN - 1 - p + 1 ELSE 0
      /\ \A i \in 1..(p + MSG_MAX_LEN - 1 - p + 1) : Window(s, p)[i] = s[p + i - 1]
  BY <1>1, <1>2, SubSeqProperties DEF Window
<1>4. p <= p + MSG_MAX_LEN - 1 /\ p + MSG_MAX_LEN - 1 - p + 1 = MSG_MAX_LEN
  BY <1>1
<1> QED
  BY <1>3, <1>4

(* What has come in is not changed by the next byte.                       *)
LEMMA WindowStays ==
    ASSUME NEW s \in Seq(Bytes), NEW x \in Bytes,
           NEW p \in Nat \ {0}, p + MSG_MAX_LEN - 1 <= Len(s)
    PROVE  Window(Append(s, x), p) = Window(s, p)
<1> DEFINE t == Append(s, x)
<1>1. t \in Seq(Bytes) /\ Len(t) = Len(s) + 1 /\ \A i \in 1..Len(s) : t[i] = s[i]
  BY AppendFacts
<1>2. p + MSG_MAX_LEN - 1 <= Len(t) /\ MSG_MAX_LEN \in Nat /\ Len(s) \in Nat
  BY <1>1, FrameAssumption
<1> HIDE DEF t
<1>3. /\ Window(t, p) \in Seq(Bytes) /\ Len(Window(t, p)) = MSG_MAX_LEN
      /\ \A i \in 1..MSG_MAX_LEN : Window(t, p)[i] = t[p + i - 1]
  BY <1>1, <1>2, WindowFacts
<1>4. /\ Window(s, p) \in Seq(Bytes) /\ Len(Window(s, p)) = MSG_MAX_LEN
      /\ \A i \in 1..MSG_MAX_LEN : Window(s, p)[i] = s[p + i - 1]
  BY WindowFacts
<1>5. ASSUME NEW i \in 1..MSG_MAX_LEN PROVE Window(t, p)[i] = Window(s, p)[i]
  <2>1. p + i - 1 \in 1..Len(s)
    BY <1>2
  <2> QED
    BY <1>1, <1>3, <1>4, <2>1
<1>6. Window(t, p) = Window(s, p)
  BY <1>3, <1>4, <1>5, SeqEqual
<1> QED
  BY <1>6 DEF t

(* Neither is the verdict on a position.                                   *)
LEMMA RefutedStays ==
    ASSUME NEW s \in Seq(Bytes), NEW x \in Bytes, NEW p \in 1..Len(s), Refuted(s, p)
    PROVE  Refuted(Append(s, x), p)
<1>1. /\ Len(s) \in Nat /\ Len(Append(s, x)) = Len(s) + 1
      /\ \A i \in 1..Len(s) : Append(s, x)[i] = s[i]
  BY AppendFacts
<1>2. p \in Nat \ {0} /\ MSG_LEN_INDEX \in Nat /\ MSG_MAX_LEN \in Nat
  BY <1>1, FrameAssumption
<1>3. CASE s[p] # START_FLAG
  BY <1>1, <1>3 DEF Refuted
<1>4. CASE p + MSG_LEN_INDEX <= Len(s) /\ s[p + MSG_LEN_INDEX] # LENGTH_FLAG
  <2>1. p + MSG_LEN_INDEX \in 1..Len(s)
    BY <1>1, <1>2, <1>4
  <2>2. p + MSG_LEN_INDEX <= Len(Append(s, x))
    BY <1>1, <1>2, <1>4
  <2>3. Append(s, x)[p + MSG_LEN_INDEX] # LENGTH_FLAG
    BY <1>1, <1>4, <2>1
  <2> QED
    BY <2>2, <2>3 DEF Refuted
<1>5. CASE p + MSG_MAX_LEN - 1 <= Len(s) /\ ~ChecksumOK(Window(s, p))
  <2>1. Window(Append(s, x), p) = Window(s, p)
    BY <1>2, <1>5, WindowStays
  <2>2. p + MSG_MAX_LEN - 1 <= Len(Append(s, x))
    BY <1>1, <1>2, <1>5
  <2> QED
    BY <1>5, <2>1, <2>2 DEF Refuted
<1> QED
  BY <1>3, <1>4, <1>5 DEF Refuted

(* The buffer and the stream grow together.                                *)
LEMMA TailGrows ==
    ASSUME NEW b \in Seq(Bytes), NEW s \in Seq(Bytes), NEW x \in Bytes, Tailing(b, s)
    PROVE  Tailing(Append(b, x), Append(s, x))
<1>1. /\ Len(s) \in Nat /\ Len(Append(s, x)) = Len(s) + 1
      /\ \A i \in 1..Len(s) : Append(s, x)[i] = s[i]
      /\ Append(s, x)[Len(s) + 1] = x
  BY AppendFacts
<1>2. /\ Len(b) \in Nat /\ Len(Append(b, x)) = Len(b) + 1
      /\ \A i \in 1..Len(b) : Append(b, x)[i] = b[i]
      /\ Append(b, x)[Len(b) + 1] = x
  BY AppendFacts
<1>3. Len(b) <= Len(s) /\ \A i \in 1..Len(b) : b[i] = s[Len(s) - Len(b) + i]
  BY DEF Tailing
<1>4. Len(Append(s, x)) - Len(Append(b, x)) = Len(s) - Len(b)
  BY <1>1, <1>2
<1>5. ASSUME NEW i \in 1..(Len(b) + 1) PROVE Append(b, x)[i] = Append(s, x)[Len(s) - Len(b) + i]
  <2>1. CASE i <= Len(b)
    <3>1. i \in 1..Len(b) /\ Len(s) - Len(b) + i \in 1..Len(s)
      BY <1>1, <1>2, <1>3, <2>1
    <3> QED
      BY <1>1, <1>2, <1>3, <3>1
  <2>2. CASE i = Len(b) + 1
    <3>1. Len(s) - Len(b) + i = Len(s) + 1
      BY <1>1, <1>2, <2>2
    <3> QED
      BY <1>1, <1>2, <2>2, <3>1
  <2>3. i <= Len(b) \/ i = Len(b) + 1
    BY <1>2
  <2> QED
    BY <2>1, <2>2, <2>3
<1>6. Len(Append(b, x)) <= Len(Append(s, x))
  BY <1>1, <1>2, <1>3
<1> QED
  BY <1>2, <1>4, <1>5, <1>6 DEF Tailing

(* A buffer as long as a frame is the stretch that ends the stream.        *)
LEMMA TailIsWindow ==
    ASSUME NEW b \in Seq(Bytes), NEW s \in Seq(Bytes), Tailing(b, s), Len(b) = MSG_MAX_LEN
    PROVE  b = Window(s, Len(s) - MSG_MAX_LEN + 1)
<1>1. Len(s) \in Nat /\ MSG_MAX_LEN \in Nat \ {0} /\ MSG_MAX_LEN <= Len(s)
  BY FrameAssumption DEF Tailing
<1> DEFINE p == Len(s) - MSG_MAX_LEN + 1
<1>2. p \in Nat \ {0} /\ p + MSG_MAX_LEN - 1 <= Len(s)
  BY <1>1
<1>3. /\ Window(s, p) \in Seq(Bytes) /\ Len(Window(s, p)) = MSG_MAX_LEN
      /\ \A i \in 1..MSG_MAX_LEN : Window(s, p)[i] = s[p + i - 1]
  <2> HIDE DEF p
  <2> QED
    BY <1>2, WindowFacts
<1>4. ASSUME NEW i \in 1..MSG_MAX_LEN PROVE b[i] = Window(s, p)[i]
  <2>1. p + i - 1 = Len(s) - Len(b) + i
    BY <1>1
  <2>2. b[i] = s[Len(s) - Len(b) + i]
    BY DEF Tailing
  <2> QED
    BY <1>3, <2>1, <2>2
<1> HIDE DEF p
<1>5. b = Window(s, p)
  BY <1>3, <1>4, SeqEqual
<1> QED
  BY <1>5 DEF p

-----------------------------------------------------------------------------
(* What one byte does.                                                     *)

(* A frame stays in place when a byte is fed and the buffer shrinks or     *)
(* grows by that byte.                                                     *)
LEMMA FrameStays ==
    ASSUME NEW b, NEW s, NEW f, Parsed(b, s, f), NEW x \in Bytes, NEW k \in DOMAIN f,
           NEW c \in Seq(Bytes), Len(c) <= Len(b) + 1
    PROVE  InPlace(c, Append(s, x), f, k)
<1>1. /\ b \in Seq(Bytes) /\ s \in Seq(Bytes) /\ f \in Seq(Nat \ {0})
      /\ InPlace(b, s, f, k) /\ Len(b) <= Len(s)
  BY DEF Parsed, Tailing
<1>2. /\ f[k] + MSG_MAX_LEN <= Len(s) - Len(b) + 1
      /\ s[f[k]] = START_FLAG /\ ChecksumOK(Window(s, f[k]))
      /\ \A j \in DOMAIN f : j < k => f[j] + MSG_MAX_LEN <= f[k]
  BY <1>1 DEF InPlace
<1>3. f[k] \in Nat \ {0} /\ MSG_MAX_LEN \in Nat \ {0} /\ Len(b) \in Nat /\ Len(c) \in Nat
  BY <1>1, FrameAssumption
<1>4. /\ Len(s) \in Nat /\ Len(Append(s, x)) = Len(s) + 1
      /\ \A i \in 1..Len(s) : Append(s, x)[i] = s[i]
  BY <1>1, AppendFacts
<1>5. f[k] \in 1..Len(s) /\ f[k] + MSG_MAX_LEN - 1 <= Len(s)
  BY <1>2, <1>3, <1>4
<1>6. Window(Append(s, x), f[k]) = Window(s, f[k])
  BY <1>1, <1>3, <1>5, WindowStays
<1>7. f[k] + MSG_MAX_LEN <= Len(Append(s, x)) - Len(c) + 1
  BY <1>2, <1>3, <1>4
<1> QED
  BY <1>2, <1>4, <1>5, <1>6, <1>7 DEF InPlace

(* The byte is stored, the first n - 1 bytes of the buffer are dropped,    *)
(* and each of them is known to begin no frame.                            *)
LEMMA KeepFrom ==
    ASSUME NEW b, NEW s, NEW f, Parsed(b, s, f), NEW x \in Bytes,
           NEW n \in 1..(Len(b) + 2), NEW c \in Seq(Bytes),
           Len(c) = Len(b) + 2 - n, Len(c) < MSG_MAX_LEN,
           \A i \in 1..Len(c) : c[i] = Append(b, x)[n + i - 1],
           c # <<>> => c[1] = START_FLAG,
           \A i \in 1..(n - 1) : Refuted(Append(s, x), Len(s) - Len(b) + i)
    PROVE  Parsed(c, Append(s, x), f)
<1> DEFINE t == Append(s, x)
<1>1. /\ b \in Seq(Bytes) /\ s \in Seq(Bytes) /\ f \in Seq(Nat \ {0}) /\ Tailing(b, s)
      /\ \A p \in 1..(Len(s) - Len(b)) : Covered(f, p) \/ Refuted(s, p)
  BY DEF Parsed
<1>2. t \in Seq(Bytes) /\ Len(s) \in Nat /\ Len(t) = Len(s) + 1
  BY <1>1, AppendFacts
<1>3. Len(b) \in Nat /\ Len(Append(b, x)) = Len(b) + 1 /\ Len(c) \in Nat /\ n \in Nat
  BY <1>1, AppendFacts
<1>4. Len(b) <= Len(s)
  BY <1>1 DEF Tailing
<1>5. Tailing(Append(b, x), t)
  BY <1>1, TailGrows
<1>6. Tailing(c, t)
  <2>1. Len(c) <= Len(t)
    BY <1>2, <1>3, <1>4
  <2>2. ASSUME NEW i \in 1..Len(c) PROVE c[i] = t[Len(t) - Len(c) + i]
    <3>1. n + i - 1 \in 1..(Len(b) + 1)
      BY <1>3
    <3>2. Append(b, x)[n + i - 1] = t[Len(t) - Len(Append(b, x)) + (n + i - 1)]
      BY <1>3, <1>5, <3>1 DEF Tailing
    <3>3. Len(t) - Len(Append(b, x)) + (n + i - 1) = Len(t) - Len(c) + i
      BY <1>2, <1>3
    <3> QED
      BY <3>2, <3>3
  <2> QED
    BY <2>1, <2>2 DEF Tailing
<1>7. ASSUME NEW k \in DOMAIN f PROVE InPlace(c, t, f, k)
  <2>1. Len(c) <= Len(b) + 1
    BY <1>3
  <2> QED
    BY <2>1, FrameStays, Zenon
<1>8. ASSUME NEW p \in 1..(Len(t) - Len(c)) PROVE Covered(f, p) \/ Refuted(t, p)
  <2>1. CASE p <= Len(s) - Len(b)
    <3>1. p \in 1..(Len(s) - Len(b)) /\ p \in 1..Len(s)
      BY <1>2, <1>3, <1>4, <2>1
    <3>2. Refuted(s, p) => Refuted(t, p)
      BY <1>1, <3>1, RefutedStays
    <3> QED
      BY <1>1, <3>1, <3>2
  <2>2. CASE p > Len(s) - Len(b)
    <3>1. p - (Len(s) - Len(b)) \in 1..(n - 1)
      BY <1>2, <1>3, <2>2
    <3>2. Refuted(t, Len(s) - Len(b) + (p - (Len(s) - Len(b))))
      BY <3>1
    <3>3. Len(s) - Len(b) + (p - (Len(s) - Len(b))) = p
      BY <1>2, <1>3
    <3> QED
      BY <3>2, <3>3
  <2>3. p <= Len(s) - Len(b) \/ p > Len(s) - Len(b)
    BY <1>2, <1>3
  <2> QED
    BY <2>1, <2>2, <2>3
<1> HIDE DEF t
<1>9. Parsed(c, t, f)
  BY <1>1, <1>2, <1>6, <1>7, <1>8 DEF Parsed
<1> QED
  BY <1>9 DEF t

(* The byte completes a frame, which is delivered.                         *)
LEMMA Deliver ==
    ASSUME NEW b, NEW s, NEW f, Parsed(b, s, f), NEW x \in Bytes,
           Len(b) = MSG_MAX_LEN - 1, ChecksumOK(Append(b, x))
    PROVE  Parsed(<<>>, Append(s, x), Append(f, Len(s) + 2 - MSG_MAX_LEN))
<1> DEFINE t == Append(s, x)
           q == Len(s) + 2 - MSG_MAX_LEN
           g == Append(f, q)
<1>0. MSG_MAX_LEN \in Nat /\ MSG_MAX_LEN > 2
  BY FrameAssumption
<1>1. /\ b \in Seq(Bytes) /\ s \in Seq(Bytes) /\ f \in Seq(Nat \ {0}) /\ Tailing(b, s)
      /\ \A p \in 1..(Len(s) - Len(b)) : Covered(f, p) \/ Refuted(s, p)
      /\ b # <<>> => b[1] = START_FLAG
  BY DEF Parsed
<1>2. /\ t \in Seq(Bytes) /\ Len(s) \in Nat /\ Len(t) = Len(s) + 1
      /\ \A i \in 1..Len(s) : t[i] = s[i]
  BY <1>1, AppendFacts
<1>3. Len(b) \in Nat /\ Len(b) <= Len(s) /\ Append(b, x) \in Seq(Bytes)
      /\ Len(Append(b, x)) = MSG_MAX_LEN
  BY <1>0, <1>1, AppendFacts DEF Tailing
<1>4. q \in Nat \ {0} /\ q = Len(s) - Len(b) + 1 /\ q = Len(t) - MSG_MAX_LEN + 1
      /\ q + MSG_MAX_LEN = Len(t) + 1 /\ q \in 1..Len(s)
  BY <1>0, <1>2, <1>3
<1>5. Append(b, x) = Window(t, q)
  <2>1. Tailing(Append(b, x), t)
    BY <1>1, TailGrows
  <2> HIDE DEF q, t
  <2> QED
    BY <1>2, <1>3, <1>4, <2>1, TailIsWindow
<1>6. t[q] = START_FLAG
  <2>1. b # <<>> /\ 1 \in 1..Len(b)
    BY <1>0, <1>1, <1>3
  <2>2. b[1] = s[Len(s) - Len(b) + 1]
    BY <1>1, <2>1 DEF Tailing
  <2> HIDE DEF q, t
  <2> QED
    BY <1>1, <1>2, <1>4, <2>1, <2>2
<1>7. /\ g \in Seq(Nat \ {0}) /\ Len(f) \in Nat /\ Len(g) = Len(f) + 1
      /\ \A k \in 1..Len(f) : g[k] = f[k]
      /\ g[Len(f) + 1] = q
  <2> HIDE DEF q
  <2> QED
    BY <1>1, <1>4, AppendFacts
<1>8. DOMAIN f = 1..Len(f) /\ DOMAIN g = 1..(Len(f) + 1)
  BY <1>1, <1>7
<1> HIDE DEF t, q, g
<1>9. ASSUME NEW k \in 1..Len(f)
      PROVE  /\ f[k] + MSG_MAX_LEN <= q /\ f[k] \in Nat
             /\ t[f[k]] = START_FLAG /\ ChecksumOK(Window(t, f[k]))
             /\ \A j \in DOMAIN f : j < k => f[j] + MSG_MAX_LEN <= f[k]
  <2>1. Len(b) <= Len(b) + 1 /\ k \in DOMAIN f
    BY <1>3, <1>8
  <2>2. InPlace(b, t, f, k)
    BY <1>1, <2>1, FrameStays, Zenon DEF t
  <2>3. f[k] + MSG_MAX_LEN <= Len(s) - Len(b) + 1
    BY <2>1 DEF Parsed, InPlace
  <2>4. f[k] \in Nat
    BY <1>1
  <2>5. f[k] + MSG_MAX_LEN <= q
    BY <1>4, <2>3
  <2> QED
    BY <2>2, <2>4, <2>5 DEF InPlace
<1>10. ASSUME NEW k \in DOMAIN g PROVE InPlace(<<>>, t, g, k)
  <2>0. k \in 1..Len(f) \/ k = Len(f) + 1
    BY <1>7, <1>8
  <2>1. g[k] + MSG_MAX_LEN <= Len(t) - Len(<<>>) + 1
    <3>1. CASE k \in 1..Len(f)
      <4>1. g[k] = f[k] /\ f[k] + MSG_MAX_LEN <= q /\ f[k] \in Nat
        BY <1>7, <1>9, <3>1
      <4> QED
        BY <1>0, <1>2, <1>4, <4>1
    <3>2. CASE k = Len(f) + 1
      BY <1>0, <1>2, <1>4, <1>7, <3>2
    <3> QED
      BY <2>0, <3>1, <3>2
  <2>2. t[g[k]] = START_FLAG /\ ChecksumOK(Window(t, g[k]))
    <3>1. CASE k \in 1..Len(f)
      BY <1>7, <1>9, <3>1
    <3>2. CASE k = Len(f) + 1
      BY <1>5, <1>6, <1>7, <3>2
    <3> QED
      BY <2>0, <3>1, <3>2
  <2>3. ASSUME NEW j \in DOMAIN g, j < k PROVE g[j] + MSG_MAX_LEN <= g[k]
    <3>0. j \in 1..Len(f)
      BY <1>7, <1>8, <2>3
    <3>1. CASE k \in 1..Len(f)
      <4>1. f[j] + MSG_MAX_LEN <= f[k]
        BY <1>8, <1>9, <2>3, <3>0, <3>1
      <4> QED
        BY <1>7, <3>0, <3>1, <4>1
    <3>2. CASE k = Len(f) + 1
      BY <1>7, <1>9, <3>0, <3>2
    <3> QED
      BY <2>0, <3>1, <3>2
  <2> QED
    BY <2>1, <2>2, <2>3 DEF InPlace
<1>11. ASSUME NEW p \in 1..(Len(t) - Len(<<>>)) PROVE Covered(g, p) \/ Refuted(t, p)
  <2>0. p \in Nat /\ p >= 1 /\ p <= Len(s) + 1
    BY <1>2
  <2>1. CASE p < q
    <3>1. p \in 1..(Len(s) - Len(b)) /\ p \in 1..Len(s)
      BY <1>2, <1>3, <1>4, <2>0, <2>1
    <3>2. Refuted(s, p) => Refuted(t, p)
      BY <1>1, <3>1, RefutedStays DEF t
    <3>3. Covered(f, p) => Covered(g, p)
      BY <1>7, <1>8 DEF Covered
    <3> QED
      BY <1>1, <3>1, <3>2, <3>3
  <2>2. CASE q <= p
    <3>1. Covers(q, p)
      BY <1>0, <1>2, <1>4, <2>0, <2>2 DEF Covers
    <3>2. Len(f) + 1 \in DOMAIN g /\ g[Len(f) + 1] = q
      BY <1>7, <1>8
    <3> QED
      BY <3>1, <3>2 DEF Covered
  <2>3. p < q \/ q <= p
    BY <1>4, <2>0
  <2> QED
    BY <2>1, <2>2, <2>3
<1>12. <<>> \in Seq(Bytes) /\ Len(<<>>) = 0 /\ Len(<<>>) < MSG_MAX_LEN
  BY <1>0
<1>13. Tailing(<<>>, t)
  BY <1>2, <1>12 DEF Tailing
<1>14. Parsed(<<>>, t, g)
  BY <1>2, <1>7, <1>10, <1>11, <1>12, <1>13 DEF Parsed
<1> QED
  BY <1>14 DEF t, g, q

-----------------------------------------------------------------------------
(* Counting modulo DiscardMod.                                             *)

(* Quotient and remainder.                                                 *)
LEMMA DivMod ==
    ASSUME NEW d \in Nat \ {0}, NEW x \in Int
    PROVE  x \div d \in Int /\ x % d \in 0..(d - 1) /\ x = d * (x \div d) + (x % d)
OBVIOUS

(* A remainder is unique.                                                  *)
LEMMA RemainderUnique ==
    ASSUME NEW d \in Nat \ {0}, NEW q \in Int, NEW u \in Int,
           NEW r \in 0..(d - 1), NEW t \in 0..(d - 1), d * q + r = d * u + t
    PROVE  r = t
<1>1. d * (q - u) = t - r
  OBVIOUS
<1>2. q - u > 0 => d * (q - u) >= d
  OBVIOUS
<1>3. q - u < 0 => d * (q - u) <= -d
  OBVIOUS
<1>4. q - u = 0 => d * (q - u) = 0
  OBVIOUS
<1>5. q - u = 0
  BY <1>1, <1>2, <1>3
<1> QED
  BY <1>1, <1>4, <1>5

(* A counter that wraps counts the remainder of the sum.                   *)
LEMMA WrappingSum ==
    ASSUME NEW d \in Nat \ {0}, NEW x \in Int, NEW y \in Int
    PROVE  ((x % d) + y) % d = (x + y) % d
<1> DEFINE q == x \div d
           r == x % d
           v == (r + y) \div d
           w == (r + y) % d
           z == (x + y) \div d
           a == (x + y) % d
<1>1. q \in Int /\ r \in 0..(d - 1) /\ x = d * q + r
  BY DivMod
<1>2. r + y \in Int /\ x + y \in Int
  BY <1>1
<1>3. v \in Int /\ w \in 0..(d - 1) /\ r + y = d * v + w
  BY <1>2, DivMod
<1>4. z \in Int /\ a \in 0..(d - 1) /\ x + y = d * z + a
  BY <1>2, DivMod
<1> HIDE DEF q, r, v, w, z, a
<1>5. d * (q + v) = d * q + d * v
  BY <1>1, <1>3
<1>6. d * (q + v) + w = d * z + a
  BY <1>1, <1>3, <1>4, <1>5
<1>7. q + v \in Int
  BY <1>1, <1>3
<1>8. w = a
  BY <1>3, <1>4, <1>6, <1>7, RemainderUnique
<1> QED
  BY <1>8 DEF w, r, a

-----------------------------------------------------------------------------
(* The steps.                                                              *)

(* The candidate at the head of the buffer, with the byte, begins no       *)
(* frame: resync() keeps what may still.                                   *)
LEMMA ResyncKeeps ==
    ASSUME NEW b, NEW s, NEW f, Parsed(b, s, f), NEW x \in Bytes,
           Refuted(Append(s, x), Len(s) - Len(b) + 1)
    PROVE  Parsed(resync(Append(b, x)), Append(s, x), f)
<1> DEFINE b2 == Append(b, x)
           n == NextStart(b2)
           c == resync(b2)
<1>1. b \in Seq(Bytes) /\ s \in Seq(Bytes) /\ Len(b) < MSG_MAX_LEN /\ Tailing(b, s)
  BY DEF Parsed
<1>2. b2 \in Seq(Bytes) /\ Len(b) \in Nat /\ Len(b2) = Len(b) + 1 /\ Len(b2) > 0
  BY <1>1, AppendFacts
<1>3. Len(s) \in Nat /\ Len(Append(s, x)) = Len(s) + 1
  BY <1>1, AppendFacts
<1>4. Tailing(b2, Append(s, x))
  BY <1>1, TailGrows
<1> HIDE DEF b2
<1>5. /\ n \in 2..(Len(b2) + 1)
      /\ n <= Len(b2) => b2[n] = START_FLAG
      /\ \A i \in 2..(n - 1) : b2[i] # START_FLAG
      /\ c \in Seq(Bytes)
      /\ Len(c) = Len(b2) + 1 - n
      /\ \A i \in 1..Len(c) : c[i] = b2[n + i - 1]
  BY <1>2, ResyncFacts
<1> HIDE DEF n, c
<1>6. n \in 1..(Len(b) + 2) /\ Len(c) = Len(b) + 2 - n /\ Len(c) < MSG_MAX_LEN
  BY <1>1, <1>2, <1>5, FrameAssumption
<1>7. c # <<>> => c[1] = START_FLAG
  <2>1. c # <<>> => 1 \in 1..Len(c) /\ n + 1 - 1 = n /\ n <= Len(b2)
    BY <1>2, <1>5
  <2> QED
    BY <1>5, <2>1
<1>8. ASSUME NEW i \in 1..(n - 1) PROVE Refuted(Append(s, x), Len(s) - Len(b) + i)
  <2>1. CASE i = 1
    BY <2>1
  <2>2. CASE i \in 2..(n - 1)
    <3>1. b2[i] # START_FLAG /\ i \in 1..Len(b2)
      BY <1>2, <1>5, <2>2
    <3>2. b2[i] = Append(s, x)[Len(Append(s, x)) - Len(b2) + i]
      BY <1>4, <3>1 DEF Tailing
    <3>3. Len(Append(s, x)) - Len(b2) + i = Len(s) - Len(b) + i
      BY <1>2, <1>3
    <3> QED
      BY <3>1, <3>2, <3>3 DEF Refuted
  <2>3. i = 1 \/ i \in 2..(n - 1)
    BY <1>5
  <2> QED
    BY <2>1, <2>2, <2>3
<1>9. c \in Seq(Bytes) /\ \A i \in 1..Len(c) : c[i] = Append(b, x)[n + i - 1]
  BY <1>5 DEF b2
<1>10. Parsed(c, Append(s, x), f)
  BY <1>6, <1>7, <1>8, <1>9, KeepFrom, Zenon
<1> QED
  BY <1>10 DEF c, b2

(* Every byte fed is delivered, buffered or counted.                       *)
Counted(d, b, s, f) ==
    d \in 0..(DiscardMod - 1) /\ d = (Len(s) - Len(b) - MSG_MAX_LEN * Len(f)) % DiscardMod

(* Dropping bytes counts them.                                             *)
LEMMA DropCounts ==
    ASSUME NEW b, NEW s, NEW f, Parsed(b, s, f), NEW x \in Bytes,
           NEW d, Counted(d, b, s, f), NEW c \in Seq(Bytes)
    PROVE  Counted((d + (Len(b) + 1) - Len(c)) % DiscardMod, c, Append(s, x), f)
<1> DEFINE X == Len(s) - Len(b) - MSG_MAX_LEN * Len(f)
           y == Len(b) + 1 - Len(c)
<1>1. b \in Seq(Bytes) /\ s \in Seq(Bytes) /\ f \in Seq(Nat \ {0})
  BY DEF Parsed
<1>2. /\ Len(b) \in Nat /\ Len(s) \in Nat /\ Len(f) \in Nat /\ Len(c) \in Nat
      /\ Len(Append(s, x)) = Len(s) + 1 /\ MSG_MAX_LEN \in Nat /\ DiscardMod \in Nat \ {0}
  BY <1>1, AppendFacts, FrameAssumption
<1>3. MSG_MAX_LEN * Len(f) \in Nat
  BY <1>2
<1>4. X \in Int /\ y \in Int /\ d \in Int /\ d = X % DiscardMod
  BY <1>2, <1>3 DEF Counted
<1>5. d + (Len(b) + 1) - Len(c) = d + y
  BY <1>2, <1>4
<1>6. Len(Append(s, x)) - Len(c) - MSG_MAX_LEN * Len(f) = X + y
  BY <1>2, <1>3
<1> HIDE DEF X, y
<1>7. (d + y) % DiscardMod = (X + y) % DiscardMod
  BY <1>2, <1>4, WrappingSum
<1>8. (d + y) % DiscardMod \in 0..(DiscardMod - 1)
  <2>1. d + y \in Int
    BY <1>4
  <2> QED
    BY <1>2, <2>1, DivMod
<1> QED
  BY <1>5, <1>6, <1>7, <1>8 DEF Counted

Good(b, s, f, d) == Parsed(b, s, f) /\ Counted(d, b, s, f)

(* A rejected candidate.                                                   *)
LEMMA ResyncGood ==
    ASSUME NEW x \in Bytes, Good(buf, stream, frames, discarded),
           Refuted(Append(stream, x), Len(stream) - Len(buf) + 1),
           Resync(Append(buf, x)), stream' = Append(stream, x), frames' = frames
    PROVE  Good(buf', stream', frames', discarded')
<1>1. Parsed(buf, stream, frames) /\ Counted(discarded, buf, stream, frames)
  BY DEF Good
<1>2. buf' = resync(Append(buf, x))
  BY DEF Resync
<1>3. Parsed(buf', stream', frames')
  BY <1>1, <1>2, ResyncKeeps
<1>4. Len(Append(buf, x)) = Len(buf) + 1 /\ buf' \in Seq(Bytes)
  BY <1>1, <1>3, AppendFacts DEF Parsed
<1>5. discarded' = (discarded + (Len(buf) + 1) - Len(buf')) % DiscardMod
  BY <1>2, <1>4 DEF Resync
<1>6. Counted(discarded', buf', stream', frames')
  BY <1>1, <1>4, <1>5, DropCounts
<1> QED
  BY <1>3, <1>6 DEF Good

(* The byte after which the buffer is as long as a frame.                  *)
LEMMA LastByte ==
    ASSUME NEW n \in Nat, n < MSG_MAX_LEN, n + 1 >= MSG_MAX_LEN
    PROVE  n = MSG_MAX_LEN - 1
BY FrameAssumption

(* Every step of the framer.                                               *)
LEMMA NextGood ==
    ASSUME Good(buf, stream, frames, discarded), [Next]_vars
    PROVE  Good(buf', stream', frames', discarded')
<1>0. Parsed(buf, stream, frames) /\ Counted(discarded, buf, stream, frames)
  BY DEF Good
<1>1. /\ buf \in Seq(Bytes) /\ stream \in Seq(Bytes) /\ frames \in Seq(Nat \ {0})
      /\ Len(buf) < MSG_MAX_LEN /\ (buf # <<>> => buf[1] = START_FLAG)
      /\ Tailing(buf, stream)
  BY <1>0 DEF Parsed
<1>2. Len(buf) \in Nat /\ Len(stream) \in Nat /\ Len(buf) <= Len(stream)
  BY <1>1 DEF Tailing
<1>3. ASSUME NEW x \in Bytes
      PROVE  /\ Append(buf, x) \in Seq(Bytes) /\ Len(Append(buf, x)) = Len(buf) + 1
             /\ Append(buf, x)[Len(buf) + 1] = x
             /\ \A i \in 1..Len(buf) : Append(buf, x)[i] = buf[i]
             /\ Append(stream, x) \in Seq(Bytes) /\ Len(Append(stream, x)) = Len(stream) + 1
             /\ Append(stream, x)[Len(stream) + 1] = x
             /\ Tailing(Append(buf, x), Append(stream, x))
  BY <1>1, AppendFacts, TailGrows
<1>4. ASSUME NEW x \in Bytes, Junk(x) PROVE Good(buf', stream', frames', discarded')
  <2>1. /\ buf = <<>> /\ x # START_FLAG /\ stream' = Append(stream, x)
        /\ discarded' = (discarded + 1) % DiscardMod /\ buf' = buf /\ frames' = frames
    BY <1>4 DEF Junk, Consume
  <2>2. Refuted(Append(stream, x), Len(stream) - Len(buf) + 1)
    <3>1. Len(stream) - Len(buf) + 1 = Len(stream) + 1
      BY <1>2, <2>1
    <3> QED
      BY <1>3, <2>1, <3>1 DEF Refuted
  <2>3. Parsed(resync(Append(buf, x)), Append(stream, x), frames)
    BY <1>0, <2>2, ResyncKeeps
  <2>4. Len(Append(buf, x)) = 1 /\ Append(buf, x) \in Seq(Bytes)
    BY <1>3, <2>1
  <2>5. resync(Append(buf, x)) \in Seq(Bytes) /\ Len(resync(Append(buf, x))) = 0
    <3> DEFINE b == Append(buf, x)
    <3>1. b \in Seq(Bytes) /\ Len(b) = 1 /\ Len(b) > 0
      BY <2>4
    <3> HIDE DEF b
    <3>2. /\ NextStart(b) \in 2..(Len(b) + 1) /\ resync(b) \in Seq(Bytes)
          /\ Len(resync(b)) = Len(b) + 1 - NextStart(b)
      BY <3>1, ResyncFacts
    <3>3. Len(resync(b)) = 0
      BY <3>1, <3>2
    <3> QED
      BY <3>2, <3>3 DEF b
  <2>6. resync(Append(buf, x)) = <<>> /\ <<>> \in Seq(Bytes) /\ Len(<<>>) = 0
    BY <2>5
  <2>7. discarded + 1 = discarded + (Len(buf) + 1) - Len(<<>>)
    BY <1>0, <2>1, <2>6, FrameAssumption DEF Counted
  <2>8. Counted(discarded', <<>>, Append(stream, x), frames)
    BY <1>0, <2>1, <2>6, <2>7, DropCounts
  <2> QED
    BY <2>1, <2>3, <2>6, <2>8 DEF Good
<1>5. ASSUME NEW x \in Bytes, FeedBadLength(x) PROVE Good(buf', stream', frames', discarded')
  <2>1. /\ LengthBad(Append(buf, x)) /\ Resync(Append(buf, x))
        /\ stream' = Append(stream, x) /\ frames' = frames
    BY <1>5 DEF FeedBadLength, Store, Consume
  <2>2. Len(buf) = MSG_LEN_INDEX /\ x # LENGTH_FLAG
    BY <1>2, <1>3, <2>1, FrameAssumption DEF LengthBad, DATA_OFFSET
  <2>3. Len(stream) - Len(buf) + 1 + MSG_LEN_INDEX = Len(stream) + 1
    BY <1>2, <2>2
  <2>4. Refuted(Append(stream, x), Len(stream) - Len(buf) + 1)
    <3>1. Len(stream) - Len(buf) + 1 + MSG_LEN_INDEX <= Len(Append(stream, x))
      BY <1>2, <1>3, <2>3
    <3> QED
      BY <1>3, <2>2, <2>3, <3>1 DEF Refuted
  <2> QED
    BY <2>1, <2>4, ResyncGood
<1>6. ASSUME NEW x \in Bytes, FeedPartial(x) PROVE Good(buf', stream', frames', discarded')
  <2>1. /\ buf = <<>> => x = START_FLAG
        /\ stream' = Append(stream, x) /\ frames' = frames /\ discarded' = discarded
        /\ buf' = Append(buf, x) /\ Len(Append(buf, x)) < MSG_MAX_LEN
    BY <1>6 DEF FeedPartial, Store, Consume
  <2> DEFINE c == Append(buf, x)
  <2>2. c \in Seq(Bytes) /\ Len(c) = Len(buf) + 2 - 1 /\ 1 \in 1..(Len(buf) + 2)
    BY <1>2, <1>3
  <2>3. \A i \in 1..Len(c) : c[i] = Append(buf, x)[1 + i - 1]
    <3>1. \A i \in 1..Len(c) : 1 + i - 1 = i
      BY <2>2
    <3> QED
      BY <3>1
  <2>4. c[1] = START_FLAG
    <3>1. CASE buf = <<>>
      BY <1>3, <2>1, <3>1
    <3>2. CASE buf # <<>>
      BY <1>1, <1>2, <1>3, <3>2
    <3> QED
      BY <3>1, <3>2
  <2>5. \A i \in 1..(1 - 1) : Refuted(Append(stream, x), Len(stream) - Len(buf) + i)
    OBVIOUS
  <2>6. Parsed(c, Append(stream, x), frames)
    <3>1. Len(c) < MSG_MAX_LEN
      BY <2>1
    <3> HIDE DEF c
    <3> QED
      BY <1>0, <2>2, <2>3, <2>4, <2>5, <3>1, KeepFrom, Zenon
  <2>7. Len(Append(stream, x)) - Len(c) = Len(stream) - Len(buf)
    BY <1>2, <1>3
  <2>8. Counted(discarded, c, Append(stream, x), frames)
    <3> HIDE DEF c
    <3> QED
      BY <1>0, <2>7 DEF Counted
  <2> QED
    BY <2>1, <2>6, <2>8 DEF Good
<1>7. ASSUME NEW x \in Bytes, FeedFrame(x) PROVE Good(buf', stream', frames', discarded')
  <2>1. /\ stream' = Append(stream, x) /\ discarded' = discarded /\ buf' = <<>>
        /\ frames' = Append(frames, Len(stream) + 2 - MSG_MAX_LEN)
        /\ Len(Append(buf, x)) >= MSG_MAX_LEN /\ ChecksumOK(Append(buf, x))
    BY <1>7 DEF FeedFrame, Store, Consume
  <2>2. Len(buf) = MSG_MAX_LEN - 1
    <3>1. Len(buf) + 1 >= MSG_MAX_LEN
      BY <1>3, <2>1
    <3> QED
      BY <1>1, <1>2, <3>1, LastByte, Zenon
  <2>3. Parsed(buf', stream', frames')
    BY <1>0, <2>1, <2>2, Deliver
  <2>4. Len(frames) \in Nat /\ Len(frames') = Len(frames) + 1 /\ Len(buf') = 0
    <3>1. Len(stream) + 2 - MSG_MAX_LEN \in Nat \ {0}
      BY <1>2, <2>2, FrameAssumption
    <3> QED
      BY <1>1, <2>1, <3>1, AppendFacts
  <2>5. MSG_MAX_LEN * (Len(frames) + 1) = MSG_MAX_LEN * Len(frames) + MSG_MAX_LEN
        /\ MSG_MAX_LEN * Len(frames) \in Nat
    BY <2>4, FrameAssumption
  <2>6. Len(stream') - Len(buf') - MSG_MAX_LEN * Len(frames')
            = Len(stream) - Len(buf) - MSG_MAX_LEN * Len(frames)
    BY <1>2, <1>3, <2>1, <2>2, <2>4, <2>5, FrameAssumption
  <2>7. Counted(discarded', buf', stream', frames')
    BY <1>0, <2>1, <2>6 DEF Counted
  <2> QED
    BY <2>3, <2>7 DEF Good
<1>8. ASSUME NEW x \in Bytes, FeedBadChecksum(x) PROVE Good(buf', stream', frames', discarded')
  <2>1. /\ Resync(Append(buf, x)) /\ Len(Append(buf, x)) >= MSG_MAX_LEN
        /\ ~ChecksumOK(Append(buf, x))
        /\ stream' = Append(stream, x) /\ frames' = frames
    BY <1>8 DEF FeedBadChecksum, Store, Consume
  <2>2. Len(Append(buf, x)) = MSG_MAX_LEN /\ Len(buf) = MSG_MAX_LEN - 1
    <3>1. Len(Append(buf, x)) = Len(buf) + 1
      BY <1>3
    <3>2. Len(buf) + 1 >= MSG_MAX_LEN
      BY <2>1, <3>1
    <3>3. Len(buf) = MSG_MAX_LEN - 1
      BY <1>1, <1>2, <3>2, LastByte, Zenon
    <3> QED
      BY <1>2, <3>1, <3>3, FrameAssumption
  <2>3. Append(buf, x) = Window(Append(stream, x), Len(Append(stream, x)) - MSG_MAX_LEN + 1)
    BY <1>3, <2>2, TailIsWindow
  <2>4. Len(Append(stream, x)) - MSG_MAX_LEN + 1 = Len(stream) - Len(buf) + 1
    BY <1>2, <1>3, <2>2, FrameAssumption
  <2>5. Len(stream) - Len(buf) + 1 + MSG_MAX_LEN - 1 <= Len(Append(stream, x))
    BY <1>2, <1>3, <2>2, FrameAssumption
  <2>6. Refuted(Append(stream, x), Len(stream) - Len(buf) + 1)
    BY <2>1, <2>3, <2>4, <2>5 DEF Refuted
  <2> QED
    BY <2>1, <2>6, ResyncGood
<1>9. ASSUME buf' = <<>>, stream' = <<>>, frames' = <<>>, discarded' = 0
      PROVE  Good(buf', stream', frames', discarded')
  <2>1. MSG_MAX_LEN \in Nat /\ MSG_MAX_LEN > 0 /\ DiscardMod \in Nat \ {0}
    BY FrameAssumption
  <2>2. 0 - 0 - MSG_MAX_LEN * 0 = 0 /\ 0 % DiscardMod = 0
    BY <2>1
  <2>3. Counted(0, <<>>, <<>>, <<>>)
    BY <2>1, <2>2 DEF Counted
  <2>4. Parsed(<<>>, <<>>, <<>>)
    BY <2>1 DEF Parsed, Tailing
  <2> QED
    BY <1>9, <2>3, <2>4 DEF Good
<1>10. CASE UNCHANGED vars
  BY <1>10 DEF vars, Good, Parsed, Counted
<1>11. CASE Next
  BY <1>4, <1>5, <1>6, <1>7, <1>8, <1>9, <1>11 DEF Next, Reset
<1> QED
  BY <1>10, <1>11

(* A new framer.                                                           *)
LEMMA InitGood ==
    ASSUME Init
    PROVE  Good(buf, stream, frames, discarded)
<1>1. MSG_MAX_LEN \in Nat /\ MSG_MAX_LEN > 0 /\ DiscardMod \in Nat \ {0}
  BY FrameAssumption
<1>2. 0 - 0 - MSG_MAX_LEN * 0 = 0 /\ 0 % DiscardMod = 0
  BY <1>1
<1>3. Counted(0, <<>>, <<>>, <<>>)
  BY <1>1, <1>2 DEF Counted
<1>4. Parsed(<<>>, <<>>, <<>>)
  BY <1>1 DEF Parsed, Tailing
<1> QED
  BY <1>3, <1>4 DEF Init, Good

(* The whole is an invariant.                                              *)
LEMMA GoodInvariant == Spec => []Good(buf, stream, frames, discarded)
<1>1. Init => Good(buf, stream, frames, discarded)
  BY InitGood
<1>2. Good(buf, stream, frames, discarded) /\ [Next]_vars => Good(buf, stream, frames, discarded)'
  BY NextGood
<1> QED
  BY <1>1, <1>2, PTL DEF Spec

-----------------------------------------------------------------------------
(* The properties.                                                         *)

(* The buffer never holds a whole frame and begins with a start flag.      *)
THEOREM TypeCorrect == Spec => []TypeOK
<1>1. Good(buf, stream, frames, discarded) => TypeOK
  BY DEF Good, Parsed, Counted, TypeOK
<1> QED
  BY <1>1, GoodInvariant, PTL

(* No byte is unaccounted for, whatever the wrap of the counter.           *)
THEOREM BytesAccounted == Spec => []ByteAccounting
<1>1. Good(buf, stream, frames, discarded) => ByteAccounting
  BY DEF Good, Counted, ByteAccounting
<1> QED
  BY <1>1, GoodInvariant, PTL

(* Every genuine frame is delivered, or begins inside a delivered one.     *)
THEOREM GenuineFramesSurvive == Spec => []NoGenuineFrameLost
<1>1. ASSUME Good(buf, stream, frames, discarded), NEW p \in 1..Len(stream), Genuine(stream, p)
      PROVE  \E k \in DOMAIN frames : Covers(frames[k], p)
  <2>1. Parsed(buf, stream, frames)
    BY <1>1 DEF Good
  <2>2. /\ Len(buf) \in Nat /\ Len(stream) \in Nat /\ Len(buf) < MSG_MAX_LEN
        /\ MSG_MAX_LEN \in Nat /\ MSG_LEN_INDEX \in Nat /\ MSG_LEN_INDEX < MSG_MAX_LEN - 1
    BY <2>1, FrameAssumption DEF Parsed
  <2>3. /\ p + MSG_MAX_LEN - 1 <= Len(stream) /\ stream[p] = START_FLAG
        /\ stream[p + MSG_LEN_INDEX] = LENGTH_FLAG /\ ChecksumOK(Window(stream, p))
    BY <1>1 DEF Genuine
  <2>4. p \in 1..(Len(stream) - Len(buf))
    BY <2>2, <2>3
  <2>5. ~Refuted(stream, p)
    BY <2>3 DEF Refuted
  <2>6. Covered(frames, p)
    BY <2>1, <2>4, <2>5 DEF Parsed
  <2> QED
    BY <2>6 DEF Covered
<1>2. Good(buf, stream, frames, discarded) => NoGenuineFrameLost
  BY <1>1 DEF NoGenuineFrameLost
<1> QED
  BY <1>2, GoodInvariant, PTL

(* Frames come from the stream, in order and disjoint, and what is still   *)
(* buffered is the end of it.                                              *)
THEOREM FramesInPlace == Spec => []FramesFromStream
<1>1. ASSUME Good(buf, stream, frames, discarded) PROVE FramesFromStream
  <2>1. /\ buf \in Seq(Bytes) /\ stream \in Seq(Bytes) /\ Tailing(buf, stream)
        /\ \A k \in DOMAIN frames : InPlace(buf, stream, frames, k)
    BY <1>1 DEF Good, Parsed
  <2>2. Len(buf) \in Nat /\ Len(stream) \in Nat /\ Len(buf) <= Len(stream)
    BY <2>1 DEF Tailing
  <2> DEFINE m == Len(stream) - Len(buf) + 1
             tail == SubSeq(stream, m, Len(stream))
  <2>3. m \in Int /\ Len(stream) \in Int /\ m >= 1 /\ m <= Len(stream) + 1
    BY <2>2
  <2>4. \A i \in m..Len(stream) : stream[i] \in Bytes
    BY <2>1, <2>2
  <2> HIDE DEF m
  <2>5. /\ tail \in Seq(Bytes)
        /\ Len(tail) = IF m <= Len(stream) THEN Len(stream) - m + 1 ELSE 0
        /\ \A i \in 1..(Len(stream) - m + 1) : tail[i] = stream[m + i - 1]
    BY <2>3, <2>4, SubSeqProperties
  <2> HIDE DEF tail
  <2>6. Len(tail) = Len(buf) /\ Len(stream) - m + 1 = Len(buf)
    BY <2>2, <2>3, <2>5 DEF m
  <2>7. ASSUME NEW i \in 1..Len(buf) PROVE buf[i] = tail[i]
    <3>1. m + i - 1 = Len(stream) - Len(buf) + i
      BY <2>2 DEF m
    <3>2. buf[i] = stream[Len(stream) - Len(buf) + i]
      BY <2>1 DEF Tailing
    <3> QED
      BY <2>5, <2>6, <3>1, <3>2
  <2>8. buf = tail
    BY <2>1, <2>5, <2>6, <2>7, SeqEqual
  <2>9. buf = SubSeq(stream, BufferStart, Len(stream))
    BY <2>8 DEF tail, m, BufferStart
  <2> QED
    BY <2>1, <2>9 DEF InPlace, BufferStart, FramesFromStream
<1> QED
  BY <1>1, GoodInvariant, PTL
=============================================================================
