--------------------------- MODULE PeripheralsProofs ---------------------------
(* Theorems about the parts around controller, scheduler and store taken together, and    *)
(* about the one that no other module of proofs is about: the serial line.                *)
EXTENDS MCPeripherals, DeviceProofs, WebProofs, WellFoundedInduction, SequenceTheorems

-----------------------------------------------------------------------------
(* What holds of the serial line, for any frames and any faults: the framer finds in  *)
(* a sound stream what was sent, wherever the stream is cut.                          *)

LEMMA NextMarkerIs ==
    ASSUME NEW bytes \in Seq(Nat), NEW n \in 0 .. Len(bytes)
    PROVE  /\ NextMarker(bytes, n) \in n + 1 .. Len(bytes) + 1
           /\ n < Len(bytes) /\ bytes[n + 1] = Marker => NextMarker(bytes, n) = n + 1
<1> DEFINE markers == {i \in n + 1 .. Len(bytes) : bytes[i] = Marker}
<1>0. Len(bytes) \in Nat
  BY LenProperties
<1>1. CASE markers = {}
  BY <1>0, <1>1 DEF NextMarker
<1>2. CASE markers # {}
  <2>1. \A i \in markers : i \in n + 1 .. Len(bytes)
    OBVIOUS
  <2>2. n < Len(bytes) /\ bytes[n + 1] = Marker => n + 1 \in markers
    BY <1>0
  <2>3. NextMarker(bytes, n) = Min(markers)
    BY <1>2 DEF NextMarker
  <2> HIDE DEF markers
  <2>4. markers \in SUBSET Nat
    BY <1>0, <2>1
  <2>5. \E x \in markers : \A y \in markers : x <= y
    BY <1>2, <2>4, LeastOf
  <2>6. Min(markers) \in markers /\ \A y \in markers : Min(markers) <= y
    BY <2>5 DEF Min
  <2> QED BY <1>0, <2>1, <2>2, <2>3, <2>6
<1> QED BY <1>1, <1>2

(* One turn of the loop, given what is found further on. *)
TurnAt(bytes, found, start) ==
    IF Incomplete(bytes, start)
    THEN [frames |-> <<>>, rest |-> SubSeq(bytes, start, Len(bytes))]
    ELSE [frames |-> <<SubSeq(bytes, start, FrameEnd(bytes, start))>>
                         \o found[FrameEnd(bytes, start)].frames,
          rest |-> found[FrameEnd(bytes, start)].rest]

Turn(bytes, found, n) == TurnAt(bytes, found, NextMarker(bytes, n))

(* The loop gets on. *)
LEMMA FrameEndAhead ==
    ASSUME NEW bytes \in Seq(Nat), NEW n \in Nat, NEW start \in n + 1 .. Len(bytes) + 1,
           ~Incomplete(bytes, start)
    PROVE  FrameEnd(bytes, start) \in n + 1 .. Len(bytes)
<1>0. Len(bytes) \in Nat
  BY LenProperties
<1>1. start + 2 \in 1 .. Len(bytes)
  BY <1>0 DEF Incomplete
<1>2. bytes[start + 2] \in Nat
  BY <1>1, ElementOfSeq
<1>3. FrameEnd(bytes, start) \in Int /\ FrameEnd(bytes, start) >= n + 1
  BY <1>0, <1>2 DEF FrameEnd, Overhead
<1>4. FrameEnd(bytes, start) <= Len(bytes)
  BY <1>0, <1>1, <1>3 DEF Incomplete
<1> QED BY <1>0, <1>3, <1>4

LEMMA TurnsAhead ==
    ASSUME NEW bytes \in Seq(Nat), NEW n \in 0 .. Len(bytes),
           NEW f, NEW g, \A m \in n + 1 .. Len(bytes) : f[m] = g[m]
    PROVE  Turn(bytes, f, n) = Turn(bytes, g, n)
<1> DEFINE start == NextMarker(bytes, n)
<1>1. start \in n + 1 .. Len(bytes) + 1
  BY NextMarkerIs
<1> HIDE DEF start
<1>2. ASSUME ~Incomplete(bytes, start) PROVE f[FrameEnd(bytes, start)] = g[FrameEnd(bytes, start)]
  BY <1>1, <1>2, FrameEndAhead
<1>3. TurnAt(bytes, f, start) = TurnAt(bytes, g, start)
  BY <1>2 DEF TurnAt
<1> QED BY <1>3 DEF Turn, start

LEMMA ExtractIs ==
    ASSUME NEW bytes \in Seq(Nat)
    PROVE  \E found : /\ Extract(bytes) = found[0]
                      /\ found = [n \in 0 .. Len(bytes) |-> Turn(bytes, found, n)]
<1> DEFINE N == Len(bytes)
           Good(g, j) == g = [n \in N - j .. N |-> Turn(bytes, g, n)]
           T == {j \in 0 .. N : ~\E g : Good(g, j)}
<1>0. N \in Nat
  BY LenProperties
<1>1. ASSUME T # {} PROVE FALSE
  <2>1. PICK j \in T : \A y \in T : j <= y
    <3>1. T \in SUBSET Nat
      BY <1>0
    <3> HIDE DEF T
    <3> QED BY <1>1, <3>1, LeastOf
  <2>0. j \in 0 .. N /\ ~\E g : Good(g, j)
    BY <2>1
  <2>2. CASE j = 0
    <3> DEFINE z == [n \in N .. N |-> Turn(bytes, <<>>, n)]
    <3>1. \A n \in N .. N : n \in 0 .. Len(bytes) /\ n = N
      BY <1>0
    <3>2. \A n \in N .. N : Turn(bytes, <<>>, n) = Turn(bytes, z, n)
      <4> HIDE DEF z
      <4>1. \A m \in N + 1 .. Len(bytes) : <<>>[m] = z[m]
        BY <1>0
      <4>2. N \in 0 .. Len(bytes)
        BY <1>0
      <4>3. Turn(bytes, <<>>, N) = Turn(bytes, z, N)
        BY <4>1, <4>2, TurnsAhead
      <4> QED BY <3>1, <4>3
    <3>3. z = [n \in N .. N |-> Turn(bytes, z, n)]
      BY <3>2
    <3> HIDE DEF z
    <3>4. Good(z, 0)
      BY <1>0, <3>3
    <3> QED BY <2>0, <2>2, <3>4
  <2>3. CASE j # 0
    <3>1. j - 1 \in 0 .. N /\ j - 1 \notin T
      <4> HIDE DEF T, N
      <4> QED BY <1>0, <2>0, <2>1, <2>3
    <3>2. PICK g : Good(g, j - 1)
      BY <3>1
    <3> DEFINE h == [n \in N - j .. N |-> IF n = N - j THEN Turn(bytes, g, n) ELSE g[n]]
    <3>3. \A n \in N - j .. N : n # N - j => n \in N - (j - 1) .. N
      BY <1>0, <2>0
    <3>4. \A n \in N - j .. N : h[n] = Turn(bytes, g, n)
      BY <3>2, <3>3
    <3>5. \A n \in N - j .. N : Turn(bytes, g, n) = Turn(bytes, h, n)
      <4> SUFFICES ASSUME NEW n \in N - j .. N PROVE Turn(bytes, g, n) = Turn(bytes, h, n)
        OBVIOUS
      <4>1. n \in 0 .. N /\ \A m \in n + 1 .. N : m \in N - j .. N /\ m # N - j
        BY <1>0, <2>0
      <4>2. \A m \in n + 1 .. N : g[m] = h[m]
        BY <4>1
      <4> HIDE DEF h
      <4> QED BY <4>1, <4>2, TurnsAhead
    <3>6. h = [n \in N - j .. N |-> Turn(bytes, h, n)]
      <4>1. DOMAIN h = N - j .. N /\ h = [n \in DOMAIN h |-> h[n]]
        OBVIOUS
      <4> HIDE DEF h
      <4> QED BY <3>4, <3>5, <4>1
    <3> HIDE DEF h
    <3> QED BY <2>0, <3>6
  <2> QED BY <2>2, <2>3
<1>2. \E g : Good(g, N)
  BY <1>0, <1>1
<1>3. N - N .. N = 0 .. N
  BY <1>0
<1> DEFINE found == CHOOSE g : g = [n \in 0 .. Len(bytes) |-> Turn(bytes, g, n)]
<1>4. Extract(bytes) = found[0]
  BY DEF Extract, Turn, TurnAt
<1>5. found = [n \in 0 .. Len(bytes) |-> Turn(bytes, found, n)]
  BY <1>2, <1>3
<1> QED BY <1>4, <1>5

(* The frames fs lie end to end in the stream, and c[i] is where the i-th ends. *)
Ruled(stream, fs, c) ==
    /\ c \in [0 .. Len(fs) -> Nat]
    /\ c[0] = 0 /\ c[Len(fs)] = Len(stream)
    /\ \A i \in 1 .. Len(fs) :
          /\ c[i] = c[i - 1] + Len(fs[i]) /\ c[i] <= Len(stream)
          /\ \A j \in 1 .. Len(fs[i]) : stream[c[i - 1] + j] = fs[i][j]

Begins(b, stream) == Len(b) <= Len(stream) /\ \A i \in 1 .. Len(b) : b[i] = stream[i]

LEMMA AnswerIs ==
    ASSUME NEW f \in Answers
    PROVE  /\ f \in Seq(Nat) /\ Len(f) \in Nat /\ Len(f) >= 7
           /\ f[1] = Marker /\ f[3] \in Nat /\ Len(f) = f[3] + 7
<1>1. f \in Seq(Nat) /\ WellFramed(f)
  BY LineAssumption
<1>2. Len(f) \in Nat
  BY <1>1, LenProperties
<1>3. Len(f) >= 7 /\ f[1] = Marker /\ Len(f) = f[3] + 7
  BY <1>1 DEF WellFramed, Overhead
<1>4. 3 \in 1 .. Len(f)
  BY <1>2, <1>3
<1>5. f[3] \in Nat
  BY <1>1, <1>4, ElementOfSeq
<1> QED BY <1>1, <1>2, <1>3, <1>5

(* What a turn yields: a frame and what is found beyond it, or what is kept. *)
FrameThen(f, later) == [frames |-> <<f>> \o later.frames, rest |-> later.rest]
KeptFrom(b, n) == [frames |-> <<>>, rest |-> SubSeq(b, n + 1, Len(b))]

Cut(stream, fs, c, b) ==
    /\ stream \in Seq(Nat) /\ fs \in Seq(Answers) /\ b \in Seq(Nat)
    /\ Ruled(stream, fs, c) /\ Begins(b, stream)

StartOf(c, k) == c[k - 1]

AtFrame(b, found, f, start, end) ==
    start <= Len(b) =>
        /\ end <= Len(b) => Turn(b, found, start) = FrameThen(f, found[end])
        /\ ~(end <= Len(b)) => Turn(b, found, start) = KeptFrom(b, start)

(* At the end of a frame the loop finds the next one, if all of it is there, and else   *)
(* keeps what is there.                                                             *)
LEMMA NextTurn ==
    ASSUME NEW stream, NEW fs, NEW c, NEW b, Cut(stream, fs, c, b), NEW found,
           NEW k \in 1 .. Len(fs)
    PROVE  AtFrame(b, found, fs[k], StartOf(c, k), c[k])
<1> SUFFICES ASSUME c[k - 1] <= Len(b)
             PROVE  /\ c[k] <= Len(b) => Turn(b, found, c[k - 1]) = FrameThen(fs[k], found[c[k]])
                    /\ ~(c[k] <= Len(b)) => Turn(b, found, c[k - 1]) = KeptFrom(b, c[k - 1])
  BY DEF AtFrame, StartOf
<1> /\ stream \in Seq(Nat) /\ fs \in Seq(Answers) /\ b \in Seq(Nat)
    /\ Ruled(stream, fs, c) /\ Begins(b, stream)
  BY DEF Cut
<1> DEFINE f == fs[k]
           here == c[k - 1]
           start == NextMarker(b, here)
<1>0. /\ Len(b) \in Nat /\ Len(fs) \in Nat /\ Len(stream) \in Nat
      /\ here \in Nat /\ c[k] \in Nat
  BY LenProperties DEF Ruled
<1>1. f \in Answers
  BY ElementOfSeq
<1> HIDE DEF f
<1>2. c[k] = here + Len(f) /\ \A j \in 1 .. Len(f) : stream[here + j] = f[j]
  BY DEF Ruled, f
<1>3. here <= Len(b)
  OBVIOUS
<1> HIDE DEF here
<1>4. \A j \in 1 .. Len(f) : here + j <= Len(b) => b[here + j] = f[j]
  <2> SUFFICES ASSUME NEW j \in 1 .. Len(f), here + j <= Len(b) PROVE b[here + j] = f[j]
    OBVIOUS
  <2>1. here + j \in 1 .. Len(b)
    BY <1>0, <1>1, AnswerIs
  <2> QED BY <1>2, <2>1 DEF Begins
<1>5. start = here + 1
  <2>1. here \in 0 .. Len(b)
    BY <1>0, <1>3
  <2>2. /\ start \in here + 1 .. Len(b) + 1
        /\ here < Len(b) /\ b[here + 1] = Marker => start = here + 1
    <3> HIDE DEF start
    <3> QED BY <2>1, NextMarkerIs DEF start
  <2> HIDE DEF start
  <2>3. CASE here = Len(b)
    BY <1>0, <2>2, <2>3
  <2>4. CASE here < Len(b)
    <3>1. f[1] = Marker /\ 1 \in 1 .. Len(f)
      BY <1>1, AnswerIs
    <3>2. here + 1 <= Len(b)
      BY <1>0, <2>4
    <3>3. b[here + 1] = Marker
      BY <1>4, <3>1, <3>2
    <3> QED BY <2>2, <2>4, <3>3
  <2> QED BY <1>0, <2>1, <2>3, <2>4
<1> HIDE DEF start
<1>6. here + 3 <= Len(b) => FrameEnd(b, start) = c[k]
  <2> SUFFICES ASSUME here + 3 <= Len(b) PROVE FrameEnd(b, start) = c[k]
    OBVIOUS
  <2>1. b[start + 2] = f[3]
    <3>1. 3 \in 1 .. Len(f) /\ start + 2 = here + 3
      BY <1>0, <1>1, <1>5, AnswerIs
    <3> QED BY <1>4, <3>1
  <2>2. FrameEnd(b, start) = here + 1 + f[3] + 7 - 1
    BY <1>5, <2>1 DEF FrameEnd, Overhead
  <2>3. f[3] \in Nat /\ Len(f) = f[3] + 7
    BY <1>1, AnswerIs
  <2>4. c[k] = here + (f[3] + 7)
    BY <1>2, <2>3
  <2>5. \A x, y \in Nat : x + 1 + y + 7 - 1 = x + (y + 7)
    OBVIOUS
  <2> QED BY <1>0, <2>2, <2>3, <2>4, <2>5
<1>7. CASE c[k] <= Len(b)
  <2>1. here + 3 <= Len(b)
    BY <1>0, <1>1, <1>2, <1>7, AnswerIs
  <2>2. ~Incomplete(b, start)
    BY <1>0, <1>5, <1>6, <1>7, <2>1 DEF Incomplete
  <2>3. SubSeq(b, here + 1, c[k]) = f
    <3> DEFINE piece == SubSeq(b, here + 1, c[k])
    <3>1. \A i \in here + 1 .. c[k] : b[i] \in Nat
      <4> SUFFICES ASSUME NEW i \in here + 1 .. c[k] PROVE b[i] \in Nat
        OBVIOUS
      <4>1. i \in 1 .. Len(b)
        BY <1>0, <1>7
      <4> QED BY <4>1, ElementOfSeq
    <3>2. here + 1 \in Int /\ c[k] \in Int
      BY <1>0
    <3>3. /\ piece \in Seq(Nat)
          /\ Len(piece) = (IF here + 1 <= c[k] THEN c[k] - (here + 1) + 1 ELSE 0)
          /\ \A i \in 1 .. c[k] - (here + 1) + 1 : piece[i] = b[here + 1 + i - 1]
      <4> HIDE DEF piece
      <4> QED BY <3>1, <3>2, SubSeqProperties DEF piece
    <3> HIDE DEF piece
    <3>4. Len(piece) = Len(f)
      BY <1>0, <1>1, <1>2, <3>3, AnswerIs
    <3>5. \A i \in 1 .. Len(piece) : piece[i] = f[i]
      <4> SUFFICES ASSUME NEW i \in 1 .. Len(piece) PROVE piece[i] = f[i]
        OBVIOUS
      <4>1. i \in 1 .. c[k] - (here + 1) + 1 /\ here + 1 + i - 1 = here + i /\ i \in 1 .. Len(f)
        BY <1>0, <1>1, <1>2, <3>4, AnswerIs
      <4>2. piece[i] = b[here + i]
        BY <3>3, <4>1
      <4>3. here + i <= Len(b)
        BY <1>0, <1>1, <1>2, <1>7, <4>1, AnswerIs
      <4> QED BY <1>4, <4>1, <4>2, <4>3
    <3>6. f \in Seq(Nat)
      BY <1>1, AnswerIs
    <3>7. piece = f
      BY <3>3, <3>4, <3>5, <3>6, SeqEqual
    <3> QED BY <3>7 DEF piece
  <2>4. TurnAt(b, found, start) = FrameThen(f, found[c[k]])
    BY <1>5, <1>6, <2>1, <2>2, <2>3 DEF TurnAt, FrameThen
  <2> QED BY <1>7, <2>4 DEF Turn, start, here, f
<1>8. CASE ~(c[k] <= Len(b))
  <2>1. Incomplete(b, start)
    BY <1>0, <1>5, <1>6, <1>8 DEF Incomplete
  <2>2. TurnAt(b, found, start) = KeptFrom(b, here)
    BY <1>5, <2>1 DEF TurnAt, KeptFrom
  <2> QED BY <1>0, <1>8, <2>2 DEF Turn, start, here, f
<1> QED BY <1>0, <1>7, <1>8

LEMMA LastTurn ==
    ASSUME NEW b \in Seq(Nat), NEW found
    PROVE  Turn(b, found, Len(b)) = KeptFrom(b, Len(b))
<1>0. Len(b) \in Nat
  BY LenProperties
<1>1. NextMarker(b, Len(b)) = Len(b) + 1
  <2>1. Len(b) \in 0 .. Len(b)
    BY <1>0
  <2>2. NextMarker(b, Len(b)) \in Len(b) + 1 .. Len(b) + 1
    BY <2>1, NextMarkerIs
  <2> QED BY <1>0, <2>2
<1>2. Incomplete(b, Len(b) + 1)
  BY <1>0 DEF Incomplete
<1> QED BY <1>1, <1>2 DEF Turn, TurnAt, KeptFrom

(* A ruler goes up. *)
LEMMA RulerUp ==
    ASSUME NEW stream \in Seq(Nat), NEW fs \in Seq(Answers), NEW c, Ruled(stream, fs, c),
           NEW K \in 0 .. Len(fs)
    PROVE  \A k \in 0 .. K : c[k] \in Nat /\ c[k] <= c[K]
<1> DEFINE N == Len(fs)
<1>0. N \in Nat /\ \A i \in 0 .. N : c[i] \in Nat
  BY LenProperties DEF Ruled
<1>1. \A i \in 1 .. N : c[i - 1] <= c[i]
  <2> SUFFICES ASSUME NEW i \in 1 .. N PROVE c[i - 1] <= c[i]
    OBVIOUS
  <2>1. c[i] = c[i - 1] + Len(fs[i])
    BY DEF Ruled
  <2>2. Len(fs[i]) \in Nat
    BY ElementOfSeq, AnswerIs
  <2>3. c[i - 1] \in Nat
    BY <1>0
  <2> QED BY <2>1, <2>2, <2>3
<1> DEFINE T == {j \in 0 .. K : ~(c[K - j] <= c[K])}
<1>2. CASE T = {}
  <2> SUFFICES ASSUME NEW k \in 0 .. K PROVE c[k] <= c[K]
    BY <1>0
  <2>1. K - k \in 0 .. K /\ K - (K - k) = k
    BY <1>0
  <2> QED BY <1>2, <2>1
<1>3. CASE T # {}
  <2>1. T \in SUBSET Nat
    BY <1>0
  <2>2. \A j \in 0 .. K : j \in T <=> ~(c[K - j] <= c[K])
    OBVIOUS
  <2>3. \A j \in T : j \in 0 .. K
    OBVIOUS
  <2> HIDE DEF T
  <2>4. PICK j \in T : \A y \in T : j <= y
    BY <1>3, <2>1, LeastOf
  <2>5. j \in 0 .. K /\ ~(c[K - j] <= c[K])
    BY <2>2, <2>3
  <2>6. c[K] \in Nat /\ K - 0 = K
    BY <1>0
  <2>7. j # 0
    BY <2>5, <2>6
  <2>8. j - 1 \in 0 .. K /\ j - 1 \notin T
    BY <1>0, <2>1, <2>4, <2>5, <2>7
  <2>9. c[K - (j - 1)] <= c[K]
    BY <2>2, <2>8
  <2>10. K - (j - 1) \in 1 .. N /\ K - (j - 1) - 1 = K - j /\ K - j \in 0 .. N
    BY <1>0, <2>5, <2>7
  <2>11. c[K - j] <= c[K - (j - 1)]
    BY <1>1, <2>10
  <2>12. c[K - (j - 1)] \in Nat /\ c[K - j] \in Nat
    BY <1>0, <2>10
  <2> QED BY <2>5, <2>6, <2>9, <2>11, <2>12
<1> QED BY <1>2, <1>3

(* The first K frames are found, and what is left begins the next one. *)
Framed(fs, c, b) ==
    \E K \in 0 .. Len(fs) :
        /\ c[K] <= Len(b)
        /\ K < Len(fs) => Len(b) < c[K + 1]
        /\ Extract(b).frames = SubSeq(fs, 1, K)
        /\ Extract(b).rest = SubSeq(b, c[K] + 1, Len(b))

(* However a sound stream is cut, the framer finds the frames that are there as a whole *)
(* and keeps the beginning of the next one, whatever the payloads look like             *)
(* (_extract_frames()).                                                              *)
THEOREM Framing ==
    ASSUME NEW stream, NEW fs, NEW c, NEW b, Cut(stream, fs, c, b)
    PROVE  Framed(fs, c, b)
<1> /\ stream \in Seq(Nat) /\ fs \in Seq(Answers) /\ b \in Seq(Nat)
    /\ Ruled(stream, fs, c) /\ Begins(b, stream)
  BY DEF Cut
<1> DEFINE N == Len(fs)
<1>0. /\ N \in Nat /\ Len(b) \in Nat /\ Len(stream) \in Nat
      /\ \A i \in 0 .. N : c[i] \in Nat
      /\ c[0] = 0 /\ c[N] = Len(stream) /\ Len(b) <= Len(stream)
  <2>1. N \in Nat /\ Len(b) \in Nat /\ Len(stream) \in Nat
    BY LenProperties
  <2>2. \A i \in 0 .. N : c[i] \in Nat
    BY DEF Ruled
  <2> QED BY <2>1, <2>2 DEF Ruled, Begins
<1>1. PICK K \in 0 .. N : c[K] <= Len(b) /\ (K < N => Len(b) < c[K + 1])
  <2> DEFINE T == {i \in 0 .. N : Len(b) < c[i]}
  <2>1. CASE T = {}
    <3>1. N \in 0 .. N /\ ~(N < N)
      BY <1>0
    <3>2. ~(Len(b) < c[N])
      BY <2>1, <3>1
    <3>3. c[N] <= Len(b)
      BY <1>0, <3>2
    <3> HIDE DEF T
    <3> QED BY <3>1, <3>3
  <2>2. CASE T # {}
    <3>1. T \in SUBSET Nat
      BY <1>0
    <3>2. \A i \in T : i \in 0 .. N /\ Len(b) < c[i]
      OBVIOUS
    <3>3. \A i \in 0 .. N : i \notin T => ~(Len(b) < c[i])
      OBVIOUS
    <3> HIDE DEF T
    <3>4. PICK i \in T : \A y \in T : i <= y
      BY <2>2, <3>1, LeastOf
    <3>5. i \in 1 .. N
      BY <1>0, <3>2, <3>4
    <3>6. i - 1 \notin T
      BY <3>1, <3>4, <3>5
    <3>7. i - 1 \in 0 .. N /\ i - 1 + 1 = i
      BY <1>0, <3>5
    <3>8. c[i - 1] <= Len(b)
      BY <1>0, <3>3, <3>6, <3>7
    <3> QED BY <3>2, <3>4, <3>7, <3>8
  <2> QED BY <2>1, <2>2
<1>2. PICK found : /\ Extract(b) = found[0]
                   /\ found = [n \in 0 .. Len(b) |-> Turn(b, found, n)]
  BY ExtractIs
<1>3. \A n \in 0 .. Len(b) : found[n] = Turn(b, found, n)
  BY <1>2
<1>4. \A k \in 1 .. K : c[k] <= c[K]
  BY <1>0, RulerUp
<1> DEFINE rest == SubSeq(b, c[K] + 1, Len(b))
           P(k) == found[c[k]] = [frames |-> SubSeq(fs, k + 1, K), rest |-> rest]
           T == {j \in 0 .. K : ~P(K - j)}
<1>5. P(K)
  <2>0. c[K] \in 0 .. Len(b)
    BY <1>0, <1>1
  <2>1. found[c[K]] = Turn(b, found, c[K])
    BY <1>3, <2>0
  <2>2. SubSeq(fs, K + 1, K) = <<>>
    BY <1>0, SubSeqEmpty
  <2>3. CASE K = N
    <3>1. c[K] = Len(b)
      BY <1>0, <1>1, <2>3
    <3>2. Turn(b, found, c[K]) = KeptFrom(b, c[K])
      BY <3>1, LastTurn
    <3> QED BY <2>1, <2>2, <3>2 DEF KeptFrom
  <2>4. CASE K < N
    <3>1. K + 1 \in 1 .. N /\ (K + 1) - 1 = K /\ c[K + 1] \in Nat /\ ~(c[K + 1] <= Len(b))
      BY <1>0, <1>1, <2>4
    <3>2. PICK k \in 1 .. N : k = K + 1
      BY <3>1
    <3>3. k - 1 = K /\ c[k - 1] <= Len(b) /\ ~(c[k] <= Len(b))
      BY <1>1, <3>1, <3>2
    <3>4. Turn(b, found, c[k - 1]) = KeptFrom(b, c[k - 1])
      <4>1. AtFrame(b, found, fs[k], StartOf(c, k), c[k])
        BY NextTurn
      <4> QED BY <3>3, <4>1 DEF AtFrame, StartOf
    <3>5. Turn(b, found, c[K]) = KeptFrom(b, c[K])
      BY <3>3, <3>4
    <3> QED BY <2>1, <2>2, <3>5 DEF KeptFrom
  <2> QED BY <1>0, <2>3, <2>4
<1>6. \A k \in 1 .. K : P(k) => P(k - 1)
  <2> SUFFICES ASSUME NEW k \in 1 .. K, P(k) PROVE P(k - 1)
    OBVIOUS
  <2>1. k \in 1 .. N /\ k \in 0 .. N /\ k - 1 \in 0 .. N /\ k - 1 + 1 = k /\ K \in k .. N
    BY <1>0
  <2>2. c[k - 1] \in Nat /\ c[k] \in Nat /\ c[K] \in Nat /\ c[k] <= Len(b)
    <3>1. c[k - 1] \in Nat /\ c[k] \in Nat /\ c[K] \in Nat
      BY <1>0, <2>1
    <3>2. c[k] <= c[K] /\ c[K] <= Len(b)
      BY <1>1, <1>4
    <3> QED BY <1>0, <3>1, <3>2
  <2>3. c[k - 1] \in 0 .. Len(b)
    <3>1. c[k - 1] <= c[k]
      <4>1. k - 1 \in 0 .. k
        BY <1>0
      <4> QED BY <2>1, <4>1, RulerUp
    <3> QED BY <1>0, <2>2, <3>1
  <2>4. found[c[k - 1]] = Turn(b, found, c[k - 1])
    BY <1>3, <2>3
  <2>5. c[k - 1] <= Len(b)
    BY <2>3
  <2>6. Turn(b, found, c[k - 1]) = FrameThen(fs[k], found[c[k]])
    <3>1. AtFrame(b, found, fs[k], StartOf(c, k), c[k])
      BY <2>1, NextTurn
    <3> QED BY <2>2, <2>5, <3>1 DEF AtFrame, StartOf
  <2>7. found[c[k]].frames = SubSeq(fs, k + 1, K) /\ found[c[k]].rest = rest
    <3>1. found[c[k]] = [frames |-> SubSeq(fs, k + 1, K), rest |-> rest]
      OBVIOUS
    <3> HIDE DEF rest, P
    <3> QED BY ONLY <3>1
  <2>8. SubSeq(fs, k, K) = <<fs[k]>> \o SubSeq(fs, k + 1, K)
    BY <2>1, SubSeqRecursiveFirst
  <2> HIDE DEF rest
  <2> QED BY <2>1, <2>4, <2>6, <2>7, <2>8 DEF FrameThen
<1> HIDE DEF P, rest
<1>7. T = {}
  <2> SUFFICES ASSUME T # {} PROVE FALSE
    OBVIOUS
  <2>1. T \in SUBSET Nat
    BY <1>0
  <2>2. \A j \in 0 .. K : j \in T <=> ~P(K - j)
    OBVIOUS
  <2>3. \A j \in T : j \in 0 .. K
    OBVIOUS
  <2> HIDE DEF T
  <2>4. PICK j \in T : \A y \in T : j <= y
    BY <2>1, LeastOf
  <2>5. j \in 0 .. K /\ ~P(K - j)
    BY <2>2, <2>3
  <2>6. j # 0
    <3> SUFFICES ASSUME j = 0 PROVE FALSE
      OBVIOUS
    <3>1. K - j = K
      BY <1>0
    <3> QED BY <1>5, <2>5, <3>1
  <2>7. j - 1 \in 0 .. K /\ j - 1 \notin T
    BY <1>0, <2>1, <2>4, <2>5, <2>6
  <2>8. P(K - (j - 1))
    BY <2>2, <2>7
  <2>9. K - (j - 1) \in 1 .. K /\ K - (j - 1) - 1 = K - j
    BY <1>0, <2>5, <2>6
  <2> QED BY <1>6, <2>5, <2>8, <2>9
<1>8. P(0)
  <2>1. K \in 0 .. K /\ K - K = 0
    BY <1>0
  <2> QED BY <1>7, <2>1
<1>9. Extract(b).frames = SubSeq(fs, 1, K) /\ Extract(b).rest = rest
  BY <1>0, <1>2, <1>8 DEF P
<1> QED BY <1>1, <1>9 DEF rest, Framed

(* What is left of a sound stream when its first frames are taken, and what it becomes  *)
(* when a frame is added.                                                           *)
LEMMA Shorter ==
    ASSUME NEW stream \in Seq(Nat), NEW fs \in Seq(Answers), NEW c, Ruled(stream, fs, c),
           NEW K \in 0 .. Len(fs)
    PROVE  Ruled(SubSeq(stream, c[K] + 1, Len(stream)), SubSeq(fs, K + 1, Len(fs)),
                 [i \in 0 .. Len(fs) - K |-> c[i + K] - c[K]])
<1> DEFINE N == Len(fs)
           left == SubSeq(stream, c[K] + 1, Len(stream))
           gs == SubSeq(fs, K + 1, Len(fs))
           d == [i \in 0 .. N - K |-> c[i + K] - c[K]]
<1>1. N \in Nat /\ Len(stream) \in Nat /\ c[N] = Len(stream)
  BY LenProperties DEF Ruled
<1>2. \A k \in 0 .. N : c[k] \in Nat /\ c[k] <= Len(stream)
  BY <1>1, RulerUp
<1>3. \A k \in K .. N : c[K] <= c[k]
  <2> SUFFICES ASSUME NEW k \in K .. N PROVE c[K] <= c[k]
    OBVIOUS
  <2>1. k \in 0 .. N /\ K \in 0 .. k
    BY <1>1
  <2> QED BY <2>1, RulerUp
<1>4. /\ Len(left) = Len(stream) - c[K]
      /\ \A i \in 1 .. Len(stream) - c[K] : left[i] = stream[c[K] + i]
  <2>1. c[K] + 1 \in Int /\ Len(stream) \in Int /\ c[K] \in Nat /\ c[K] <= Len(stream)
    BY <1>1, <1>2
  <2>2. \A i \in c[K] + 1 .. Len(stream) : stream[i] \in Nat
    <3> SUFFICES ASSUME NEW i \in c[K] + 1 .. Len(stream) PROVE stream[i] \in Nat
      OBVIOUS
    <3>1. i \in 1 .. Len(stream)
      BY <1>1, <2>1
    <3> QED BY <3>1, ElementOfSeq
  <2>3. /\ left \in Seq(Nat)
        /\ Len(left) = (IF c[K] + 1 <= Len(stream) THEN Len(stream) - (c[K] + 1) + 1 ELSE 0)
        /\ \A i \in 1 .. Len(stream) - (c[K] + 1) + 1 : left[i] = stream[c[K] + 1 + i - 1]
    <3> DEFINE m == c[K] + 1
               n == Len(stream)
    <3>1. m \in Int /\ n \in Int /\ \A i \in m .. n : stream[i] \in Nat
      BY <2>1, <2>2
    <3> HIDE DEF m, n
    <3>2. /\ SubSeq(stream, m, n) \in Seq(Nat)
          /\ Len(SubSeq(stream, m, n)) = IF m <= n THEN n - m + 1 ELSE 0
          /\ \A i \in 1 .. n - m + 1 : SubSeq(stream, m, n)[i] = stream[m + i - 1]
      BY <3>1, SubSeqProperties
    <3> QED BY <3>2 DEF m, n
  <2> HIDE DEF left
  <2>4. Len(stream) - (c[K] + 1) + 1 = Len(stream) - c[K]
    BY <2>1
  <2>5. Len(left) = Len(stream) - c[K]
    BY <2>1, <2>3
  <2>6. \A i \in 1 .. Len(stream) - c[K] : c[K] + 1 + i - 1 = c[K] + i
    BY <2>1
  <2> QED BY <2>3, <2>4, <2>5, <2>6
<1>5. /\ Len(gs) = N - K
      /\ \A i \in 1 .. N - K : gs[i] = fs[K + i]
  <2>1. \A i \in K + 1 .. N : fs[i] \in Answers
    <3> SUFFICES ASSUME NEW i \in K + 1 .. N PROVE fs[i] \in Answers
      OBVIOUS
    <3>1. i \in 1 .. N
      BY <1>1
    <3> QED BY <3>1, ElementOfSeq
  <2>2. K + 1 \in Int /\ N \in Int
    BY <1>1
  <2>3. /\ Len(gs) = (IF K + 1 <= N THEN N - (K + 1) + 1 ELSE 0)
        /\ \A i \in 1 .. N - (K + 1) + 1 : gs[i] = fs[K + 1 + i - 1]
    <3> HIDE DEF gs
    <3> QED BY <2>1, <2>2, SubSeqProperties DEF gs
  <2> HIDE DEF gs
  <2>4. N - (K + 1) + 1 = N - K /\ \A i \in 1 .. N - K : K + 1 + i - 1 = K + i
    BY <1>1
  <2>5. Len(gs) = N - K
    BY <1>1, <2>3
  <2> QED BY <2>3, <2>4, <2>5
<1> HIDE DEF left, gs
<1>6. \A i \in 0 .. N - K : i + K \in K .. N /\ i + K \in 0 .. N /\ d[i] = c[i + K] - c[K]
  BY <1>1
<1>7. d \in [0 .. Len(gs) -> Nat]
  <2>1. \A i \in 0 .. N - K : c[i + K] - c[K] \in Nat
    BY <1>1, <1>2, <1>3, <1>6
  <2> QED BY <1>5, <2>1
<1>8. d[0] = 0 /\ d[Len(gs)] = Len(left)
  <2>1. 0 \in 0 .. N - K /\ N - K \in 0 .. N - K /\ 0 + K = K /\ N - K + K = N /\ c[K] - c[K] = 0
    BY <1>1, <1>2
  <2> HIDE DEF d
  <2> QED BY <1>1, <1>4, <1>5, <1>6, <2>1
<1> HIDE DEF d
<1>9. ASSUME NEW i \in 1 .. Len(gs)
      PROVE  /\ d[i] = d[i - 1] + Len(gs[i]) /\ d[i] <= Len(left)
             /\ \A j \in 1 .. Len(gs[i]) : left[d[i - 1] + j] = gs[i][j]
  <2> DEFINE k == i + K
  <2>1. /\ k \in 1 .. N /\ k \in 0 .. N /\ k - 1 \in 0 .. N /\ k - 1 \in K .. N
        /\ i \in 0 .. N - K /\ i - 1 \in 0 .. N - K /\ i \in 1 .. N - K
        /\ i - 1 + K = k - 1 /\ K + i = k
    BY <1>1, <1>5
  <2>2. gs[i] = fs[k] /\ d[i] = c[k] - c[K] /\ d[i - 1] = c[k - 1] - c[K]
    BY <1>5, <1>6, <2>1
  <2> HIDE DEF k
  <2>3. /\ c[k] = c[k - 1] + Len(fs[k])
        /\ \A j \in 1 .. Len(fs[k]) : stream[c[k - 1] + j] = fs[k][j]
    BY <2>1 DEF Ruled
  <2>4. Len(fs[k]) \in Nat
    BY <2>1, ElementOfSeq, AnswerIs
  <2>5. c[k] \in Nat /\ c[k] <= Len(stream) /\ c[k - 1] \in Nat /\ c[K] \in Nat /\ c[K] <= c[k - 1]
    BY <1>2, <1>3, <2>1
  <2>6. d[i] = d[i - 1] + Len(gs[i]) /\ d[i] <= Len(left)
    <3> DEFINE o == c[K]
               p == c[k - 1]
               q == c[k]
               l == Len(fs[k])
               n == Len(stream)
    <3>1. /\ o \in Nat /\ p \in Nat /\ l \in Nat /\ n \in Nat
          /\ q = p + l /\ q <= n
      BY <1>1, <2>3, <2>4, <2>5
    <3>2. d[i] = q - o /\ d[i - 1] = p - o /\ Len(gs[i]) = l /\ Len(left) = n - o
      BY <1>4, <2>2
    <3> HIDE DEF o, p, q, l, n
    <3>3. q - o = p - o + l /\ q - o <= n - o
      BY ONLY <3>1
    <3> QED BY ONLY <3>2, <3>3
  <2>7. ASSUME NEW j \in 1 .. Len(fs[k]) PROVE left[d[i - 1] + j] = gs[i][j]
    <3>1. d[i - 1] + j \in 1 .. Len(stream) - c[K] /\ c[K] + (d[i - 1] + j) = c[k - 1] + j
      <4> DEFINE o == c[K]
                 p == c[k - 1]
                 q == c[k]
                 l == Len(fs[k])
                 n == Len(stream)
      <4>1. /\ o \in Nat /\ p \in Nat /\ l \in Nat /\ n \in Nat
            /\ q = p + l /\ q <= n /\ o <= p /\ j \in 1 .. l
        BY <1>1, <2>3, <2>4, <2>5
      <4>2. d[i - 1] = p - o
        BY <2>2
      <4> HIDE DEF o, p, q, l, n
      <4>3. p - o + j \in 1 .. n - o /\ o + (p - o + j) = p + j
        BY ONLY <4>1
      <4>4. d[i - 1] + j \in 1 .. n - o /\ o + (d[i - 1] + j) = p + j
        BY ONLY <4>2, <4>3
      <4> QED BY <4>4 DEF o, p, n
    <3> QED BY <1>4, <2>2, <2>3, <3>1
  <2> QED BY <2>2, <2>6, <2>7
<1>10. Ruled(left, gs, d)
  BY <1>7, <1>8, <1>9 DEF Ruled
<1> QED BY <1>10 DEF left, gs, d

LEMMA Longer ==
    ASSUME NEW stream \in Seq(Nat), NEW fs \in Seq(Answers), NEW c, Ruled(stream, fs, c),
           NEW f \in Answers
    PROVE  Ruled(stream \o f, Append(fs, f),
                 [i \in 0 .. Len(fs) + 1 |-> IF i = Len(fs) + 1 THEN Len(stream) + Len(f) ELSE c[i]])
<1> DEFINE N == Len(fs)
           longer == stream \o f
           gs == Append(fs, f)
           d == [i \in 0 .. N + 1 |-> IF i = N + 1 THEN Len(stream) + Len(f) ELSE c[i]]
<1>1. N \in Nat /\ Len(stream) \in Nat /\ c[N] = Len(stream) /\ c[0] = 0
  BY LenProperties DEF Ruled
<1>2. f \in Seq(Nat) /\ Len(f) \in Nat
  BY AnswerIs
<1>3. \A k \in 0 .. N : c[k] \in Nat /\ c[k] <= Len(stream)
  BY <1>1, RulerUp
<1>4. Len(gs) = N + 1 /\ gs[N + 1] = f /\ \A i \in 1 .. N : gs[i] = fs[i]
  BY AppendProperties
<1>5. /\ Len(longer) = Len(stream) + Len(f)
      /\ \A i \in 1 .. Len(stream) + Len(f) :
            longer[i] = IF i <= Len(stream) THEN stream[i] ELSE f[i - Len(stream)]
  BY <1>2, ConcatProperties
<1> HIDE DEF longer, gs
<1>6. /\ d \in [0 .. N + 1 -> Nat]
      /\ d[N + 1] = Len(stream) + Len(f)
      /\ \A i \in 0 .. N : d[i] = c[i]
  <2>1. N + 1 \in 0 .. N + 1 /\ \A i \in 0 .. N : i # N + 1 /\ i \in 0 .. N + 1
    BY <1>1
  <2>2. \A i \in 0 .. N + 1 : i # N + 1 => i \in 0 .. N
    BY <1>1
  <2>3. \A i \in 0 .. N + 1 : (IF i = N + 1 THEN Len(stream) + Len(f) ELSE c[i]) \in Nat
    BY <1>1, <1>2, <1>3, <2>2
  <2> QED BY <2>1, <2>3
<1> HIDE DEF d
<1>7. d[0] = 0 /\ d[Len(gs)] = Len(longer)
  BY <1>1, <1>4, <1>5, <1>6
<1>8. ASSUME NEW i \in 1 .. Len(gs)
      PROVE  /\ d[i] = d[i - 1] + Len(gs[i]) /\ d[i] <= Len(longer)
             /\ \A j \in 1 .. Len(gs[i]) : longer[d[i - 1] + j] = gs[i][j]
  <2>1. CASE i = N + 1
    <3>1. i - 1 = N /\ N \in 0 .. N
      BY <1>1, <2>1
    <3>2. d[i - 1] = Len(stream) /\ d[i] = Len(stream) + Len(f) /\ gs[i] = f
      BY <1>1, <1>4, <1>6, <2>1, <3>1
    <3>3. ASSUME NEW j \in 1 .. Len(f) PROVE longer[Len(stream) + j] = f[j]
      <4>0. \A n, l \in Nat : \A x \in 1 .. l :
                n + x \in 1 .. n + l /\ ~(n + x <= n) /\ n + x - n = x
        OBVIOUS
      <4>1. /\ Len(stream) + j \in 1 .. Len(stream) + Len(f)
            /\ ~(Len(stream) + j <= Len(stream)) /\ Len(stream) + j - Len(stream) = j
        BY <1>1, <1>2, <4>0
      <4> QED BY <1>5, <4>1
    <3>4. Len(longer) = Len(stream) + Len(f) /\ Len(stream) \in Nat
      BY <1>1, <1>5
    <3>5. \A j \in 1 .. Len(f) : longer[d[i - 1] + j] = f[j]
      BY <3>2, <3>3
    <3>6. d[i] <= Len(longer)
      BY <1>2, <3>2, <3>4
    <3>7. d[i] = d[i - 1] + Len(gs[i])
      BY <3>2
    <3> QED BY <3>2, <3>5, <3>6, <3>7
  <2>2. CASE i # N + 1
    <3>1. i \in 1 .. N /\ i \in 0 .. N /\ i - 1 \in 0 .. N
      BY <1>1, <1>4, <2>2
    <3>2. d[i] = c[i] /\ d[i - 1] = c[i - 1] /\ gs[i] = fs[i]
      BY <1>4, <1>6, <3>1
    <3>3. /\ c[i] = c[i - 1] + Len(fs[i])
          /\ \A j \in 1 .. Len(fs[i]) : stream[c[i - 1] + j] = fs[i][j]
      BY <3>1 DEF Ruled
    <3>4. Len(fs[i]) \in Nat /\ c[i - 1] \in Nat /\ c[i] \in Nat /\ c[i] <= Len(stream)
      BY <1>3, <3>1, ElementOfSeq, AnswerIs
    <3>5. ASSUME NEW j \in 1 .. Len(fs[i]) PROVE longer[c[i - 1] + j] = fs[i][j]
      <4>1. c[i - 1] + j \in 1 .. Len(stream) + Len(f) /\ c[i - 1] + j <= Len(stream)
        <5>0. \A p, l, n, m \in Nat : \A x \in 1 .. l :
                  p + l <= n => p + x \in 1 .. n + m /\ p + x <= n
          OBVIOUS
        <5> QED BY <1>1, <1>2, <3>3, <3>4, <5>0
      <4> QED BY <1>5, <3>3, <4>1
    <3> QED BY <1>1, <1>2, <1>5, <3>2, <3>3, <3>4, <3>5
  <2> QED BY <2>1, <2>2
<1>9. Ruled(longer, gs, d)
  BY <1>4, <1>6, <1>7, <1>8 DEF Ruled
<1> QED BY <1>9 DEF longer, gs, d

(* What a poll that reads a piece does to a line that is in step: b is what the framer  *)
(* has then, w what stays under way.                                                *)
LEMMA InStepShorter ==
    ASSUME NEW b \in Seq(Nat), NEW w \in Seq(Nat), NEW fs \in Seq(Answers), NEW c,
           Ruled(b \o w, fs, c)
    PROVE  LET fed == Extract(b)
               later == SubSeq(fs, Len(fed.frames) + 1, Len(fs))
           IN /\ fed.frames \in Seq(Answers) /\ fed.rest \in Seq(Nat)
              /\ fed.frames \o later = fs
              /\ later \in Seq(Answers)
              /\ \E d : Ruled(fed.rest \o w, later, d)
              /\ later = <<>> \/ Len(fed.rest) < Len(later[1])
<1> DEFINE stream == b \o w
           N == Len(fs)
<1>0. /\ stream \in Seq(Nat) /\ Begins(b, stream)
      /\ N \in Nat /\ Len(b) \in Nat /\ Len(w) \in Nat /\ Len(stream) = Len(b) + Len(w)
  <2>1. N \in Nat /\ Len(b) \in Nat /\ Len(w) \in Nat
    BY LenProperties
  <2>2. /\ stream \in Seq(Nat) /\ Len(stream) = Len(b) + Len(w)
        /\ \A i \in 1 .. Len(b) + Len(w) : stream[i] = IF i <= Len(b) THEN b[i] ELSE w[i - Len(b)]
    BY ConcatProperties
  <2> HIDE DEF stream
  <2>3. \A i \in 1 .. Len(b) : b[i] = stream[i]
    BY <2>1, <2>2
  <2> QED BY <2>1, <2>2, <2>3 DEF Begins
<1>r. Ruled(stream, fs, c)
  OBVIOUS
<1> HIDE DEF stream
<1>1. PICK K \in 0 .. N :
         /\ c[K] <= Len(b)
         /\ K < N => Len(b) < c[K + 1]
         /\ Extract(b).frames = SubSeq(fs, 1, K)
         /\ Extract(b).rest = SubSeq(b, c[K] + 1, Len(b))
  <2>1. Cut(stream, fs, c, b)
    BY <1>0, <1>r DEF Cut
  <2>2. Framed(fs, c, b)
    BY <2>1, Framing
  <2> QED BY <2>2 DEF Framed
<1> DEFINE frames == SubSeq(fs, 1, K)
           later == SubSeq(fs, K + 1, N)
           rest == SubSeq(b, c[K] + 1, Len(b))
           d == [i \in 0 .. N - K |-> c[i + K] - c[K]]
<1>2. c[K] \in Nat
  BY <1>r DEF Ruled
<1>3. /\ frames \in Seq(Answers) /\ Len(frames) = K
      /\ later \in Seq(Answers) /\ Len(later) = N - K
      /\ frames \o later = fs
      /\ K < N => later[1] = fs[K + 1]
  <2>1. \A i \in 1 .. N : fs[i] \in Answers
    BY ElementOfSeq
  <2>2. frames \in Seq(Answers) /\ Len(frames) = K
    <3>1. \A i \in 1 .. K : fs[i] \in Answers
      BY <1>0, <2>1
    <3>2. /\ frames \in Seq(Answers)
          /\ Len(frames) = IF 1 <= K THEN K - 1 + 1 ELSE 0
      <4> HIDE DEF frames
      <4> QED BY <3>1, SubSeqProperties DEF frames
    <3> HIDE DEF frames
    <3> QED BY <1>0, <3>2
  <2>3. /\ later \in Seq(Answers) /\ Len(later) = N - K
        /\ K < N => later[1] = fs[K + 1]
    <3> DEFINE m == K + 1
    <3>1. m \in Int /\ N \in Int /\ \A i \in m .. N : fs[i] \in Answers
      BY <1>0, <2>1
    <3> HIDE DEF m, N
    <3>2. /\ SubSeq(fs, m, N) \in Seq(Answers)
          /\ Len(SubSeq(fs, m, N)) = IF m <= N THEN N - m + 1 ELSE 0
          /\ \A i \in 1 .. N - m + 1 : SubSeq(fs, m, N)[i] = fs[m + i - 1]
      BY <3>1, SubSeqProperties
    <3>3. m = K + 1 /\ later = SubSeq(fs, m, N)
      BY DEF m
    <3> HIDE DEF later
    <3>4. Len(later) = N - K
      BY <1>0, <3>2, <3>3
    <3>5. ASSUME K < N PROVE later[1] = fs[K + 1]
      <4>1. 1 \in 1 .. N - m + 1 /\ m + 1 - 1 = K + 1
        BY <1>0, <3>3, <3>5
      <4> QED BY <3>2, <3>3, <4>1
    <3> QED BY <3>2, <3>3, <3>4, <3>5
  <2>4. frames \o later = fs
    <3>1. 1 \in 1 .. N + 1 /\ K \in 1 - 1 .. N /\ N \in K .. N
      BY <1>0
    <3>2. frames \o later = SubSeq(fs, 1, N)
      BY <3>1, ConcatAdjacentSubSeq
    <3> QED BY <3>2, SubSeqFull
  <2> QED BY <2>2, <2>3, <2>4
<1>4. /\ rest \in Seq(Nat) /\ Len(rest) = Len(b) - c[K]
      /\ rest \o w = SubSeq(stream, c[K] + 1, Len(stream))
  <2> DEFINE m == c[K] + 1
             n == Len(b)
             all == Len(stream)
  <2>1. m \in Int /\ n \in Int /\ all \in Int /\ m >= 1 /\ n <= all
    BY <1>0, <1>2
  <2>2. \A i \in m .. n : b[i] \in Nat
    <3>1. \A i \in m .. n : i \in 1 .. Len(b)
      BY <1>0, <1>2
    <3> QED BY <3>1, ElementOfSeq
  <2>3. \A i \in m .. all : stream[i] \in Nat
    <3>1. \A i \in m .. all : i \in 1 .. Len(stream)
      BY <1>0, <1>2
    <3> QED BY <1>0, <3>1, ElementOfSeq
  <2> DEFINE left == SubSeq(stream, m, all)
  <2>r. rest = SubSeq(b, m, n)
    OBVIOUS
  <2> HIDE DEF m, n, all, rest
  <2>4. /\ rest \in Seq(Nat)
        /\ Len(rest) = IF m <= n THEN n - m + 1 ELSE 0
        /\ \A i \in 1 .. n - m + 1 : rest[i] = b[m + i - 1]
    BY <2>1, <2>2, <2>r, SubSeqProperties
  <2>5. /\ left \in Seq(Nat)
        /\ Len(left) = IF m <= all THEN all - m + 1 ELSE 0
        /\ \A i \in 1 .. all - m + 1 : left[i] = stream[m + i - 1]
    <3> HIDE DEF left
    <3> QED BY <2>1, <2>3, SubSeqProperties DEF left
  <2> HIDE DEF left
  <2>6. /\ rest \o w \in Seq(Nat) /\ Len(rest \o w) = Len(rest) + Len(w)
        /\ \A i \in 1 .. Len(rest) + Len(w) :
              (rest \o w)[i] = IF i <= Len(rest) THEN rest[i] ELSE w[i - Len(rest)]
    BY <2>4, ConcatProperties
  <2>7. Len(rest) = n - m + 1 /\ n = Len(b) /\ all = Len(b) + Len(w) /\ m <= n + 1
    <3>1. n = Len(b) /\ all = Len(b) + Len(w) /\ m = c[K] + 1
      BY <1>0 DEF m, n, all
    <3>2. m <= n + 1
      BY <1>0, <1>1, <1>2, <3>1
    <3>3. Len(rest) = n - m + 1
      BY <2>1, <2>4, <3>2
    <3> QED BY <3>1, <3>2, <3>3
  <2>8. Len(rest \o w) = Len(left)
    BY <1>0, <2>1, <2>5, <2>6, <2>7
  <2>9. \A i \in 1 .. Len(b) + Len(w) : stream[i] = IF i <= Len(b) THEN b[i] ELSE w[i - Len(b)]
    BY ConcatProperties DEF stream
  <2>10. ASSUME NEW i \in 1 .. Len(rest \o w) PROVE (rest \o w)[i] = left[i]
    <3>0. i \in 1 .. Len(rest) + Len(w) /\ i \in 1 .. all - m + 1 /\ m + i - 1 \in 1 .. Len(b) + Len(w)
      BY <1>0, <2>1, <2>6, <2>7
    <3>1. left[i] = stream[m + i - 1]
      BY <2>5, <3>0
    <3>2. CASE i <= Len(rest)
      <4>1. i \in 1 .. n - m + 1 /\ m + i - 1 <= Len(b)
        BY <1>0, <2>1, <2>7, <3>0, <3>2
      <4>2. (rest \o w)[i] = b[m + i - 1]
        BY <2>4, <2>6, <3>0, <3>2, <4>1
      <4>3. stream[m + i - 1] = b[m + i - 1]
        BY <2>9, <3>0, <4>1
      <4> QED BY <3>1, <4>2, <4>3
    <3>3. CASE ~(i <= Len(rest))
      <4>1. PICK x \in Int : x = m + i - 1
        BY <2>1
      <4>2. x \in 1 .. Len(b) + Len(w) /\ ~(x <= Len(b)) /\ x - Len(b) = i - Len(rest)
        BY <1>0, <2>1, <2>7, <3>0, <3>3, <4>1
      <4>3. (rest \o w)[i] = w[i - Len(rest)]
        BY <2>6, <3>0, <3>3
      <4>4. left[i] = stream[x]
        BY <3>1, <4>1
      <4>5. stream[x] = w[x - Len(b)]
        BY <2>9, <4>2
      <4> QED BY <4>2, <4>3, <4>4, <4>5
    <3> QED BY <3>2, <3>3
  <2>11. rest \o w = left
    BY <2>5, <2>6, <2>8, <2>10, SeqEqual
  <2>12. Len(rest) = Len(b) - c[K]
    BY <1>0, <1>2, <2>7 DEF m
  <2> QED BY <2>4, <2>11, <2>12 DEF left, m, all
<1>5. Ruled(rest \o w, later, d)
  <2>1. Ruled(SubSeq(stream, c[K] + 1, Len(stream)), later, d)
    BY <1>0, <1>r, Shorter
  <2> HIDE DEF rest, later, d
  <2> QED BY <1>4, <2>1
<1>6. later = <<>> \/ Len(rest) < Len(later[1])
  <2>1. CASE K = N
    <3>1. Len(later) = 0
      BY <1>0, <1>3, <2>1
    <3> HIDE DEF later
    <3> QED BY <1>3, <3>1, EmptySeq
  <2>2. CASE K # N
    <3>1. K < N /\ K + 1 \in 1 .. N /\ K + 1 - 1 = K
      BY <1>0, <2>2
    <3>2. c[K + 1] = c[K] + Len(fs[K + 1])
      BY <1>r, <3>1 DEF Ruled
    <3>3. Len(b) < c[K + 1] /\ later[1] = fs[K + 1] /\ Len(rest) = Len(b) - c[K]
      BY <1>1, <1>3, <1>4, <3>1
    <3>4. Len(fs[K + 1]) \in Nat
      BY <3>1, ElementOfSeq, AnswerIs
    <3> HIDE DEF later, rest
    <3> QED BY <1>0, <1>2, <3>2, <3>3, <3>4
  <2> QED BY <2>1, <2>2
<1> HIDE DEF frames, rest, d
<1>7. Extract(b).frames = frames /\ Extract(b).rest = rest
  BY <1>1 DEF frames, rest
<1>8. SubSeq(fs, Len(Extract(b).frames) + 1, Len(fs)) = later
  BY <1>3, <1>7
<1> HIDE DEF later
<1> QED BY <1>3, <1>4, <1>5, <1>6, <1>7, <1>8

(* Whatever the bytes, what is found is sequences of bytes. *)
LEMMA ExtractTyped ==
    ASSUME NEW bytes \in Seq(Nat)
    PROVE  Extract(bytes).frames \in Seq(Seq(Nat)) /\ Extract(bytes).rest \in Seq(Nat)
<1> DEFINE N == Len(bytes)
<1>0. N \in Nat
  BY LenProperties
<1>1. PICK found : /\ Extract(bytes) = found[0]
                   /\ found = [n \in 0 .. Len(bytes) |-> Turn(bytes, found, n)]
  BY ExtractIs
<1> DEFINE P(n) == found[n].frames \in Seq(Seq(Nat)) /\ found[n].rest \in Seq(Nat)
           T == {j \in 0 .. N : ~P(N - j)}
<1>2. \A m, n \in Int : 1 <= m /\ n <= N => SubSeq(bytes, m, n) \in Seq(Nat)
  <2> SUFFICES ASSUME NEW m \in Int, NEW n \in Int, 1 <= m, n <= N
               PROVE  SubSeq(bytes, m, n) \in Seq(Nat)
    OBVIOUS
  <2>1. \A i \in m .. n : i \in 1 .. Len(bytes)
    BY <1>0
  <2>2. \A i \in m .. n : bytes[i] \in Nat
    BY <2>1, ElementOfSeq
  <2> QED BY <2>2, SubSeqProperties
<1>3. ASSUME NEW n \in 0 .. N, \A m \in n + 1 .. N : P(m) PROVE P(n)
  <2> DEFINE start == NextMarker(bytes, n)
             end == FrameEnd(bytes, start)
  <2>1. start \in n + 1 .. Len(bytes) + 1
    BY NextMarkerIs
  <2>2. found[n] = TurnAt(bytes, found, start)
    BY <1>1 DEF Turn
  <2> HIDE DEF start
  <2>3. CASE Incomplete(bytes, start)
    <3>1. found[n] = [frames |-> <<>>, rest |-> SubSeq(bytes, start, Len(bytes))]
      BY <2>2, <2>3 DEF TurnAt
    <3>2. SubSeq(bytes, start, Len(bytes)) \in Seq(Nat)
      BY <1>0, <1>2, <2>1
    <3>3. <<>> \in Seq(Seq(Nat))
      BY EmptySeq
    <3> QED BY <3>1, <3>2, <3>3
  <2>4. CASE ~Incomplete(bytes, start)
    <3>1. end \in n + 1 .. N
      <4>1. n \in Nat
        BY <1>0
      <4> QED BY <2>1, <2>4, <4>1, FrameEndAhead
    <3>2. found[n] = [frames |-> <<SubSeq(bytes, start, end)>> \o found[end].frames,
                      rest |-> found[end].rest]
      BY <2>2, <2>4 DEF TurnAt
    <3> HIDE DEF end
    <3>3. P(end)
      BY <1>3, <3>1
    <3>4. SubSeq(bytes, start, end) \in Seq(Nat)
      BY <1>0, <1>2, <2>1, <3>1
    <3> DEFINE one == <<SubSeq(bytes, start, end)>>
    <3>5. one \in Seq(Seq(Nat))
      BY <3>4
    <3> HIDE DEF one
    <3>6. one \o found[end].frames \in Seq(Seq(Nat))
      BY <3>3, <3>5, ConcatProperties
    <3>7. found[n].frames = one \o found[end].frames /\ found[n].rest = found[end].rest
      BY <3>2 DEF one
    <3> QED BY <3>3, <3>6, <3>7
  <2> QED BY <2>3, <2>4
<1> HIDE DEF P
<1>4. T = {}
  <2> SUFFICES ASSUME T # {} PROVE FALSE
    OBVIOUS
  <2>1. T \in SUBSET Nat
    BY <1>0
  <2>2. \A j \in 0 .. N : j \in T <=> ~P(N - j)
    OBVIOUS
  <2>3. \A j \in T : j \in 0 .. N
    OBVIOUS
  <2> HIDE DEF T
  <2>4. PICK j \in T : \A y \in T : j <= y
    BY <2>1, LeastOf
  <2>5. j \in 0 .. N /\ ~P(N - j) /\ N - j \in 0 .. N
    BY <1>0, <2>2, <2>3
  <2>6. ASSUME NEW m \in N - j + 1 .. N PROVE P(m)
    <3>1. N - m \in 0 .. N /\ ~(j <= N - m) /\ N - (N - m) = m
      BY <1>0, <2>5
    <3>2. N - m \notin T
      BY <2>4, <3>1
    <3> QED BY <2>2, <3>1, <3>2
  <2> QED BY <1>3, <2>5, <2>6
<1>5. P(0)
  <2>1. N \in 0 .. N /\ N - N = 0
    BY <1>0
  <2> QED BY <1>4, <2>1
<1> QED BY <1>1, <1>5 DEF P

-----------------------------------------------------------------------------
(* The line in step: what the framer has and what is under way are the frames owed, end *)
(* to end, and the framer has no whole one.                                         *)
InStep ==
    /\ \E c : Ruled(rx.buffer \o wire, owed, c)
    /\ owed = <<>> \/ Len(rx.buffer) < Len(owed[1])

LineInv ==
    /\ rx \in [buffer : Seq(Nat), age : 0 .. InterByteTimeout, empties : 0 .. MaxEmptyReads,
               faulted : BOOLEAN]
    /\ ~rx.faulted => rx.empties < MaxEmptyReads
    /\ LineTypeOK
    /\ insync => InStep

LEMMA NothingInStep ==
    /\ <<>> \in Seq(Nat) /\ <<>> \in Seq(Answers) /\ <<>> \in Seq(Seq(Nat))
    /\ Len(<<>>) = 0 /\ <<>> \o <<>> = <<>>
    /\ \E c : Ruled(<<>>, <<>>, c)
<1> DEFINE c == [i \in 0 .. 0 |-> 0]
<1>1. /\ <<>> \in Seq(Nat) /\ <<>> \in Seq(Answers) /\ <<>> \in Seq(Seq(Nat))
      /\ Len(<<>>) = 0
  BY EmptySeq
<1>2. <<>> \o <<>> = <<>>
  BY <1>1, ConcatEmptySeq
<1>3. c \in [0 .. 0 -> Nat] /\ c[0] = 0
  OBVIOUS
<1> HIDE DEF c
<1>4. Ruled(<<>>, <<>>, c)
  BY <1>1, <1>3 DEF Ruled
<1> QED BY <1>1, <1>2, <1>4

LEMMA LineInitInv == LineInit => LineInv
<1> SUFFICES ASSUME LineInit PROVE LineInv
  OBVIOUS
<1>1. /\ InterByteTimeout \in Nat \ {0} /\ MaxEmptyReads \in Nat \ {0}
      /\ MaxWire \in Nat /\ MaxLineFaults \in Nat
  BY LineAssumption
<1>2. /\ rx \in [buffer : Seq(Nat), age : 0 .. InterByteTimeout, empties : 0 .. MaxEmptyReads,
                 faulted : BOOLEAN]
      /\ ~rx.faulted => rx.empties < MaxEmptyReads
      /\ LineTypeOK
  BY <1>1, NothingInStep DEF LineInit, LineTypeOK
<1>3. InStep
  BY NothingInStep DEF LineInit, InStep
<1> QED BY <1>2, <1>3 DEF LineInv

(* A step that continues with the line as it was, or takes frames from its beginning,   *)
(* and one that derails it.                                                         *)
LEMMA SilenceInStep ==
    ASSUME rx'.buffer = <<>>, wire' = <<>>, owed' = <<>>
    PROVE  InStep'
BY NothingInStep DEF InStep

LEMMA DerailKeeps ==
    ASSUME LineInv, NEW frames \in Seq(Seq(Nat)), Derail(frames)
    PROVE  /\ heard' \in Seq(Seq(Nat)) /\ insync' = FALSE /\ owed' \in Seq(Answers)
           /\ lineFaults' \in 0 .. MaxLineFaults
<1>1. MaxLineFaults \in Nat
  BY LineAssumption
<1> QED BY <1>1, NothingInStep DEF LineInv, LineTypeOK, Derail, Fault

LEMMA ContinueKeeps ==
    ASSUME LineInv, NEW frames \in Seq(Seq(Nat)), Continue(frames),
           insync => SubSeq(owed, Len(frames) + 1, Len(owed)) \in Seq(Answers)
    PROVE  /\ heard' \in Seq(Seq(Nat)) /\ insync' \in BOOLEAN /\ owed' \in Seq(Answers)
           /\ lineFaults' \in 0 .. MaxLineFaults
           /\ ~insync /\ insync' => InStep'
<1>1. /\ heard' = frames /\ lineFaults' = lineFaults
      /\ insync' = (insync \/ Silent)
      /\ owed' = IF insync THEN SubSeq(owed, Len(frames) + 1, Len(owed)) ELSE <<>>
  BY DEF Continue
<1>2. owed' \in Seq(Answers)
  BY <1>1, NothingInStep
<1>3. insync' \in BOOLEAN
  BY <1>1 DEF LineInv, LineTypeOK, Silent
<1>4. ~insync /\ insync' => InStep'
  <2> SUFFICES ASSUME ~insync, insync' PROVE InStep'
    OBVIOUS
  <2>1. Silent /\ owed' = <<>>
    BY <1>1
  <2> QED BY <2>1, SilenceInStep DEF Silent
<1> QED BY <1>1, <1>2, <1>3, <1>4 DEF LineInv, LineTypeOK

LEMMA ContinueWithNothing ==
    ASSUME LineInv, Continue(<<>>), rx'.buffer = rx.buffer, wire' = wire
    PROVE  /\ heard' \in Seq(Seq(Nat)) /\ insync' \in BOOLEAN /\ owed' \in Seq(Answers)
           /\ lineFaults' \in 0 .. MaxLineFaults
           /\ insync' => InStep'
           /\ insync => heard' \o owed' = owed
<1>1. owed \in Seq(Answers) /\ insync \in BOOLEAN
  BY DEF LineInv, LineTypeOK
<1>2. SubSeq(owed, Len(<<>>) + 1, Len(owed)) = owed
  <2>1. Len(<<>>) + 1 = 1
    BY NothingInStep
  <2> QED BY <1>1, <2>1, SubSeqFull
<1>3. /\ heard' \in Seq(Seq(Nat)) /\ insync' \in BOOLEAN /\ owed' \in Seq(Answers)
      /\ lineFaults' \in 0 .. MaxLineFaults
      /\ ~insync /\ insync' => InStep'
  BY <1>1, <1>2, NothingInStep, ContinueKeeps
<1>4. ASSUME insync PROVE InStep' /\ heard' \o owed' = owed
  <2>1. owed' = owed /\ heard' = <<>>
    BY <1>2, <1>4 DEF Continue
  <2>2. InStep
    BY <1>4 DEF LineInv
  <2>3. InStep'
    BY <2>1, <2>2 DEF InStep
  <2> QED BY <1>1, <2>1, <2>3, ConcatEmptySeq
<1> QED BY <1>1, <1>3, <1>4


(* The receiver after a poll. *)
LEMMA ReceiverKeeps ==
    ASSUME LineInv, NEW buffer \in Seq(Nat), NEW age \in 0 .. InterByteTimeout,
           rx' = [rx EXCEPT !.buffer = buffer, !.age = age, !.empties = 0]
    PROVE  /\ rx' \in [buffer : Seq(Nat), age : 0 .. InterByteTimeout,
                       empties : 0 .. MaxEmptyReads, faulted : BOOLEAN]
           /\ rx'.buffer = buffer /\ rx'.empties < MaxEmptyReads
<1>1. MaxEmptyReads \in Nat \ {0}
  BY LineAssumption
<1>2. 0 \in 0 .. MaxEmptyReads /\ 0 < MaxEmptyReads
  BY <1>1
<1> QED BY <1>2 DEF LineInv

(* What is left under way. *)
LEMMA WireLeft ==
    ASSUME LineInv, NEW n \in 0 .. Len(wire)
    PROVE  /\ SubSeq(wire, 1, n) \in Seq(Nat) /\ SubSeq(wire, n + 1, Len(wire)) \in Seq(Nat)
           /\ Len(SubSeq(wire, n + 1, Len(wire))) <= MaxWire
           /\ SubSeq(wire, 1, n) \o SubSeq(wire, n + 1, Len(wire)) = wire
<1>1. wire \in Seq(Nat) /\ Len(wire) <= MaxWire /\ Len(wire) \in Nat /\ MaxWire \in Nat
  BY LenProperties, LineAssumption DEF LineInv, LineTypeOK
<1> DEFINE m == n + 1
           all == Len(wire)
<1>2. 1 \in Int /\ n \in Int /\ m \in Int /\ all \in Int /\ m >= 1
  BY <1>1
<1>3. (\A i \in 1 .. n : i \in 1 .. Len(wire)) /\ (\A i \in m .. all : i \in 1 .. Len(wire))
  BY <1>1
<1>4. (\A i \in 1 .. n : wire[i] \in Nat) /\ (\A i \in m .. all : wire[i] \in Nat)
  BY <1>1, <1>3, ElementOfSeq
<1>5. SubSeq(wire, 1, n) \in Seq(Nat)
  BY <1>2, <1>4, SubSeqProperties
<1>6. SubSeq(wire, 1, n) \o SubSeq(wire, n + 1, Len(wire)) = wire
  <2>1. 1 \in 1 .. Len(wire) + 1 /\ n \in 1 - 1 .. Len(wire) /\ Len(wire) \in n .. Len(wire)
    BY <1>1
  <2>2. SubSeq(wire, 1, n) \o SubSeq(wire, n + 1, Len(wire)) = SubSeq(wire, 1, Len(wire))
    BY <1>1, <2>1, ConcatAdjacentSubSeq
  <2> QED BY <1>1, <2>2, SubSeqFull
<1> HIDE DEF m, all
<1>7. /\ SubSeq(wire, m, all) \in Seq(Nat)
      /\ Len(SubSeq(wire, m, all)) = IF m <= all THEN all - m + 1 ELSE 0
  BY <1>2, <1>4, SubSeqProperties
<1>8. Len(SubSeq(wire, m, all)) <= MaxWire
  BY <1>1, <1>2, <1>7 DEF all
<1> QED BY <1>5, <1>6, <1>7, <1>8 DEF m, all

LEMMA ThreePieces ==
    ASSUME NEW x \in Seq(Nat), NEW y \in Seq(Nat), NEW z \in Seq(Nat)
    PROVE  x \o y \in Seq(Nat) /\ (x \o y) \o z = x \o (y \o z)
<1>1. x \o y \in Seq(Nat)
  BY ConcatProperties
<1>2. (x \o y) \o z = x \o (y \o z)
  BY ConcatAssociative, SMTT(30)
<1> QED BY <1>1, <1>2

(* A poll that reads a piece. *)
LEMMA ChunkKeeps ==
    ASSUME LineInv, PollChunk
    PROVE  LineInv' /\ (insync => heard' \o owed' = owed)
<1> DEFINE Piece(n) == rx.buffer \o SubSeq(wire, 1, n)
<1>1. PICK n \in 1 .. Len(wire) :
         /\ rx' = [rx EXCEPT !.buffer = Fed(Piece(n)).rest, !.age = 0, !.empties = 0]
         /\ wire' = SubSeq(wire, n + 1, Len(wire))
         /\ Continue(Fed(Piece(n)).frames)
  BY DEF PollChunk, Chunks
<1> DEFINE b == Piece(n)
           w == SubSeq(wire, n + 1, Len(wire))
           fed == Extract(b)
<1>2. /\ rx' = [rx EXCEPT !.buffer = fed.rest, !.age = 0, !.empties = 0]
      /\ wire' = w
      /\ Continue(fed.frames)
  BY <1>1 DEF Fed
<1>3. wire \in Seq(Nat) /\ Len(wire) \in Nat /\ rx.buffer \in Seq(Nat) /\ owed \in Seq(Answers)
  BY LenProperties DEF LineInv, LineTypeOK
<1>4. n \in 0 .. Len(wire)
  BY <1>3
<1>5. /\ b \in Seq(Nat) /\ w \in Seq(Nat) /\ Len(w) <= MaxWire
      /\ b \o w = rx.buffer \o wire
  <2> DEFINE v == SubSeq(wire, 1, n)
  <2>1. v \in Seq(Nat) /\ w \in Seq(Nat) /\ Len(w) <= MaxWire /\ v \o w = wire
    BY <1>4, WireLeft, Zenon
  <2> HIDE DEF v, w
  <2>2. rx.buffer \o v \in Seq(Nat) /\ (rx.buffer \o v) \o w = rx.buffer \o (v \o w)
    BY <1>3, <2>1, ThreePieces, Zenon
  <2> QED BY <2>1, <2>2 DEF v
<1> HIDE DEF b, w
<1>6. fed.frames \in Seq(Seq(Nat)) /\ fed.rest \in Seq(Nat)
  BY <1>5, ExtractTyped
<1> DEFINE later == SubSeq(owed, Len(fed.frames) + 1, Len(owed))
<1>7. ASSUME insync
      PROVE  /\ fed.frames \o later = owed /\ later \in Seq(Answers)
             /\ \E d : Ruled(fed.rest \o w, later, d)
             /\ later = <<>> \/ Len(fed.rest) < Len(later[1])
  <2>1. PICK c : Ruled(b \o w, owed, c)
    BY <1>5, <1>7 DEF LineInv, InStep
  <2> QED BY <1>3, <1>5, <2>1, InStepShorter
<1> HIDE DEF fed
<1>8. InterByteTimeout \in Nat /\ 0 \in 0 .. InterByteTimeout
  BY LineAssumption
<1>9. /\ rx' \in [buffer : Seq(Nat), age : 0 .. InterByteTimeout,
                  empties : 0 .. MaxEmptyReads, faulted : BOOLEAN]
      /\ rx'.buffer = fed.rest /\ rx'.empties < MaxEmptyReads
  BY <1>2, <1>6, <1>8, ReceiverKeeps
<1>10. /\ heard' \in Seq(Seq(Nat)) /\ insync' \in BOOLEAN /\ owed' \in Seq(Answers)
       /\ lineFaults' \in 0 .. MaxLineFaults
       /\ ~insync /\ insync' => InStep'
  BY <1>2, <1>6, <1>7, ContinueKeeps
<1>11. ASSUME insync PROVE InStep' /\ heard' \o owed' = owed
  <2>1. heard' = fed.frames /\ owed' = later
    BY <1>2, <1>11 DEF Continue
  <2> HIDE DEF later
  <2> QED BY <1>2, <1>7, <1>9, <1>11, <2>1 DEF InStep
<1> HIDE DEF later
<1>12. LineTypeOK'
  BY <1>2, <1>5, <1>9, <1>10 DEF LineTypeOK
<1>13. insync' => InStep'
  <2>1. insync \in BOOLEAN
    BY DEF LineInv, LineTypeOK
  <2> QED BY <1>10, <1>11, <2>1
<1> QED BY <1>9, <1>11, <1>12, <1>13 DEF LineInv

(* A poll that finds nothing, and may give up a candidate. *)
LEMMA SilenceKeeps ==
    ASSUME LineInv, PollSilence
    PROVE  LineInv' /\ (insync /\ insync' => heard' \o owed' = owed)
<1>0. /\ rx.buffer \in Seq(Nat) /\ owed \in Seq(Answers) /\ insync \in BOOLEAN
      /\ wire \in Seq(Nat) /\ Len(wire) <= MaxWire /\ rx.age \in 0 .. InterByteTimeout
      /\ InterByteTimeout \in Nat /\ 0 \in 0 .. InterByteTimeout
  BY LineAssumption DEF LineInv, LineTypeOK
<1>1. CASE ~CandidateExpired
  <2>1. /\ rx' = [rx EXCEPT !.buffer = rx.buffer, !.empties = 0, !.age = rx.age]
        /\ wire' = wire /\ Continue(<<>>)
    BY <1>1 DEF PollSilence
  <2>2. rx' = [rx EXCEPT !.buffer = rx.buffer, !.age = rx.age, !.empties = 0]
    BY <2>1 DEF LineInv
  <2>3. /\ rx' \in [buffer : Seq(Nat), age : 0 .. InterByteTimeout,
                    empties : 0 .. MaxEmptyReads, faulted : BOOLEAN]
        /\ rx'.buffer = rx.buffer /\ rx'.empties < MaxEmptyReads
    BY <1>0, <2>2, ReceiverKeeps
  <2>4. /\ heard' \in Seq(Seq(Nat)) /\ insync' \in BOOLEAN /\ owed' \in Seq(Answers)
        /\ lineFaults' \in 0 .. MaxLineFaults
        /\ insync' => InStep'
        /\ insync => heard' \o owed' = owed
    BY <2>1, <2>3, ContinueWithNothing
  <2>5. LineTypeOK'
    BY <1>0, <2>1, <2>3, <2>4 DEF LineTypeOK
  <2> QED BY <2>3, <2>4, <2>5 DEF LineInv
<1>2. CASE CandidateExpired
  <2> DEFINE found == Extract(Tail(rx.buffer))
  <2>1. /\ rx' = [rx EXCEPT !.buffer = found.rest, !.empties = 0, !.age = 0]
        /\ wire' = wire
        /\ IF wire # <<>> THEN Derail(found.frames) ELSE Continue(found.frames)
    BY <1>2 DEF PollSilence, Resynchronized
  <2>2. rx.buffer # <<>>
    BY <1>2 DEF CandidateExpired
  <2>3. Tail(rx.buffer) \in Seq(Nat)
    BY <1>0, <2>2, HeadTailProperties
  <2>4. found.frames \in Seq(Seq(Nat)) /\ found.rest \in Seq(Nat)
    BY <2>3, ExtractTyped
  <2> HIDE DEF found
  <2>5. rx' = [rx EXCEPT !.buffer = found.rest, !.age = 0, !.empties = 0]
    BY <2>1 DEF LineInv
  <2>6. /\ rx' \in [buffer : Seq(Nat), age : 0 .. InterByteTimeout,
                    empties : 0 .. MaxEmptyReads, faulted : BOOLEAN]
        /\ rx'.buffer = found.rest /\ rx'.empties < MaxEmptyReads
    BY <1>0, <2>4, <2>5, ReceiverKeeps
  <2>7. ASSUME insync, wire = <<>> PROVE FALSE
    <3>1. PICK c : Ruled(rx.buffer \o wire, owed, c)
      BY <2>7 DEF LineInv, InStep
    <3>2. rx.buffer \o wire = rx.buffer
      BY <1>0, <2>7, ConcatEmptySeq
    <3>3. Ruled(rx.buffer, owed, c)
      BY <3>1, <3>2
    <3>4. Len(rx.buffer) \in Nat /\ Len(rx.buffer) # 0 /\ Len(owed) \in Nat
      BY <1>0, <2>2, LenProperties, EmptySeq
    <3>5. owed # <<>> /\ Len(owed) # 0
      <4>1. Len(owed) # 0
        BY <3>3, <3>4 DEF Ruled
      <4> QED BY <4>1, NothingInStep
    <3>6. Len(rx.buffer) < Len(owed[1])
      BY <2>7, <3>5 DEF LineInv, InStep
    <3>7. 1 \in 1 .. Len(owed) /\ 1 - 1 = 0
      BY <3>4, <3>5
    <3>8. c[0] = 0 /\ c[1] = c[0] + Len(owed[1]) /\ c[1] <= Len(rx.buffer)
      BY <3>3, <3>7 DEF Ruled
    <3>9. Len(owed[1]) \in Nat
      BY <1>0, <3>7, ElementOfSeq, AnswerIs
    <3> QED BY <3>4, <3>6, <3>8, <3>9
  <2>8. CASE wire # <<>>
    <3>1. Derail(found.frames)
      BY <2>1, <2>8
    <3>2. /\ heard' \in Seq(Seq(Nat)) /\ insync' = FALSE /\ owed' \in Seq(Answers)
          /\ lineFaults' \in 0 .. MaxLineFaults
      BY <2>4, <3>1, DerailKeeps
    <3>3. LineTypeOK'
      BY <1>0, <2>1, <2>6, <3>2 DEF LineTypeOK
    <3> QED BY <2>6, <3>2, <3>3 DEF LineInv
  <2>9. CASE wire = <<>>
    <3>1. Continue(found.frames) /\ ~insync
      BY <2>1, <2>7, <2>9
    <3>2. /\ heard' \in Seq(Seq(Nat)) /\ insync' \in BOOLEAN /\ owed' \in Seq(Answers)
          /\ lineFaults' \in 0 .. MaxLineFaults
          /\ ~insync /\ insync' => InStep'
      BY <2>4, <3>1, ContinueKeeps
    <3>3. LineTypeOK'
      BY <1>0, <2>1, <2>6, <3>2 DEF LineTypeOK
    <3> QED BY <2>6, <3>1, <3>2, <3>3 DEF LineInv
  <2> QED BY <2>8, <2>9
<1> QED BY <1>1, <1>2

(* The driver or the framer raises, or the driver says what is not so. *)
LEMMA RaisesKeeps ==
    ASSUME LineInv, PollRaises
    PROVE  LineInv' /\ (insync /\ insync' => heard' \o owed' = owed)
<1>1. CASE UNCHANGED wire /\ Continue(<<>>)
  <2>1. rx' = rx /\ wire' = wire /\ Continue(<<>>)
    BY <1>1 DEF PollRaises
  <2>2. /\ heard' \in Seq(Seq(Nat)) /\ insync' \in BOOLEAN /\ owed' \in Seq(Answers)
        /\ lineFaults' \in 0 .. MaxLineFaults
        /\ insync' => InStep'
        /\ insync => heard' \o owed' = owed
    BY <2>1, ContinueWithNothing
  <2>3. LineTypeOK'
    BY <2>1, <2>2 DEF LineInv, LineTypeOK
  <2> QED BY <2>1, <2>2, <2>3 DEF LineInv
<1>2. CASE \E n \in Chunks : wire' = SubSeq(wire, n + 1, Len(wire)) /\ Derail(<<>>)
  <2>1. PICK n \in 1 .. Len(wire) : wire' = SubSeq(wire, n + 1, Len(wire)) /\ Derail(<<>>)
    BY <1>2 DEF Chunks
  <2>2. rx' = rx
    BY DEF PollRaises
  <2>3. n \in 0 .. Len(wire)
    OBVIOUS
  <2>4. wire' \in Seq(Nat) /\ Len(wire') <= MaxWire
    <3>1. /\ SubSeq(wire, n + 1, Len(wire)) \in Seq(Nat)
          /\ Len(SubSeq(wire, n + 1, Len(wire))) <= MaxWire
      BY <2>3, WireLeft, Zenon
    <3> QED BY <2>1, <3>1, Zenon
  <2>5. /\ heard' \in Seq(Seq(Nat)) /\ insync' = FALSE /\ owed' \in Seq(Answers)
        /\ lineFaults' \in 0 .. MaxLineFaults
    BY <2>1, NothingInStep, DerailKeeps
  <2>6. LineTypeOK'
    BY <2>2, <2>4, <2>5 DEF LineInv, LineTypeOK
  <2> QED BY <2>2, <2>5, <2>6 DEF LineInv
<1> QED BY <1>1, <1>2 DEF PollRaises

LEMMA EmptyKeeps ==
    ASSUME LineInv, Receiving, PollEmpty
    PROVE  LineInv' /\ (insync /\ insync' => heard' \o owed' = owed)
<1>0. MaxEmptyReads \in Nat /\ rx.empties \in 0 .. MaxEmptyReads /\ rx.empties < MaxEmptyReads
  BY LineAssumption DEF LineInv, Receiving
<1>1. /\ rx' = [rx EXCEPT !.empties = rx.empties + 1,
                          !.faulted = rx.empties + 1 >= MaxEmptyReads]
      /\ wire' = wire /\ Continue(<<>>)
  BY DEF PollEmpty, LineInv
<1>2. /\ rx' \in [buffer : Seq(Nat), age : 0 .. InterByteTimeout,
                  empties : 0 .. MaxEmptyReads, faulted : BOOLEAN]
      /\ rx'.buffer = rx.buffer
      /\ ~rx'.faulted => rx'.empties < MaxEmptyReads
  <2> DEFINE e == rx.empties + 1
             f == e >= MaxEmptyReads
  <2>1. e \in 0 .. MaxEmptyReads /\ f \in BOOLEAN /\ (~f => e < MaxEmptyReads)
    BY <1>0
  <2> HIDE DEF e, f
  <2>2. rx' = [rx EXCEPT !.empties = e, !.faulted = f]
    BY <1>1 DEF e, f
  <2>3. rx'.empties = e /\ rx'.faulted = f /\ rx'.buffer = rx.buffer
    BY <2>2 DEF LineInv
  <2>4. rx' \in [buffer : Seq(Nat), age : 0 .. InterByteTimeout,
                 empties : 0 .. MaxEmptyReads, faulted : BOOLEAN]
    BY <2>1, <2>2 DEF LineInv
  <2> QED BY <2>1, <2>3, <2>4
<1>3. /\ heard' \in Seq(Seq(Nat)) /\ insync' \in BOOLEAN /\ owed' \in Seq(Answers)
      /\ lineFaults' \in 0 .. MaxLineFaults
      /\ insync' => InStep'
      /\ insync => heard' \o owed' = owed
  BY <1>1, <1>2, ContinueWithNothing
<1>4. LineTypeOK'
  BY <1>1, <1>2, <1>3 DEF LineInv, LineTypeOK
<1> QED BY <1>2, <1>3, <1>4 DEF LineInv

LEMMA FramerKeeps ==
    ASSUME LineInv, FramerRaises
    PROVE  LineInv' /\ ~insync'
<1>1. PICK n \in Chunks \cup {0}, fails \in BOOLEAN :
         /\ rx' = [rx EXCEPT !.buffer = IF fails THEN rx.buffer ELSE <<>>, !.age = 0,
                             !.empties = 0, !.faulted = fails]
         /\ wire' = SubSeq(wire, n + 1, Len(wire))
         /\ Derail(<<>>)
  BY DEF FramerRaises
<1>2. /\ rx' \in [buffer : Seq(Nat), age : 0 .. InterByteTimeout,
                  empties : 0 .. MaxEmptyReads, faulted : BOOLEAN]
      /\ rx'.empties < MaxEmptyReads
  <2> DEFINE b == IF fails THEN rx.buffer ELSE <<>>
  <2>1. b \in Seq(Nat)
    BY NothingInStep DEF LineInv
  <2>2. 0 \in 0 .. InterByteTimeout /\ 0 \in 0 .. MaxEmptyReads /\ 0 < MaxEmptyReads
    BY LineAssumption
  <2>3. rx' = [rx EXCEPT !.buffer = b, !.age = 0, !.empties = 0, !.faulted = fails]
    BY <1>1
  <2> HIDE DEF b
  <2> QED BY <2>1, <2>2, <2>3 DEF LineInv
<1>3. wire' \in Seq(Nat) /\ Len(wire') <= MaxWire
  <2>1. n \in 0 .. Len(wire)
    <3>1. Len(wire) \in Nat
      BY LenProperties DEF LineInv, LineTypeOK
    <3> QED BY <3>1 DEF Chunks
  <2>2. /\ SubSeq(wire, n + 1, Len(wire)) \in Seq(Nat)
        /\ Len(SubSeq(wire, n + 1, Len(wire))) <= MaxWire
    BY <2>1, WireLeft, Zenon
  <2> QED BY <1>1, <2>2, Zenon
<1>4. /\ heard' \in Seq(Seq(Nat)) /\ insync' = FALSE /\ owed' \in Seq(Answers)
      /\ lineFaults' \in 0 .. MaxLineFaults
  BY <1>1, NothingInStep, DerailKeeps
<1>5. LineTypeOK'
  BY <1>2, <1>3, <1>4 DEF LineTypeOK
<1> QED BY <1>2, <1>4, <1>5 DEF LineInv

LEMMA LineResetKeeps ==
    ASSUME LineInv, ResetRx
    PROVE  LineInv' /\ ~insync'
<1>1. PICK fails \in BOOLEAN :
         rx' = [rx EXCEPT !.buffer = IF fails THEN rx.buffer ELSE <<>>,
                          !.empties = IF fails THEN rx.empties ELSE 0,
                          !.faulted = fails]
  BY DEF ResetRx
<1>2. wire' = wire /\ Derail(<<>>)
  BY DEF ResetRx
<1>3. /\ rx' \in [buffer : Seq(Nat), age : 0 .. InterByteTimeout,
                  empties : 0 .. MaxEmptyReads, faulted : BOOLEAN]
      /\ ~rx'.faulted => rx'.empties < MaxEmptyReads
  <2> DEFINE b == IF fails THEN rx.buffer ELSE <<>>
             e == IF fails THEN rx.empties ELSE 0
  <2>1. /\ b \in Seq(Nat) /\ e \in 0 .. MaxEmptyReads
        /\ ~fails => e < MaxEmptyReads
    BY LineAssumption, NothingInStep DEF LineInv
  <2>2. rx' = [rx EXCEPT !.buffer = b, !.empties = e, !.faulted = fails]
    BY <1>1
  <2> HIDE DEF b, e
  <2> QED BY <2>1, <2>2 DEF LineInv
<1>4. /\ heard' \in Seq(Seq(Nat)) /\ insync' = FALSE /\ owed' \in Seq(Answers)
      /\ lineFaults' \in 0 .. MaxLineFaults
  BY <1>2, NothingInStep, DerailKeeps
<1>5. LineTypeOK'
  BY <1>2, <1>3, <1>4 DEF LineInv, LineTypeOK
<1> QED BY <1>3, <1>4, <1>5 DEF LineInv

(* What happens on the wire. *)
LEMMA AnswerKeeps ==
    ASSUME LineInv, Answer
    PROVE  LineInv' /\ (insync => heard' = <<>> /\ IsPrefix(owed, owed'))
<1>1. PICK f \in Answers :
         /\ Len(wire) + Len(f) <= MaxWire
         /\ wire' = wire \o f
         /\ owed' = IF insync THEN Append(owed, f) ELSE <<>>
         /\ heard' = <<>> /\ rx' = rx /\ insync' = insync /\ lineFaults' = lineFaults
  BY DEF Answer
<1>2. /\ rx.buffer \in Seq(Nat) /\ wire \in Seq(Nat) /\ owed \in Seq(Answers)
      /\ f \in Seq(Nat) /\ insync \in BOOLEAN
  BY AnswerIs DEF LineInv, LineTypeOK
<1>3. wire' \in Seq(Nat) /\ Len(wire') <= MaxWire
  BY <1>1, <1>2, ConcatProperties
<1>4. owed' \in Seq(Answers)
  BY <1>1, <1>2, AppendProperties, NothingInStep
<1>5. ASSUME insync PROVE InStep'
  <2> DEFINE stream == rx.buffer \o wire
  <2>1. PICK c : Ruled(stream, owed, c)
    BY <1>5 DEF LineInv, InStep
  <2>2. stream \in Seq(Nat) /\ rx.buffer \o (wire \o f) = stream \o f
    BY <1>2, ThreePieces, Zenon
  <2>3. rx'.buffer \o wire' = stream \o f /\ owed' = Append(owed, f)
    BY <1>1, <1>5, <2>2
  <2> HIDE DEF stream
  <2>4. \E d : Ruled(stream \o f, Append(owed, f), d)
    BY <1>2, <2>1, <2>2, Longer
  <2>5. Len(rx.buffer) < Len(Append(owed, f)[1])
    <3>1. /\ Len(Append(owed, f)) = Len(owed) + 1 /\ Append(owed, f)[Len(owed) + 1] = f
          /\ \A i \in 1 .. Len(owed) : Append(owed, f)[i] = owed[i]
      BY <1>2, AppendProperties
    <3>2. CASE owed = <<>>
      <4>1. Len(owed) = 0
        BY <3>2, NothingInStep
      <4>2. Len(stream) = 0
        BY <2>1, <4>1 DEF Ruled
      <4>3. Len(stream) = Len(rx.buffer) + Len(wire)
        BY <1>2, ConcatProperties DEF stream
      <4>4. Len(rx.buffer) \in Nat /\ Len(wire) \in Nat
        BY <1>2, LenProperties
      <4>5. Len(rx.buffer) = 0
        <5>1. \A x, y \in Nat : x + y = 0 => x = 0
          OBVIOUS
        <5>2. Len(rx.buffer) + Len(wire) = 0
          BY <4>2, <4>3, Zenon
        <5> QED BY <4>4, <5>1, <5>2, Zenon
      <4>6. Append(owed, f)[1] = f
        BY <3>1, <4>1
      <4>7. Len(f) > 0
        BY AnswerIs
      <4> QED BY <4>5, <4>6, <4>7
    <3>3. CASE owed # <<>>
      <4>1. 1 \in 1 .. Len(owed)
        BY <1>2, <3>3, EmptySeq
      <4>2. Append(owed, f)[1] = owed[1]
        BY <3>1, <4>1
      <4> QED BY <1>5, <3>3, <4>2 DEF LineInv, InStep
    <3> QED BY <3>2, <3>3
  <2> QED BY <1>1, <2>3, <2>4, <2>5 DEF InStep
<1>6. ASSUME insync PROVE IsPrefix(owed, owed')
  <2>1. owed' = Append(owed, f)
    BY <1>1, <1>6
  <2>2. Len(owed) \in Nat /\ Len(Append(owed, f)) = Len(owed) + 1
    BY <1>2, AppendProperties, LenProperties
  <2>3. Append(owed, f) = owed \o <<f>>
    BY <1>2, AppendIsConcat
  <2>4. SubSeq(owed, 1, Len(owed)) = owed
    BY <1>2, SubSeqFull
  <2>5. SubSeq(Append(owed, f), 1, Len(owed)) = owed
    <3> DEFINE longer == Append(owed, f)
               n == Len(owed)
               part == SubSeq(longer, 1, n)
    <3>1. /\ longer \in Seq(Answers) /\ Len(longer) = n + 1
          /\ \A i \in 1 .. n : longer[i] = owed[i]
      BY <1>2, AppendProperties
    <3>2. n \in Nat
      BY <2>2
    <3> HIDE DEF longer
    <3>3. \A i \in 1 .. n : longer[i] \in Answers
      BY <1>2, <3>1, ElementOfSeq
    <3> HIDE DEF n, part
    <3>4. /\ part \in Seq(Answers)
          /\ Len(part) = IF 1 <= n THEN n - 1 + 1 ELSE 0
          /\ \A i \in 1 .. n - 1 + 1 : part[i] = longer[1 + i - 1]
      BY <3>2, <3>3, SubSeqProperties DEF part
    <3>5. Len(part) = n
      BY <3>2, <3>4
    <3>6. \A i \in 1 .. n : part[i] = owed[i]
      <4> SUFFICES ASSUME NEW i \in 1 .. n PROVE part[i] = owed[i]
        OBVIOUS
      <4>1. i \in 1 .. n - 1 + 1 /\ 1 + i - 1 = i
        BY <3>2
      <4> QED BY <3>1, <3>4, <4>1
    <3>7. part = owed
      BY <1>2, <3>4, <3>5, <3>6, SeqEqual DEF n
    <3> QED BY <3>7 DEF part, longer, n
  <2> QED BY <2>1, <2>2, <2>4, <2>5 DEF IsPrefix
<1>7. LineTypeOK'
  BY <1>1, <1>3, <1>4, NothingInStep DEF LineInv, LineTypeOK
<1> QED BY <1>1, <1>5, <1>6, <1>7 DEF LineInv

LEMMA DamageKeeps ==
    ASSUME LineInv, Damage
    PROVE  LineInv' /\ ~insync'
<1>1. PICK i \in 1 .. Len(wire) :
         /\ \/ wire' = RemoveAt(wire, i)
            \/ \E b \in Noise : wire' = [wire EXCEPT ![i] = b]
         /\ rx' = rx /\ Derail(<<>>)
  BY DEF Damage, Chunks
<1>2. wire \in Seq(Nat) /\ Len(wire) \in Nat /\ Len(wire) <= MaxWire /\ MaxWire \in Nat
  BY LenProperties, LineAssumption DEF LineInv, LineTypeOK
<1>3. wire' \in Seq(Nat) /\ Len(wire') <= MaxWire
  <2>1. CASE wire' = RemoveAt(wire, i)
    <3> DEFINE m == i - 1
               k == i + 1
               n == Len(wire)
               before == SubSeq(wire, 1, m)
               after == SubSeq(wire, k, n)
    <3>1. m \in Int /\ k \in Int /\ n \in Int /\ m >= 0 /\ m <= n /\ k = m + 2 /\ k <= n + 1
      BY <1>2
    <3>2. (\A j \in 1 .. m : wire[j] \in Nat) /\ (\A j \in k .. n : wire[j] \in Nat)
      <4>1. (\A j \in 1 .. m : j \in 1 .. n) /\ (\A j \in k .. n : j \in 1 .. n)
        BY <3>1
      <4> QED BY <1>2, <4>1, ElementOfSeq
    <3> HIDE DEF m, k, n, before, after
    <3>3. before \in Seq(Nat) /\ Len(before) = IF 1 <= m THEN m - 1 + 1 ELSE 0
      BY <3>1, <3>2, SubSeqProperties DEF before
    <3>4. after \in Seq(Nat) /\ Len(after) = IF k <= n THEN n - k + 1 ELSE 0
      BY <3>1, <3>2, SubSeqProperties DEF after
    <3>5. before \o after \in Seq(Nat) /\ Len(before \o after) = Len(before) + Len(after)
      BY <3>3, <3>4, ConcatProperties
    <3>6. wire' = before \o after
      BY <2>1 DEF RemoveAt, before, after, m, k, n
    <3>7. Len(before) = m /\ Len(after) = n - k + 1
      BY <3>1, <3>3, <3>4
    <3>8. Len(before \o after) <= MaxWire
      BY <1>2, <3>1, <3>5, <3>7 DEF n
    <3> QED BY <3>5, <3>6, <3>8
  <2>2. CASE \E b \in Noise : wire' = [wire EXCEPT ![i] = b]
    <3>1. PICK b \in Noise : wire' = [wire EXCEPT ![i] = b]
      BY <2>2
    <3>2. b \in Nat
      BY LineAssumption
    <3>3. [wire EXCEPT ![i] = b] \in Seq(Nat) /\ Len([wire EXCEPT ![i] = b]) = Len(wire)
      BY <1>2, <3>2, ExceptSeq
    <3> QED BY <1>2, <3>1, <3>3
  <2> QED BY <1>1, <2>1, <2>2
<1>4. /\ heard' \in Seq(Seq(Nat)) /\ insync' = FALSE /\ owed' \in Seq(Answers)
      /\ lineFaults' \in 0 .. MaxLineFaults
  BY <1>1, NothingInStep, DerailKeeps
<1>5. LineTypeOK'
  BY <1>1, <1>3, <1>4 DEF LineInv, LineTypeOK
<1> QED BY <1>1, <1>4, <1>5 DEF LineInv

LEMMA LineTickKeeps ==
    ASSUME LineInv, LineTick
    PROVE  LineInv' /\ heard' \o owed' = owed
<1>1. /\ rx.age \in 0 .. InterByteTimeout /\ InterByteTimeout \in Nat
      /\ rx.age < InterByteTimeout
  BY LineAssumption DEF LineInv, LineTick
<1>2. /\ rx' = [rx EXCEPT !.age = rx.age + 1]
      /\ heard' = <<>> /\ wire' = wire /\ insync' = insync /\ owed' = owed
      /\ lineFaults' = lineFaults
  BY DEF LineTick, LineInv
<1> DEFINE a == rx.age + 1
<1>3. a \in 0 .. InterByteTimeout
  BY <1>1
<1> HIDE DEF a
<1>4. rx' = [rx EXCEPT !.age = a]
  BY <1>2 DEF a
<1>5. /\ rx' \in [buffer : Seq(Nat), age : 0 .. InterByteTimeout,
                  empties : 0 .. MaxEmptyReads, faulted : BOOLEAN]
      /\ rx'.buffer = rx.buffer /\ rx'.empties = rx.empties /\ rx'.faulted = rx.faulted
  BY <1>3, <1>4 DEF LineInv
<1>6. LineTypeOK'
  BY <1>2, <1>5, NothingInStep DEF LineInv, LineTypeOK
<1>7. insync' => InStep'
  BY <1>2, <1>5 DEF LineInv, InStep
<1>8. heard' \o owed' = owed
  BY <1>2, ConcatEmptySeq DEF LineInv, LineTypeOK
<1> QED BY <1>5, <1>6, <1>7, <1>8 DEF LineInv

Arriving == insync /\ insync' => heard' \o owed' = owed \/ (heard' = <<>> /\ IsPrefix(owed, owed'))

LEMMA LineStep == LineInv /\ [LineNext]_lineVars => LineInv' /\ [Arriving]_lineVars
<1> SUFFICES ASSUME LineInv, [LineNext]_lineVars PROVE LineInv' /\ [Arriving]_lineVars
  OBVIOUS
<1>1. CASE PollLine
  <2>1. Receiving /\ (PollChunk \/ PollSilence \/ PollRaises \/ PollEmpty \/ FramerRaises)
    BY <1>1 DEF PollLine
  <2> QED BY <2>1, ChunkKeeps, SilenceKeeps, RaisesKeeps, EmptyKeeps, FramerKeeps DEF Arriving
<1>2. CASE ResetRx
  BY <1>2, LineResetKeeps DEF Arriving
<1>3. CASE Answer
  BY <1>3, AnswerKeeps DEF Arriving
<1>4. CASE Damage
  BY <1>4, DamageKeeps DEF Arriving
<1>5. CASE LineTick
  BY <1>5, LineTickKeeps DEF Arriving
<1>6. CASE UNCHANGED lineVars
  <2>1. LineInv'
    BY <1>6 DEF lineVars, LineInv, LineTypeOK, InStep
  <2> QED BY <1>6, <2>1
<1> QED BY <1>1, <1>2, <1>3, <1>4, <1>5, <1>6 DEF LineNext

(* Whatever the frames, their payloads, the pieces they are read in and the faults: once *)
(* in step, the line hands on what the heater sends, frame by frame, complete, in order  *)
(* and nothing else (_extract_frames(), feed(), recover_after_timeout(), poll()).       *)
THEOREM FramesAllArrive == LineSpec => FramesArrive
<1>1. LineInit => LineInv
  BY LineInitInv
<1>2. LineInv /\ [LineNext]_lineVars => LineInv' /\ [Arriving]_lineVars
  BY LineStep
<1>3. [][Arriving]_lineVars => FramesArrive
  BY PTL DEF FramesArrive, Arriving
<1> QED BY <1>1, <1>2, <1>3, PTL DEF LineSpec

-----------------------------------------------------------------------------
(* The parts taken together.  A step moves one of them and leaves the others as they     *)
(* are, so that each of them behaves as if it were alone.                               *)

PartsInv ==
    /\ SensorInv /\ SensorsInOrder
    /\ RtcInv /\ HttpInv /\ LimiterInv /\ ProductInv /\ NetInv
    /\ LineInv /\ GateInv
    /\ AirInv /\ FaultsCounted

LEMMA EachMovesByItself ==
    ASSUME [PartsNext]_allVars
    PROVE  /\ [SensorNext]_sensorVars
           /\ [RtcNext]_rtcVars
           /\ [HttpNext]_httpVars
           /\ [LimiterNext]_limiterVars
           /\ [ProductNext]_productVars
           /\ [NetNext]_netVars
           /\ [LineNext]_lineVars
           /\ [GateNext]_gateVars
           /\ [WiFiNext]_wifiVars
<1>1. CASE UNCHANGED allVars
  BY <1>1 DEF allVars
<1>2. CASE Only("sensors", SensorNext, notSensors)
  BY <1>2 DEF Only, notSensors
<1>3. CASE Only("clock", RtcNext, notClock)
  BY <1>3 DEF Only, notClock
<1>4. CASE Only("http", HttpNext, notHttp)
  BY <1>4 DEF Only, notHttp
<1>5. CASE Only("limiter", LimiterNext, notLimiter)
  BY <1>5 DEF Only, notLimiter
<1>6. CASE Only("product", ProductNext, notProduct)
  BY <1>6 DEF Only, notProduct
<1>7. CASE Only("network", NetNext, notNetwork)
  BY <1>7 DEF Only, notNetwork
<1>8. CASE Only("line", LineNext, notLine)
  BY <1>8 DEF Only, notLine
<1>9. CASE Only("gate", GateNext, notGate)
  BY <1>9 DEF Only, notGate
<1>10. CASE Only("radio", WiFiNext, notRadio)
  BY <1>10 DEF Only, notRadio
<1> QED
  BY <1>1, <1>2, <1>3, <1>4, <1>5, <1>6, <1>7, <1>8, <1>9, <1>10 DEF PartsNext

LEMMA PartsStart == PartsInit => PartsInv
<1> SUFFICES ASSUME PartsInit PROVE PartsInv
  OBVIOUS
<1>1. /\ SensorInit /\ RtcInit /\ HttpInit /\ LimiterInit /\ ProductInit
      /\ NetInit /\ LineInit /\ GateInit /\ WiFiInit
  BY DEF PartsInit
<1>2. SensorInv /\ SensorsInOrder
  BY <1>1, SensorsStart, SensorsStartInOrder
<1>3. RtcInv /\ HttpInv /\ LimiterInv
  BY <1>1, RtcInitSafe, HttpInitSafe, LimiterInitSafe
<1>4. ProductInv /\ NetInv
  BY <1>1, ProductInitSafe, NetInitSafe
<1>5. LineInv /\ GateInv /\ AirInv
  BY <1>1, LineInitInv, GateStarts, RadioStarts
<1>6. FaultsCounted
  BY <1>1, WiFiAssumption DEF WiFiInit, FaultsCounted
<1> QED BY <1>2, <1>3, <1>4, <1>5, <1>6 DEF PartsInv

LEMMA PartsSteps == PartsInv /\ [PartsNext]_allVars => PartsInv'
<1> SUFFICES ASSUME PartsInv, [PartsNext]_allVars PROVE PartsInv'
  OBVIOUS
<1>1. /\ [SensorNext]_sensorVars
      /\ [RtcNext]_rtcVars
      /\ [HttpNext]_httpVars
      /\ [LimiterNext]_limiterVars
      /\ [ProductNext]_productVars
      /\ [NetNext]_netVars
      /\ [LineNext]_lineVars
      /\ [GateNext]_gateVars
      /\ [WiFiNext]_wifiVars
  BY EachMovesByItself
<1>2. SensorInv' /\ SensorsInOrder'
  BY <1>1, SensorsStayInOrder DEF PartsInv
<1>3. RtcInv' /\ HttpInv'
  BY <1>1, RtcNextKeeps, HttpSteps DEF PartsInv
<1>4. LimiterInv'
  BY <1>1, LimiterSteps DEF PartsInv
<1>5. ProductInv' /\ NetInv'
  BY <1>1, ProductSteps, NetSteps DEF PartsInv
<1>6. LineInv' /\ GateInv'
  BY <1>1, LineStep, GateSteps DEF PartsInv
<1>7. AirInv' /\ FaultsCounted'
  BY <1>1, StepKeeps, RadioCosts DEF PartsInv
<1> QED BY <1>2, <1>3, <1>4, <1>5, <1>6, <1>7 DEF PartsInv

(* Every record of every part keeps the fields, the values and the bounds that its       *)
(* type gives it, whatever the others do: no reading older than it may be, no place of   *)
(* the server with a deadline past, no revision that was not counted, no call of a port  *)
(* that does not exist.                                                            *)
THEOREM PartsTyped == PartsSpec => []PartsTypeOK
<1>1. PartsInv => PartsTypeOK
  <2> SUFFICES ASSUME PartsInv PROVE PartsTypeOK
    OBVIOUS
  <2>1. SensorTypeOK /\ RtcTypeOK
    BY SensorsTyped DEF PartsInv, RtcInv
  <2>2. HttpTypeOK /\ LimiterTypeOK
    BY HttpIsTyped, LimiterIsTyped DEF PartsInv
  <2>3. ProductTypeOK /\ NetTypeOK
    BY ProductTyped, NetIsTyped DEF PartsInv
  <2>4. LineTypeOK /\ GateTypeOK /\ WiFiTypeOK
    BY GateTyped, RadioTyped DEF PartsInv, LineInv
  <2> QED BY <2>1, <2>2, <2>3, <2>4 DEF PartsTypeOK
<1> QED BY <1>1, PartsStart, PartsSteps, PTL DEF PartsSpec

===============================================================================
