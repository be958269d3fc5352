------------------------- MODULE ChunkFramingProofs -------------------------
(***************************************************************************)
(* Proofs about ChunkFraming, for files of every length and any number of  *)
(* damaged sub-messages.                                                   *)
(*                                                                         *)
(* The geometry comes first.  That the chunks cover the file and that the  *)
(* sub-messages cover a chunk are two uses of one lemma, Cut: of the k     *)
(* pieces that n bytes are cut into, all but the last are full and the     *)
(* last ends where the bytes do.  The invariant then says what the         *)
(* receiver has of the frame at hand, in those terms.                      *)
(***************************************************************************)
EXTENDS ChunkFraming, FiniteSetTheorems, TLAPS

-----------------------------------------------------------------------------
(* The invariants.                                                          *)

\* Sub-message i of chunk c, where the receiver ought to put it.
PieceOf(c, i) == [at |-> SubFrom(c, i), from |-> SubFrom(c, i), len |-> SubLen(c, i)]
Pieces(c) == {PieceOf(c, i) : i \in Subs(c)}

\* The bytes of the chunks in S, of which all but the last are full.
Last == chunk_count - 1
BytesOf(S) ==
    IF Last \in S THEN (Cardinality(S) - 1) * chunk_size + actual_chunk_size(Last)
                  ELSE Cardinality(S) * chunk_size

\* A chunk that is on the stream is neither accepted nor still to be sent.
FrameInv ==
    /\ toSend \subseteq Chunks /\ done \subseteq Chunks /\ toSend \cap done = {}
    /\ frame = {} \/ \E c \in Chunks \ (toSend \cup done) : frame = {encode_chunk_frame(c)}
    /\ ctrl["sender"] = 0 => ctrl["receiver"] = 0 /\ toSend = {}
    /\ ctrl["receiver"] = 0 => frame = {} /\ done = {}

\* What the receiver has of the frame it reads.
ReadInv ==
    /\ frame = {} => sub = None
    /\ sub = None => advanced = 0
    /\ \A f \in frame : sub # None =>
          /\ sub \in 0 .. f.count
          /\ failed => sub = f.count /\ advanced = 0 /\ damaged.here
          /\ ~failed =>
                /\ advanced = AtMost(sub * MaxPlain, actual_chunk_size(f.index))
                /\ plain = {PieceOf(f.index, i) : i \in 0 .. sub - 1}

\* What it has kept.
KeptInv ==
    /\ disk = UNION {Pieces(c) : c \in done}
    /\ confirmed = BytesOf(done) /\ bar = confirmed + advanced

\* Which nonces are used: the control messages in order, the sub-messages each
\* by its place in the file.
SealInv ==
    /\ \A a \in sealed :
          \/ a.kind # "bytes" /\ a.nonce < ctrl[a.side]
          \/ \E c \in Chunks : \E i \in Subs(c) : a = SealedSub(c, i)
    /\ \A a, b \in sealed :
          a.kind # "bytes" /\ b.kind # "bytes" /\ a.side = b.side /\ a.nonce = b.nonce => a = b

Inv == TypeOK /\ FrameInv /\ ReadInv /\ KeptInv /\ SealInv /\ ~refused
(* Geometry: what is cut into pieces of length b is covered by them.        *)

ChunkSizes == {524288, 8388608}

\* Rounding up.
LEMMA RoundUp ==
    \A n \in Nat, b \in ChunkSizes \cup {MaxPlain} :
        /\ CeilDiv(n, b) \in Nat /\ b \in Nat \ {0}
        /\ CeilDiv(n, b) * b < n + b /\ n <= CeilDiv(n, b) * b
BY SMT DEF CeilDiv, MaxPlain, ChunkSizes

\* The start of a piece is at least the end of every one before it.
LEMMA StartsInOrder ==
    ASSUME NEW b \in Nat, NEW i \in Nat, NEW j \in Nat, i < j
    PROVE  i * b \in Nat /\ i * b + b <= j * b
<1>1. i * b \in Nat
  BY SMT
<1>2. (j - i - 1) * b >= 0
  <2>1. j - i - 1 \in Nat
    BY SMT
  <2>2. QED
    BY SMT, <2>1
<1>3. j * b = i * b + b + (j - i - 1) * b
  BY SMT
<1> QED
  BY SMT, <1>1, <1>2, <1>3

\* Piece i of the k that n bytes are cut into: all but the last are full, and
\* the last one ends where the bytes do.
CutAt(n, b, k, i) ==
    /\ i * b \in Nat /\ i * b < n
    /\ AtMost(n - i * b, b) \in 1 .. b
    /\ i * b + AtMost(n - i * b, b) <= n
    /\ i # k - 1 => AtMost(n - i * b, b) = b
    /\ i = k - 1 => i * b + AtMost(n - i * b, b) = n
    /\ AtMost((i + 1) * b, n) = i * b + AtMost(n - i * b, b)

LEMMA Cut ==
    ASSUME NEW n \in Nat, NEW b \in Nat \ {0}, NEW k \in Nat,
           k * b < n + b, n <= k * b, NEW i \in 0 .. k - 1
    PROVE  CutAt(n, b, k, i)
<1>1. i \in Nat /\ i < k
  BY SMT
<1>2. i * b \in Nat /\ i * b + b <= k * b
  BY <1>1, StartsInOrder
<1>3. i # k - 1 => i * b + b + b <= k * b
  <2> SUFFICES ASSUME i # k - 1 PROVE i * b + b + b <= k * b
    OBVIOUS
  <2>1. i + 1 \in Nat /\ i + 1 < k
    BY SMT, <1>1
  <2>2. (i + 1) * b + b <= k * b
    BY <2>1, StartsInOrder
  <2>3. QED
    BY SMT, <1>1, <2>2
<1>4. (i + 1) * b = i * b + b
  BY SMT, <1>1
<1>5. i = k - 1 => i * b + b = k * b
  BY SMT, <1>4
<1> DEFINE o == i * b  e == k * b
<1>6. /\ o \in Nat /\ e \in Int /\ o + b <= e /\ e < n + b /\ n <= e
      /\ i # k - 1 => o + b + b <= e
      /\ i = k - 1 => o + b = e
      /\ (i + 1) * b = o + b
  BY <1>1, <1>2, <1>3, <1>4, <1>5, SMT
<1> HIDE DEF o, e
<1>7. o < n /\ AtMost(n - o, b) \in 1 .. b /\ o + AtMost(n - o, b) <= n
  BY SMT, <1>6 DEF AtMost
<1>8. i # k - 1 => AtMost(n - o, b) = b
  BY SMT, <1>6 DEF AtMost
<1>9. i = k - 1 => o + AtMost(n - o, b) = n
  BY SMT, <1>6 DEF AtMost
<1>10. AtMost((i + 1) * b, n) = o + AtMost(n - o, b)
  <2>1. AtMost(o + b, n) = o + AtMost(n - o, b)
    BY SMT, <1>6 DEF AtMost
  <2>2. QED
    BY <1>6, <2>1
<1> QED
  BY <1>6, <1>7, <1>8, <1>9, <1>10 DEF o, CutAt

\* The chunks cover the file, the last one as far as there is file.
LEMMA ChunkGeometry ==
    ASSUME size \in Nat
    PROVE  /\ chunk_size \in ChunkSizes /\ chunk_count \in Nat
           /\ size > 0 => Last \in Chunks
           /\ \A c \in Chunks :
                /\ c \in Nat /\ c <= Last /\ Last \in Chunks
                /\ Offset(c) \in Nat /\ actual_chunk_size(c) \in 1 .. chunk_size
                /\ Offset(c) + actual_chunk_size(c) <= size
                /\ c # Last => actual_chunk_size(c) = chunk_size
                /\ c = Last => Offset(c) + actual_chunk_size(c) = size
                /\ \A d \in Chunks : c < d => Offset(c) + chunk_size <= Offset(d)
                /\ c > 0 => c - 1 \in Chunks /\ Offset(c) = Offset(c - 1) + chunk_size
<1>1. chunk_size \in ChunkSizes
  BY SMT DEF chunk_size, chunk_size_for, ChunkSizes
<1>2. /\ chunk_count \in Nat
      /\ chunk_count * chunk_size < size + chunk_size /\ size <= chunk_count * chunk_size
  BY SMT, <1>1, RoundUp DEF chunk_count
<1> DEFINE b == chunk_size  k == chunk_count
<1>3. b \in Nat \ {0}
  BY SMT, <1>1 DEF ChunkSizes
<1> HIDE DEF b, k
<1>4. k \in Nat /\ k * b < size + b /\ size <= k * b
  BY <1>2 DEF b, k
<1>5. /\ Chunks = 0 .. k - 1 /\ Last = k - 1
      /\ \A c : Offset(c) = c * b /\ actual_chunk_size(c) = AtMost(size - c * b, b)
  BY DEF b, k, Chunks, Last, Offset, actual_chunk_size
<1>6. size > 0 => Last \in Chunks
  <2> SUFFICES ASSUME size > 0 PROVE Last \in Chunks
    OBVIOUS
  <2>1. k # 0
    BY SMT, <1>3, <1>4
  <2>2. QED
    BY SMT, <1>4, <1>5, <2>1
<1>7. ASSUME NEW c \in Chunks
      PROVE  /\ c \in Nat /\ c <= Last /\ Last \in Chunks
             /\ Offset(c) \in Nat /\ actual_chunk_size(c) \in 1 .. b
             /\ Offset(c) + actual_chunk_size(c) <= size
             /\ c # Last => actual_chunk_size(c) = b
             /\ c = Last => Offset(c) + actual_chunk_size(c) = size
             /\ \A d \in Chunks : c < d => Offset(c) + b <= Offset(d)
             /\ c > 0 => c - 1 \in Chunks /\ Offset(c) = Offset(c - 1) + b
  <2>1. c \in 0 .. k - 1
    BY <1>5
  <2>2. c \in Nat /\ c <= Last /\ Last \in Chunks
    BY SMT, <1>4, <1>5, <2>1
  <2>3. /\ Offset(c) \in Nat /\ actual_chunk_size(c) \in 1 .. b
        /\ Offset(c) + actual_chunk_size(c) <= size
        /\ c # Last => actual_chunk_size(c) = b
        /\ c = Last => Offset(c) + actual_chunk_size(c) = size
    <3>1. CutAt(size, b, k, c)
      BY <1>3, <1>4, <2>1, Cut
    <3>2. QED
      BY <1>5, <3>1 DEF CutAt
  <2>4. ASSUME NEW d \in Chunks, c < d
        PROVE  Offset(c) + b <= Offset(d)
    <3>1. d \in Nat
      BY SMT, <1>4, <1>5
    <3>2. QED
      BY <1>3, <1>5, <2>2, <2>4, <3>1, StartsInOrder
  <2>5. ASSUME c > 0
        PROVE  c - 1 \in Chunks /\ Offset(c) = Offset(c - 1) + b
    <3>1. c - 1 \in Chunks
      BY SMT, <1>4, <1>5, <2>1, <2>5
    <3>2. c * b = (c - 1) * b + b
      BY SMT, <1>3, <2>2
    <3>3. QED
      BY <1>5, <3>1, <3>2
  <2>6. QED
    BY <2>2, <2>3, <2>4, <2>5
<1>8. QED
  BY <1>1, <1>2, <1>6, <1>7, Zenon DEF b

\* The sub-messages cover the chunk, and there are few of them.
LEMMA SubGeometry ==
    ASSUME size \in Nat, NEW c \in Chunks
    PROVE  /\ SubCount(c) \in 1 .. 129 /\ SubCount(c) % SubSlots = SubCount(c)
           /\ SubCount(c) * 20 <= chunk_size \div 2048 + 4094
           /\ AtMost(SubCount(c) * MaxPlain, actual_chunk_size(c)) = actual_chunk_size(c)
           /\ \A i \in Subs(c) :
                /\ i \in Nat /\ SubFrom(c, i) \in Nat /\ SubLen(c, i) \in 1 .. MaxPlain
                /\ AtMost(i * MaxPlain, actual_chunk_size(c)) = i * MaxPlain
                /\ i * MaxPlain + SubLen(c, i) <= actual_chunk_size(c)
                /\ i + 1 # SubCount(c) => SubLen(c, i) = MaxPlain
                /\ i + 1 = SubCount(c) => i * MaxPlain + SubLen(c, i) = actual_chunk_size(c)
                /\ AtMost((i + 1) * MaxPlain, actual_chunk_size(c)) = i * MaxPlain + SubLen(c, i)
<1>1. chunk_size \in ChunkSizes /\ actual_chunk_size(c) \in 1 .. chunk_size
      /\ Offset(c) \in Nat
  BY ChunkGeometry
<1> DEFINE k == SubCount(c)  n == actual_chunk_size(c)  b == MaxPlain
<1>2. n \in Nat
  BY SMT, <1>1 DEF ChunkSizes
<1>3. b \in Nat \ {0}
  BY SMT DEF MaxPlain
<1>4. k \in Nat /\ k * b < n + b /\ n <= k * b
  <2>1. n \in Nat /\ k = CeilDiv(n, b) /\ b \in ChunkSizes \cup {MaxPlain}
    BY <1>2, Zenon DEF SubCount
  <2> HIDE DEF k, n, b
  <2>2. QED
    BY <2>1, RoundUp
<1> HIDE DEF k, n, b
<1>5. k \in 1 .. 129 /\ k % SubSlots = k
  BY SMT, <1>1, <1>4 DEF n, b, MaxPlain, SubSlots, ChunkSizes
<1>6. k * 20 <= chunk_size \div 2048 + 4094
  BY SMT, <1>1, <1>4 DEF n, b, MaxPlain, SubSlots, ChunkSizes
<1>7. AtMost(k * b, n) = n
  <2>1. k * b \in Int
    BY <1>3, <1>4, SMT
  <2>2. QED
    BY <1>2, <1>4, <2>1, SMT DEF AtMost
<1>8. ASSUME NEW i \in 0 .. k - 1
      PROVE  /\ i \in Nat /\ i * b \in Nat
             /\ AtMost(n - i * b, b) \in 1 .. b
             /\ AtMost(i * b, n) = i * b
             /\ i * b + AtMost(n - i * b, b) <= n
             /\ i + 1 # k => AtMost(n - i * b, b) = b
             /\ i + 1 = k => i * b + AtMost(n - i * b, b) = n
             /\ AtMost((i + 1) * b, n) = i * b + AtMost(n - i * b, b)
  <2>1. CutAt(n, b, k, i)
    BY <1>2, <1>3, <1>4, Cut
  <2>2. AtMost(i * b, n) = i * b
    BY <1>2, <2>1, SMT DEF AtMost, CutAt
  <2>3. i \in Nat /\ (i + 1 = k <=> i = k - 1)
    BY <1>4, SMT
  <2>4. QED
    BY <2>1, <2>2, <2>3 DEF CutAt
<1>9. ASSUME NEW i \in Subs(c)
      PROVE  /\ i \in 0 .. k - 1 /\ SubFrom(c, i) = Offset(c) + i * b
             /\ SubLen(c, i) = AtMost(n - i * b, b)
  BY Zenon DEF Subs, n, k, b, SubFrom, SubLen
<1>10. ASSUME NEW i \in Subs(c)
       PROVE  /\ i \in Nat /\ SubFrom(c, i) \in Nat /\ SubLen(c, i) \in 1 .. b
              /\ AtMost(i * b, n) = i * b
              /\ i * b + SubLen(c, i) <= n
              /\ i + 1 # k => SubLen(c, i) = b
              /\ i + 1 = k => i * b + SubLen(c, i) = n
              /\ AtMost((i + 1) * b, n) = i * b + SubLen(c, i)
  <2>1. SubFrom(c, i) \in Nat
    BY <1>1, <1>8, <1>9, SMT
  <2>2. QED
    BY <1>8, <1>9, <2>1, Zenon
<1>11. QED
  BY <1>5, <1>6, <1>7, <1>10, SMT DEF n, k, b

\* What is computed from the size stays while the size does.
LEMMA SizeIsFixed ==
    ASSUME size' = size
    PROVE  /\ chunk_size' = chunk_size /\ Chunks' = Chunks /\ Last' = Last
           /\ \A c : actual_chunk_size(c)' = actual_chunk_size(c)
           /\ \A c : Subs(c)' = Subs(c) /\ Pieces(c)' = Pieces(c)
           /\ \A c, i : SealedSub(c, i)' = SealedSub(c, i) /\ PieceOf(c, i)' = PieceOf(c, i)
           /\ \A c : encode_chunk_frame(c)' = encode_chunk_frame(c)
<1>1. chunk_size' = chunk_size
  BY DEF chunk_size
<1>2. chunk_count' = chunk_count
  BY <1>1 DEF chunk_count
<1>3. Chunks' = Chunks /\ Last' = Last
  BY <1>2 DEF Chunks, Last
<1>4. ASSUME NEW c
      PROVE  /\ Offset(c)' = Offset(c)
             /\ actual_chunk_size(c)' = actual_chunk_size(c)
  BY <1>1 DEF Offset, actual_chunk_size
<1>5. ASSUME NEW c
      PROVE  SubCount(c)' = SubCount(c) /\ Subs(c)' = Subs(c) /\ PayloadLen(c)' = PayloadLen(c)
  BY <1>4 DEF SubCount, Subs, PayloadLen
<1>6. ASSUME NEW c, NEW i
      PROVE  SealedSub(c, i)' = SealedSub(c, i) /\ PieceOf(c, i)' = PieceOf(c, i)
  BY <1>4 DEF SealedSub, PieceOf, SubFrom, SubLen
<1>7. ASSUME NEW c
      PROVE  Pieces(c)' = Pieces(c) /\ encode_chunk_frame(c)' = encode_chunk_frame(c)
  <2>1. Pieces(c)' = Pieces(c)
    BY <1>5, <1>6 DEF Pieces
  <2>2. encode_chunk_frame(c)' = encode_chunk_frame(c)
    BY <1>5, <1>6, SMT DEF encode_chunk_frame
  <2>3. QED
    BY <2>1, <2>2
<1>8. QED
  BY <1>1, <1>3, <1>4, <1>5, <1>6, <1>7

\* What the receiver finds in the frame of a chunk: no count is cut off by its
\* 16 bits, and no payload exceeds the limit.
LEMMA FrameIs ==
    ASSUME size \in Nat, NEW c \in Chunks, NEW f, f = encode_chunk_frame(c)
    PROVE  /\ f.index = c /\ f.count = SubCount(c) /\ f.count \in 1 .. 129
           /\ f.payload <= max_payload
           /\ \A i \in 0 .. f.count - 1 : i \in Subs(c) /\ f.subs[i] = SealedSub(c, i)
<1>1. /\ f.index = c /\ f.payload = PayloadLen(c) /\ f.count = SubCount(c) % SubSlots
      /\ f.subs = [i \in Subs(c) |-> SealedSub(c, i)]
  BY SMT DEF encode_chunk_frame, SubSlots
<1>2. f.count = SubCount(c) /\ f.count \in 1 .. 129
  BY <1>1, SubGeometry
<1>3. PayloadLen(c) <= max_payload
  <2>1. /\ SubCount(c) \in Nat /\ SubCount(c) * 20 <= chunk_size \div 2048 + 4094
        /\ actual_chunk_size(c) \in Nat /\ actual_chunk_size(c) <= chunk_size
    BY SMT, SubGeometry, ChunkGeometry DEF ChunkSizes
  <2>2. chunk_size \in ChunkSizes
    BY ChunkGeometry
  <2>3. QED
    BY SMT, <2>1, <2>2 DEF PayloadLen, max_payload, TagLen, ChunkSizes
<1>4. ASSUME NEW i \in 0 .. f.count - 1
      PROVE  i \in Subs(c) /\ f.subs[i] = SealedSub(c, i)
  BY <1>1, <1>2 DEF Subs
<1>5. QED
  BY <1>1, <1>2, <1>3, <1>4

\* The nonces of the chunks: above those of the control messages, and each for
\* one sub-message of one chunk.
LEMMA NonceOfSub ==
    ASSUME size \in Nat, NEW c \in Chunks, NEW i \in Subs(c)
    PROVE  /\ SealedSub(c, i) \in Sealed
           /\ SealedSub(c, i).side = "sender" /\ SealedSub(c, i).kind = "bytes"
           /\ SealedSub(c, i).nonce = chunk_nonce(c, i)
           /\ NonceBase <= chunk_nonce(c, i)
           /\ c \in Nat /\ i \in 0 .. 128
<1>1. c \in Nat
  BY ChunkGeometry
<1>2. i \in 0 .. 128
  BY SMT, SubGeometry DEF Subs
<1>3. chunk_nonce(c, i) \in Nat /\ NonceBase <= chunk_nonce(c, i)
  BY SMT, <1>1, <1>2, FramingAssumption DEF chunk_nonce, SubSlots
<1>4. SubFrom(c, i) \in Nat /\ SubLen(c, i) \in Nat
  <2>1. SubFrom(c, i) \in Nat /\ SubLen(c, i) \in 1 .. MaxPlain
    BY SubGeometry
  <2>2. MaxPlain \in Nat
    BY SMT DEF MaxPlain
  <2>3. QED
    BY <2>1, <2>2, SMT
<1>5. QED
  BY <1>1, <1>2, <1>3, <1>4, SMT DEF SealedSub, Sealed

LEMMA NoncesApart ==
    ASSUME size \in Nat, NEW c \in Chunks, NEW i \in Subs(c), NEW d \in Chunks, NEW j \in Subs(d),
           chunk_nonce(c, i) = chunk_nonce(d, j)
    PROVE  c = d /\ i = j
<1>1. c \in Nat /\ d \in Nat /\ i \in 0 .. 128 /\ j \in 0 .. 128
  BY NonceOfSub
<1>2. QED
  BY SMT, <1>1, FramingAssumption DEF chunk_nonce, SubSlots

\* The bytes of a set of chunks: accepting one adds its length, and there are
\* never more than the file has.
LEMMA BytesOfNone == BytesOf({}) = 0
<1>1. Cardinality({}) = 0
  BY FS_EmptySet
<1>2. 0 * chunk_size = 0
  BY ChunkGeometry, SMT DEF chunk_size, chunk_size_for
<1>3. QED
  BY <1>1, <1>2 DEF BytesOf

LEMMA BytesOfMore ==
    ASSUME size \in Nat, NEW S \in SUBSET Chunks, NEW c \in Chunks \ S
    PROVE  /\ BytesOf(S) \in Nat /\ BytesOf(S \cup {c}) = BytesOf(S) + actual_chunk_size(c)
<1> DEFINE b == chunk_size  m == Cardinality(S)  z == actual_chunk_size(Last)
<1>1. /\ b \in Nat /\ z \in Nat /\ actual_chunk_size(c) \in Nat
      /\ c # Last => actual_chunk_size(c) = b
  <2>1. /\ chunk_size \in ChunkSizes /\ Last \in Chunks
        /\ actual_chunk_size(c) \in 1 .. chunk_size
        /\ c # Last => actual_chunk_size(c) = chunk_size
    BY ChunkGeometry
  <2>2. actual_chunk_size(Last) \in 1 .. chunk_size
    BY <2>1, ChunkGeometry
  <2>3. QED
    BY SMT, <2>1, <2>2 DEF ChunkSizes
<1>2. /\ IsFiniteSet(S) /\ m \in Nat /\ Cardinality(S \cup {c}) = m + 1
      /\ Last \in S => m >= 1
  <2>1. IsFiniteSet(Chunks)
    BY FS_Interval, ChunkGeometry, SMT DEF Chunks
  <2>2. IsFiniteSet(S)
    BY <2>1, FS_Subset
  <2>3. m \in Nat
    BY <2>2, FS_CardinalityType
  <2>4. Cardinality(S \cup {c}) = m + 1
    BY <2>2, FS_AddElement
  <2>5. ASSUME Last \in S PROVE m >= 1
    <3>1. m # 0
      BY <2>2, <2>5, FS_EmptySet
    <3>2. QED
      BY <2>3, <3>1, SMT
  <2>6. QED
    BY <2>2, <2>3, <2>4, <2>5
<1>3. BytesOf(S) = IF Last \in S THEN (m - 1) * b + z ELSE m * b
  BY DEF BytesOf
<1>4. BytesOf(S \cup {c}) = IF Last \in S \cup {c} THEN (m + 1 - 1) * b + z ELSE (m + 1) * b
  BY <1>2 DEF BytesOf
<1> HIDE DEF b, m, z
<1>5. BytesOf(S) \in Nat
  <2>1. m * b \in Nat
    BY <1>1, <1>2, SMT
  <2>2. CASE Last \in S
    <3>1. m - 1 \in Nat
      BY <1>2, <2>2, SMT
    <3>2. (m - 1) * b \in Nat
      BY <1>1, <3>1, SMT
    <3>3. QED
      BY <1>1, <1>3, <2>2, <3>2, SMT
  <2>3. CASE Last \notin S
    BY <1>3, <2>1, <2>3
  <2>4. QED
    BY <2>2, <2>3
<1>6. m * b = (m - 1) * b + b /\ (m + 1) * b = m * b + b /\ (m + 1 - 1) * b = m * b
  BY <1>1, <1>2, SMT
<1>7. m * b \in Int /\ (m - 1) * b \in Int
  BY <1>1, <1>2, SMT
<1>8. CASE c = Last
  <2>1. BytesOf(S) = m * b /\ BytesOf(S \cup {c}) = m * b + z
    BY <1>3, <1>4, <1>6, <1>8
  <2>2. z = actual_chunk_size(c)
    BY <1>8 DEF z
  <2>3. QED
    BY <1>5, <2>1, <2>2
<1>9. CASE c # Last /\ Last \in S
  <2>1. BytesOf(S) = (m - 1) * b + z /\ BytesOf(S \cup {c}) = m * b + z
    BY <1>3, <1>4, <1>6, <1>9
  <2>2. QED
    BY <1>1, <1>5, <1>6, <1>7, <1>9, <2>1, SMT
<1>10. CASE c # Last /\ Last \notin S
  <2>1. BytesOf(S) = m * b /\ BytesOf(S \cup {c}) = (m + 1) * b
    BY <1>3, <1>4, <1>10
  <2>2. QED
    BY <1>1, <1>5, <1>6, <1>10, <2>1
<1>11. QED
  BY <1>8, <1>9, <1>10

LEMMA BytesFitFile ==
    ASSUME size \in Nat, NEW S \in SUBSET Chunks
    PROVE  BytesOf(S) \in Nat /\ BytesOf(S) <= size
<1> DEFINE b == chunk_size  m == Cardinality(S)  k == chunk_count
<1>1. b \in Nat \ {0} /\ k \in Nat
  BY SMT, ChunkGeometry DEF ChunkSizes
<1>2. IsFiniteSet(Chunks) /\ Cardinality(Chunks) = k
  <2>1. 0 \in Int /\ k - 1 \in Int
    BY <1>1, SMT
  <2>2. IsFiniteSet(Chunks) /\ Cardinality(Chunks) = (IF 0 > k - 1 THEN 0 ELSE k - 1 - 0 + 1)
    BY <2>1, FS_Interval DEF Chunks
  <2>3. QED
    BY <1>1, <2>2, SMT
<1>3. IsFiniteSet(S) /\ m \in Nat /\ m <= k
  BY <1>2, FS_Subset, FS_CardinalityType
<1>4. CASE S = {}
  BY <1>4, BytesOfNone, SMT
<1>5. CASE S # {} /\ Last \in S
  <2>1. Last \in Chunks /\ Offset(Last) + actual_chunk_size(Last) = size
        /\ actual_chunk_size(Last) \in Nat
    <3>1. Last \in Chunks
      BY <1>5
    <3>2. /\ actual_chunk_size(Last) \in 1 .. chunk_size
          /\ Offset(Last) + actual_chunk_size(Last) = size
      BY <3>1, ChunkGeometry
    <3>3. QED
      BY SMT, <3>1, <3>2
  <2>2. m - 1 \in Nat
    <3>1. m # 0
      BY <1>3, <1>5, FS_EmptySet
    <3>2. QED
      BY <1>3, <3>1, SMT
  <2>3. Offset(Last) = (k - 1) * b /\ BytesOf(S) = (m - 1) * b + actual_chunk_size(Last)
    BY <1>5 DEF Offset, Last, BytesOf
  <2>4. (m - 1) * b \in Nat /\ (m - 1) * b <= (k - 1) * b
    <3>1. CASE m = k
      <4>1. (m - 1) * b \in Nat
        BY <1>1, <2>2, SMT
      <4>2. QED
        BY <3>1, <4>1, SMT
    <3>2. CASE m # k
      <4>1. k - 1 \in Nat /\ m - 1 < k - 1
        BY <1>1, <1>3, <2>2, <3>2, SMT
      <4>2. (m - 1) * b \in Nat /\ (m - 1) * b + b <= (k - 1) * b
        BY <1>1, <2>2, <4>1, StartsInOrder
      <4>3. (k - 1) * b \in Int
        BY <1>1, <4>1, SMT
      <4>4. QED
        BY <1>1, <4>2, <4>3, SMT
    <3>3. QED
      BY <3>1, <3>2
  <2>5. (k - 1) * b \in Int
    BY <1>1, SMT
  <2>6. QED
    BY <2>1, <2>3, <2>4, <2>5, SMT
<1>6. CASE S # {} /\ Last \notin S
  <2>1. PICK c \in S : c # Last
    BY <1>6
  <2>2. Last \in Chunks
    BY <2>1, ChunkGeometry
  <2>3. m < k /\ k - 1 \in Nat
    <3>1. m # k
      <4>1. SUFFICES ASSUME m = k PROVE FALSE
        OBVIOUS
      <4>2. S = Chunks
        BY <1>2, <4>1, FS_Subset
      <4>3. QED
        BY <1>6, <2>2, <4>2
    <3>2. QED
      BY <1>1, <1>3, <3>1, SMT
  <2>4. (k - 1) * b <= size /\ (k - 1) * b \in Nat
    <3>1. Offset(Last) \in Nat /\ Offset(Last) + actual_chunk_size(Last) = size
          /\ actual_chunk_size(Last) \in 1 .. chunk_size
      BY <2>2, ChunkGeometry
    <3>2. Offset(Last) = (k - 1) * b
      BY DEF Offset, Last
    <3>3. QED
      BY SMT, <3>1, <3>2
  <2>5. m * b \in Nat /\ m * b <= (k - 1) * b
    <3>1. CASE m = k - 1
      BY <2>4, <3>1, SMT
    <3>2. CASE m # k - 1
      <4>1. m < k - 1
        BY <1>1, <1>3, <2>3, <3>2, SMT
      <4>2. m * b \in Nat /\ m * b + b <= (k - 1) * b
        BY <1>1, <1>3, <2>3, <4>1, StartsInOrder
      <4>3. QED
        BY <1>1, <2>4, <4>2, SMT
    <3>3. QED
      BY <3>1, <3>2
  <2>6. BytesOf(S) = m * b
    BY <1>6 DEF BytesOf
  <2>7. QED
    BY <2>4, <2>5, <2>6, SMT
<1>7. QED
  BY <1>4, <1>5, <1>6

\* The pieces of all chunks together are the file.
LEMMA PieceIs ==
    ASSUME size \in Nat, NEW c \in Chunks, NEW i \in Subs(c), NEW p, p = PieceOf(c, i)
    PROVE  /\ p \in Piece /\ p.at = p.from /\ p.at = Offset(c) + i * MaxPlain
           /\ p.len = SubLen(c, i) /\ p.at \in Nat /\ p.len \in Nat /\ p.len > 0
           /\ i \in Nat /\ i * MaxPlain \in Nat
           /\ i * MaxPlain + p.len <= actual_chunk_size(c)
           /\ p.at + p.len <= Offset(c) + actual_chunk_size(c)
           /\ p.at + p.len <= size
<1>1. /\ i \in Nat /\ SubFrom(c, i) \in Nat /\ SubLen(c, i) \in 1 .. MaxPlain
      /\ i * MaxPlain + SubLen(c, i) <= actual_chunk_size(c)
  BY SubGeometry
<1>2. /\ Offset(c) \in Nat /\ actual_chunk_size(c) \in 1 .. chunk_size
      /\ Offset(c) + actual_chunk_size(c) <= size
  BY ChunkGeometry
<1>3. MaxPlain \in Nat
  BY SMT DEF MaxPlain
<1>4. i * MaxPlain \in Nat
  BY <1>1, <1>3, SMT
<1>5. SubFrom(c, i) = Offset(c) + i * MaxPlain
  BY DEF SubFrom
<1>6. p = [at |-> SubFrom(c, i), from |-> SubFrom(c, i), len |-> SubLen(c, i)]
  BY DEF PieceOf
<1>7. p.at = SubFrom(c, i) /\ p.from = SubFrom(c, i) /\ p.len = SubLen(c, i)
  BY <1>6
<1>8. SubLen(c, i) \in Nat /\ SubLen(c, i) > 0
  BY <1>1, <1>3, SMT
<1>9. p \in Piece
  BY <1>1, <1>6, <1>8 DEF Piece
<1>10. actual_chunk_size(c) \in Int
  BY <1>2, SMT
<1>11. QED
  BY <1>1, <1>2, <1>4, <1>5, <1>7, <1>8, <1>9, <1>10, SMT

LEMMA PiecesApart ==
    ASSUME size \in Nat,
           NEW c \in Chunks, NEW i \in Subs(c), NEW p, p = PieceOf(c, i),
           NEW d \in Chunks, NEW j \in Subs(d), NEW q, q = PieceOf(d, j),
           c < d \/ (c = d /\ i < j)
    PROVE  p.at + p.len <= q.at
<1>1. /\ p.at \in Nat /\ p.len \in Nat /\ p.at = Offset(c) + i * MaxPlain
      /\ p.len = SubLen(c, i) /\ i \in Nat /\ i * MaxPlain \in Nat
      /\ p.at + p.len <= Offset(c) + actual_chunk_size(c)
  BY PieceIs
<1>2. /\ q.at \in Nat /\ q.at = Offset(d) + j * MaxPlain /\ j \in Nat /\ j * MaxPlain \in Nat
  BY PieceIs
<1>3. Offset(c) \in Nat /\ actual_chunk_size(c) \in 1 .. chunk_size
      /\ (c < d => Offset(c) + chunk_size <= Offset(d)) /\ Offset(d) \in Nat
  BY ChunkGeometry
<1>4. CASE c < d
  <2>1. chunk_size \in Int
    BY SMT, ChunkGeometry DEF ChunkSizes
  <2>2. QED
    BY <1>1, <1>2, <1>3, <1>4, <2>1, SMT
<1>5. CASE c = d /\ i < j
  <2>1. MaxPlain \in Nat
    BY SMT DEF MaxPlain
  <2>2. i * MaxPlain + MaxPlain <= j * MaxPlain
    BY <1>1, <1>2, <1>5, <2>1, StartsInOrder
  <2>3. SubLen(c, i) \in 1 .. MaxPlain
    BY SubGeometry
  <2>4. QED
    BY <1>1, <1>2, <1>3, <1>5, <2>1, <2>2, <2>3, SMT
<1>6. QED
  BY <1>4, <1>5

LEMMA LastPiece ==
    ASSUME size \in Nat, NEW c \in Chunks
    PROVE  \E q \in Pieces(c) : q.at + q.len = Offset(c) + actual_chunk_size(c)
<1> DEFINE j == SubCount(c) - 1
<1>1. SubCount(c) \in Nat /\ j \in Subs(c) /\ j + 1 = SubCount(c)
  BY SMT, SubGeometry DEF Subs
<1> HIDE DEF j
<1>2. j * MaxPlain + SubLen(c, j) = actual_chunk_size(c) /\ Offset(c) \in Nat
  BY <1>1, SubGeometry, ChunkGeometry
<1> DEFINE q == PieceOf(c, j)
<1>3. q \in Pieces(c)
  BY <1>1 DEF Pieces
<1> HIDE DEF q
<1>4. q = PieceOf(c, j)
  BY DEF q
<1>5. /\ q.at = Offset(c) + j * MaxPlain /\ q.len = SubLen(c, j)
      /\ q.len \in Nat /\ j * MaxPlain \in Nat
  BY <1>1, <1>4, PieceIs
<1>6. q.at + q.len = Offset(c) + actual_chunk_size(c)
  BY <1>2, <1>5, SMT
<1>7. QED
  BY <1>3, <1>6

LEMMA PieceBefore ==
    ASSUME size \in Nat, NEW c \in Chunks, NEW p \in Pieces(c), p.at # 0
    PROVE  \E d \in Chunks : \E q \in Pieces(d) : q.at + q.len = p.at
<1>1. PICK i \in Subs(c) : p = PieceOf(c, i)
  BY DEF Pieces
<1>2. /\ p.at = Offset(c) + i * MaxPlain /\ i \in Nat /\ i * MaxPlain \in Nat
  BY <1>1, PieceIs
<1>3. Offset(c) \in Nat /\ c \in Nat
  BY ChunkGeometry
<1>4. CASE i # 0
  <2> DEFINE j == i - 1
  <2>1. j \in Subs(c) /\ j + 1 = i /\ j + 1 # SubCount(c)
    BY SMT, SubGeometry, <1>2, <1>4 DEF Subs
  <2> HIDE DEF j
  <2>2. SubLen(c, j) = MaxPlain
    BY <2>1, SubGeometry
  <2> DEFINE q == PieceOf(c, j)
  <2>3. q \in Pieces(c)
    BY <2>1 DEF Pieces
  <2> HIDE DEF q
  <2>4. q = PieceOf(c, j)
    BY DEF q
  <2>5. q.at = Offset(c) + j * MaxPlain /\ q.len = MaxPlain /\ q.len \in Nat /\ j \in Nat
        /\ j * MaxPlain \in Nat
    BY <2>1, <2>2, <2>4, PieceIs
  <2>6. i * MaxPlain = j * MaxPlain + MaxPlain
    BY SMT, <2>1, <2>5 DEF MaxPlain
  <2>7. q.at + q.len = p.at
    BY <1>2, <1>3, <2>5, <2>6, SMT
  <2>8. QED
    BY <2>3, <2>7
<1>5. CASE i = 0
  <2>1. p.at = Offset(c)
    <3>1. i * MaxPlain = 0
      BY SMT, <1>5 DEF MaxPlain
    <3>2. QED
      BY <1>2, <1>3, <3>1, SMT
  <2>2. c # 0
    <3>1. SUFFICES ASSUME c = 0 PROVE FALSE
      OBVIOUS
    <3>2. Offset(c) = 0
      BY SMT, <3>1, ChunkGeometry DEF Offset, ChunkSizes
    <3>3. QED
      BY <2>1, <3>2
  <2>3. c - 1 \in Chunks /\ Offset(c) = Offset(c - 1) + chunk_size
    <3>1. c > 0
      BY <1>3, <2>2, SMT
    <3>2. QED
      BY <3>1, ChunkGeometry
  <2>4. actual_chunk_size(c - 1) = chunk_size
    <3>1. c <= Last
      BY ChunkGeometry
    <3>2. c - 1 # Last
      <4>1. Last \in Chunks
        BY ChunkGeometry
      <4>2. Last \in Nat
        BY <4>1, ChunkGeometry
      <4>3. QED
        BY <1>3, <3>1, <4>2, SMT
    <3>3. QED
      BY <2>3, <3>2, ChunkGeometry
  <2>5. \E q \in Pieces(c - 1) : q.at + q.len = Offset(c - 1) + actual_chunk_size(c - 1)
    BY <2>3, LastPiece
  <2>6. QED
    BY <2>1, <2>3, <2>4, <2>5
<1>6. QED
  BY <1>4, <1>5

-----------------------------------------------------------------------------
(* The invariant.                                                           *)

\* Initially nothing is sent, sealed or kept.
LEMMA InvInit == Init => Inv
<1> SUFFICES ASSUME Init PROVE Inv
  OBVIOUS
<1>1. size \in Sizes /\ Sizes \subseteq Nat /\ NonceBase \in Nat /\ MaxDamage \in Nat
  BY FramingAssumption DEF Init
<1>2. TypeOK
  <2>1. ctrl \in [{"sender", "receiver"} -> 0 .. NonceBase]
    BY <1>1, SMT DEF Init
  <2>2. damaged \in [count : 0 .. MaxDamage, here : BOOLEAN]
    BY <1>1, SMT DEF Init
  <2>3. QED
    BY <1>1, <2>1, <2>2 DEF Init, TypeOK
<1>3. FrameInv
  BY DEF Init, FrameInv
<1>4. ReadInv
  BY DEF Init, ReadInv
<1>5. KeptInv
  <2>1. bar = 0 /\ confirmed = 0 /\ advanced = 0 /\ disk = {} /\ done = {}
    BY DEF Init
  <2>2. disk = UNION {Pieces(c) : c \in done}
    BY <2>1
  <2>3. confirmed = BytesOf(done)
    BY <2>1, BytesOfNone
  <2>4. QED
    BY <2>1, <2>2, <2>3 DEF KeptInv
<1>6. SealInv
  BY DEF Init, SealInv
<1>7. QED
  BY <1>2, <1>3, <1>4, <1>5, <1>6 DEF Inv, Init

\* The frame on the stream is the frame of a chunk that is neither to be sent
\* nor accepted, and what has been read of it is its first pieces.
LEMMA FrameAtHand ==
    ASSUME Inv, NEW f \in frame
    PROVE  /\ size \in Nat /\ frame = {f} /\ ctrl["receiver"] # 0
           /\ \E c \in Chunks \ (toSend \cup done) :
                /\ f = encode_chunk_frame(c) /\ f.index = c
                /\ f.count = SubCount(c) /\ f.count \in 1 .. 129
                /\ f.payload <= max_payload
                /\ \A i \in 0 .. f.count - 1 : i \in Subs(c) /\ f.subs[i] = SealedSub(c, i)
                /\ sub # None =>
                      /\ sub \in 0 .. f.count
                      /\ failed => sub = f.count /\ advanced = 0 /\ damaged.here
                      /\ ~failed =>
                            /\ advanced = AtMost(sub * MaxPlain, actual_chunk_size(c))
                            /\ plain = {PieceOf(c, i) : i \in 0 .. sub - 1}
<1>1. size \in Nat
  BY FramingAssumption DEF Inv, TypeOK
<1>2. PICK c \in Chunks \ (toSend \cup done) : frame = {encode_chunk_frame(c)}
  BY DEF Inv, FrameInv
<1>3. f = encode_chunk_frame(c) /\ frame = {f}
  BY <1>2
<1>4. ctrl["receiver"] # 0
  BY DEF Inv, FrameInv
<1>5. /\ f.index = c /\ f.count = SubCount(c) /\ f.count \in 1 .. 129
      /\ f.payload <= max_payload
      /\ \A i \in 0 .. f.count - 1 : i \in Subs(c) /\ f.subs[i] = SealedSub(c, i)
  BY <1>1, <1>3, FrameIs
<1>6. sub # None =>
        /\ sub \in 0 .. f.count
        /\ failed => sub = f.count /\ advanced = 0 /\ damaged.here
        /\ ~failed =>
              /\ advanced = AtMost(sub * MaxPlain, actual_chunk_size(c))
              /\ plain = {PieceOf(c, i) : i \in 0 .. sub - 1}
  BY <1>5, Zenon DEF Inv, ReadInv
<1>7. QED
  BY <1>1, <1>3, <1>4, <1>5, <1>6, Zenon

\* A control message takes the next nonce of its side.
LEMMA CtrlSealed ==
    ASSUME Inv, size' = size, NEW side \in {"sender", "receiver"},
           NEW kind \in {"manifest", "ack", "nack", "progress"}, NEW c \in Int,
           SendCtrl(side, kind, c)
    PROVE  /\ SealInv' /\ sealed' \subseteq Sealed
           /\ ctrl' \in [{"sender", "receiver"} -> 0 .. NonceBase]
           /\ ctrl'[side] # 0
           /\ \A s \in {"sender", "receiver"} : s # side => ctrl'[s] = ctrl[s]
<1> DEFINE m == SealedCtrl(side, kind, c)
<1>1. /\ ctrl \in [{"sender", "receiver"} -> 0 .. NonceBase] /\ NonceBase \in Nat
      /\ sealed \subseteq Sealed /\ SealInv
  BY FramingAssumption DEF Inv, TypeOK
<1>2. /\ ctrl[side] \in Nat /\ ctrl[side] < NonceBase
      /\ ctrl' = [ctrl EXCEPT ![side] = @ + 1] /\ sealed' = sealed \cup {m}
  BY <1>1, SMT DEF SendCtrl
<1>3. /\ m.side = side /\ m.nonce = ctrl[side] /\ m.kind = kind
      /\ m \in Sealed
  BY <1>2, SMT DEF SealedCtrl, Sealed
<1> HIDE DEF m
<1>4. /\ ctrl' \in [{"sender", "receiver"} -> 0 .. NonceBase]
      /\ ctrl'[side] = ctrl[side] + 1 /\ ctrl'[side] # 0
      /\ \A s \in {"sender", "receiver"} : s # side => ctrl'[s] = ctrl[s]
  BY <1>1, <1>2, SMT
<1>5. \A a \in sealed : a.side \in {"sender", "receiver"} /\ a.nonce \in Nat
  BY <1>1 DEF Sealed
<1>6. ASSUME NEW a \in sealed'
      PROVE  \/ a.kind # "bytes" /\ a.nonce < ctrl'[a.side]
             \/ \E d \in Chunks' : \E i \in Subs(d)' : a = SealedSub(d, i)'
  <2>1. CASE a = m
    BY <1>2, <1>3, <1>4, <2>1, SMT
  <2>2. CASE a \in sealed /\ a.kind # "bytes" /\ a.nonce < ctrl[a.side]
    <3>1. a.side \in {"sender", "receiver"} /\ a.nonce \in Nat
      BY <1>5, <2>2
    <3>2. a.nonce < ctrl'[a.side]
      <4>1. CASE a.side = side
        BY <1>2, <1>4, <2>2, <3>1, <4>1, SMT
      <4>2. CASE a.side # side
        BY <1>4, <2>2, <3>1, <4>2
      <4>3. QED
        BY <4>1, <4>2
    <3>3. QED
      BY <2>2, <3>2
  <2>3. CASE \E d \in Chunks : \E i \in Subs(d) : a = SealedSub(d, i)
    BY <2>3, SizeIsFixed
  <2>4. QED
    BY <1>1, <1>2, <2>1, <2>2, <2>3 DEF SealInv
<1>7. ASSUME NEW a \in sealed', NEW b \in sealed',
             a.kind # "bytes", b.kind # "bytes", a.side = b.side, a.nonce = b.nonce
      PROVE  a = b
  <2>1. ASSUME NEW x \in sealed, x.kind # "bytes" PROVE x.nonce < ctrl[x.side]
    <3>1. ~ \E d \in Chunks : \E i \in Subs(d) : x = SealedSub(d, i)
      BY <2>1 DEF SealedSub
    <3>2. QED
      BY <1>1, <2>1, <3>1 DEF SealInv
  <2>2. ASSUME NEW x \in sealed, x.kind # "bytes", x.side = m.side, x.nonce = m.nonce
        PROVE  FALSE
    <3>1. x.nonce < ctrl[x.side] /\ x.nonce \in Nat
      BY <1>5, <2>1, <2>2
    <3>2. QED
      BY <1>2, <1>3, <2>2, <3>1, SMT
  <2>3. CASE a \in sealed /\ b \in sealed
    BY <1>1, <1>7, <2>3 DEF SealInv
  <2>4. CASE a = m /\ b = m
    BY <2>4
  <2>5. CASE (a \in sealed /\ b = m) \/ (a = m /\ b \in sealed)
    BY <1>7, <2>2, <2>5
  <2>6. QED
    BY <1>2, <2>3, <2>4, <2>5
<1>8. SealInv'
  BY <1>6, <1>7 DEF SealInv
<1>9. sealed' \subseteq Sealed
  BY <1>1, <1>2, <1>3
<1>10. QED
  BY <1>4, <1>8, <1>9

\* Nothing is sealed, or nothing accepted.
LEMMA SealKept ==
    ASSUME Inv, UNCHANGED <<size, ctrl, sealed>>
    PROVE  /\ SealInv' /\ sealed' \subseteq Sealed
           /\ ctrl' \in [{"sender", "receiver"} -> 0 .. NonceBase]
<1>1. SealInv'
  BY SizeIsFixed DEF Inv, SealInv
<1>2. QED
  BY <1>1 DEF Inv, TypeOK

LEMMA Kept ==
    ASSUME size' = size, NEW S, done' = S, disk' = UNION {Pieces(c) : c \in S},
           confirmed' = BytesOf(S), bar' = confirmed' + advanced'
    PROVE  KeptInv'
<1>1. disk' = UNION {Pieces(c)' : c \in done'}
  BY SizeIsFixed, Zenon
<1>2. chunk_size' = chunk_size /\ Last' = Last
      /\ actual_chunk_size(Last)' = actual_chunk_size(Last)
  <2>1. chunk_size' = chunk_size /\ Last' = Last
    BY SizeIsFixed
  <2>2. actual_chunk_size(Last)' = actual_chunk_size(Last)
    BY <2>1 DEF actual_chunk_size, Offset
  <2>3. QED
    BY <2>1, <2>2
<1>3. BytesOf(done)' = BytesOf(S)
  BY <1>2 DEF BytesOf
<1>4. QED
  BY <1>1, <1>3 DEF KeptInv

LEMMA KeptSame ==
    ASSUME Inv, UNCHANGED <<size, done, disk, confirmed>>, bar' = confirmed + advanced'
    PROVE  KeptInv'
BY Kept DEF Inv, KeptInv

\* The frame variables, where they stay.
LEMMA FrameKept ==
    ASSUME Inv, UNCHANGED <<size, toSend, frame, done, ctrl>>
    PROVE  FrameInv' /\ frame' \subseteq {encode_chunk_frame(c)' : c \in Chunks'}
<1>1. frame' \subseteq {encode_chunk_frame(c)' : c \in Chunks'}
  BY SizeIsFixed, Zenon DEF Inv, TypeOK
<1>2. FrameInv'
  BY SizeIsFixed, Zenon DEF Inv, FrameInv
<1>3. QED
  BY <1>1, <1>2

LEMMA InvSendManifest == Inv /\ SendManifest => Inv'
<1> SUFFICES ASSUME Inv, SendManifest PROVE Inv'
  OBVIOUS
<1>1. /\ UNCHANGED <<size, frame, rcv, refused, damaged>> /\ toSend' = Chunks
      /\ ctrl["sender"] = 0 /\ SendCtrl("sender", "manifest", None)
  BY DEF SendManifest
<1>2. ctrl["receiver"] = 0 /\ frame = {} /\ done = {} /\ toSend = {}
  BY <1>1 DEF Inv, FrameInv
<1>3. Chunks' = Chunks
  BY <1>1, SizeIsFixed
<1>4. /\ SealInv' /\ sealed' \subseteq Sealed
      /\ ctrl' \in [{"sender", "receiver"} -> 0 .. NonceBase] /\ ctrl'["sender"] # 0
  <2>1. None \in Int
    BY SMT DEF None
  <2>2. QED
    BY <1>1, <2>1, CtrlSealed
<1>5. FrameInv'
  BY <1>1, <1>2, <1>3, <1>4 DEF FrameInv, rcv
<1>6. TypeOK'
  BY <1>1, <1>2, <1>3, <1>4 DEF Inv, TypeOK, rcv
<1>7. ReadInv'
  BY <1>1, <1>2 DEF Inv, ReadInv, rcv
<1>8. KeptInv'
  BY <1>1, KeptSame DEF Inv, KeptInv, rcv
<1>9. QED
  BY <1>1, <1>4, <1>5, <1>6, <1>7, <1>8 DEF Inv

LEMMA InvRecvManifest == Inv /\ RecvManifest => Inv'
<1> SUFFICES ASSUME Inv, RecvManifest PROVE Inv'
  OBVIOUS
<1>1. /\ UNCHANGED <<size, toSend, frame, rcv, refused, damaged>>
      /\ ctrl["sender"] = 1 /\ ctrl["receiver"] = 0 /\ SendCtrl("receiver", "ack", None)
  BY DEF RecvManifest
<1>2. frame = {} /\ done = {}
  BY <1>1 DEF Inv, FrameInv
<1>3. Chunks' = Chunks
  BY <1>1, SizeIsFixed
<1>4. /\ SealInv' /\ sealed' \subseteq Sealed
      /\ ctrl' \in [{"sender", "receiver"} -> 0 .. NonceBase]
      /\ ctrl'["receiver"] # 0 /\ ctrl'["sender"] = 1
  <2>1. None \in Int
    BY SMT DEF None
  <2>2. QED
    BY <1>1, <2>1, CtrlSealed
<1>5. FrameInv'
  BY <1>1, <1>2, <1>3, <1>4 DEF Inv, FrameInv, rcv
<1>6. TypeOK'
  BY <1>1, <1>2, <1>3, <1>4 DEF Inv, TypeOK, rcv
<1>7. ReadInv'
  BY <1>1, <1>2 DEF Inv, ReadInv, rcv
<1>8. KeptInv'
  BY <1>1, KeptSame DEF Inv, KeptInv, rcv
<1>9. QED
  BY <1>1, <1>4, <1>5, <1>6, <1>7, <1>8 DEF Inv

LEMMA InvSendFrame == ASSUME Inv, NEW c \in toSend, SendFrame(c) PROVE Inv'
<1>1. /\ ctrl["receiver"] > 0 /\ frame = {} /\ c \in toSend
      /\ toSend' = toSend \ {c} /\ frame' = {encode_chunk_frame(c)}
      /\ sealed' = sealed \cup {SealedSub(c, i) : i \in Subs(c)}
      /\ UNCHANGED <<size, rcv, ctrl, refused, damaged>>
  BY DEF SendFrame
<1>2. /\ c \in Chunks /\ size \in Nat /\ c \notin done /\ toSend \subseteq Chunks
      /\ done \subseteq Chunks /\ sub = None /\ advanced = 0
      /\ ctrl["receiver"] # 0 /\ ctrl["sender"] # 0
  <2>1. ctrl["receiver"] # 0
    BY <1>1, SMT
  <2>2. QED
    BY <1>1, <2>1, FramingAssumption DEF Inv, TypeOK, FrameInv, ReadInv
<1>3. /\ Chunks' = Chunks /\ encode_chunk_frame(c)' = encode_chunk_frame(c)
  BY <1>1, SizeIsFixed
<1>4. FrameInv'
  <2>1. /\ toSend' \subseteq Chunks' /\ done' \subseteq Chunks' /\ toSend' \cap done' = {}
        /\ c \in Chunks' \ (toSend' \cup done')
    BY <1>1, <1>2, <1>3 DEF Inv, FrameInv, rcv
  <2>2. frame' = {encode_chunk_frame(c)'}
    BY <1>1, <1>3
  <2>3. ctrl' = ctrl
    BY <1>1
  <2>4. QED
    BY <1>2, <2>1, <2>2, <2>3, Zenon DEF FrameInv
<1>5. sealed' \subseteq Sealed
  BY <1>1, <1>2, NonceOfSub DEF Inv, TypeOK
<1>6. SealInv'
  <2>1. ASSUME NEW a \in sealed'
        PROVE  \/ a.kind # "bytes" /\ a.nonce < ctrl'[a.side]
               \/ \E d \in Chunks' : \E i \in Subs(d)' : a = SealedSub(d, i)'
    <3>1. CASE a \in sealed
      BY <1>1, <3>1, SizeIsFixed DEF Inv, SealInv
    <3>2. CASE \E i \in Subs(c) : a = SealedSub(c, i)
      BY <1>1, <1>2, <3>2, SizeIsFixed
    <3>3. QED
      BY <1>1, <3>1, <3>2
  <2>2. ASSUME NEW a \in sealed', a.kind # "bytes" PROVE a \in sealed
    BY <1>1, <2>2 DEF SealedSub
  <2>3. QED
    BY <2>1, <2>2 DEF Inv, SealInv
<1>7. TypeOK'
  <2>1. frame' \subseteq {encode_chunk_frame(d)' : d \in Chunks'}
    BY <1>1, <1>2, <1>3, Zenon
  <2>2. QED
    BY <1>1, <1>2, <1>3, <1>5, <2>1 DEF Inv, TypeOK, rcv
<1>8. ReadInv'
  BY <1>1, <1>2, Zenon DEF ReadInv, rcv
<1>9. KeptInv'
  BY <1>1, KeptSame DEF Inv, KeptInv, rcv
<1>10. QED
  BY <1>1, <1>4, <1>6, <1>7, <1>8, <1>9 DEF Inv

LEMMA InvReadHeader == ASSUME Inv, NEW f \in frame, ReadHeader(f) PROVE Inv'
<1>1. /\ sub = None /\ failed' = FALSE /\ plain' = {} /\ advanced' = 0
      /\ IF f.payload > max_payload THEN refused' = TRUE /\ UNCHANGED sub
                                    ELSE sub' = 0 /\ UNCHANGED refused
      /\ damaged' = [damaged EXCEPT !.here = FALSE]
      /\ UNCHANGED <<size, toSend, frame, bar, confirmed, done, disk, ctrl, sealed>>
  BY DEF ReadHeader
<1>2. PICK c \in Chunks \ (toSend \cup done) :
         /\ size \in Nat /\ frame = {f} /\ f = encode_chunk_frame(c) /\ f.index = c
         /\ f.count \in 1 .. 129 /\ f.payload <= max_payload
  BY FrameAtHand
<1>3. sub' = 0 /\ refused' = refused
  <2>1. f.payload \in Int /\ max_payload \in Int
    <3>1. f.payload = PayloadLen(c)
      BY <1>2 DEF encode_chunk_frame
    <3>2. /\ SubCount(c) \in 1 .. 129 /\ actual_chunk_size(c) \in 1 .. chunk_size
          /\ chunk_size \in ChunkSizes
      BY <1>2, SubGeometry, ChunkGeometry
    <3>3. QED
      BY SMT, <3>1, <3>2 DEF PayloadLen, max_payload, TagLen, ChunkSizes
  <2>2. ~(f.payload > max_payload)
    BY <1>2, <2>1, SMT
  <2>3. QED
    BY <1>1, <2>2
<1>4. SealInv' /\ sealed' \subseteq Sealed
      /\ ctrl' \in [{"sender", "receiver"} -> 0 .. NonceBase]
  BY <1>1, SealKept
<1>5. FrameInv' /\ frame' \subseteq {encode_chunk_frame(d)' : d \in Chunks'}
  BY <1>1, FrameKept
<1>6. Chunks' = Chunks
  BY <1>1, SizeIsFixed
<1>7. TypeOK'
  <2>1. damaged' \in [count : 0 .. MaxDamage, here : BOOLEAN]
    <3>1. damaged \in [count : 0 .. MaxDamage, here : BOOLEAN]
      BY DEF Inv, TypeOK
    <3>2. damaged' = [damaged EXCEPT !.here = FALSE]
      BY <1>1
    <3>3. QED
      BY <3>1, <3>2
  <2>2. 0 \in Nat
    OBVIOUS
  <2>3. QED
    BY <1>1, <1>3, <1>4, <1>5, <1>6, <2>1, <2>2 DEF Inv, TypeOK
<1>8. KeptInv'
  <2>1. bar' = confirmed + advanced'
    BY <1>1 DEF Inv, KeptInv, ReadInv
  <2>2. QED
    BY <1>1, <2>1, KeptSame
<1>9. ReadInv'
  <2>1. frame' # {}
    BY <1>1
  <2>2. ASSUME NEW g \in frame'
        PROVE  /\ sub' \in 0 .. g.count
               /\ advanced' = AtMost(sub' * MaxPlain, actual_chunk_size(g.index)')
               /\ plain' = {PieceOf(g.index, i)' : i \in 0 .. sub' - 1}
    <3>1. g = f
      BY <1>1, <1>2
    <3>2. sub' \in 0 .. g.count
      BY <1>2, <1>3, <3>1, SMT
    <3>3. AtMost(sub' * MaxPlain, actual_chunk_size(g.index)') = 0
      <4>1. actual_chunk_size(c)' = actual_chunk_size(c)
        BY <1>1, SizeIsFixed
      <4>2. actual_chunk_size(c) \in 1 .. chunk_size
        BY <1>2, ChunkGeometry
      <4>3. sub' * MaxPlain = 0
        BY SMT, <1>3 DEF MaxPlain
      <4>4. g.index = c
        BY <1>2, <3>1
      <4>5. actual_chunk_size(g.index)' = actual_chunk_size(c)
        BY <1>1, <1>2, <3>1, <4>1
      <4>6. QED
        BY <4>2, <4>3, <4>5, SMT DEF AtMost
    <3>4. {PieceOf(g.index, i)' : i \in 0 .. sub' - 1} = {}
      BY <1>3, SMT
    <3>5. QED
      BY <1>1, <3>2, <3>3, <3>4
  <2>3. QED
    BY <1>1, <2>1, <2>2 DEF ReadInv
<1>10. QED
  BY <1>3, <1>4, <1>5, <1>7, <1>8, <1>9 DEF Inv

LEMMA InvReadSub == ASSUME Inv, NEW f \in frame, ReadSub(f) PROVE Inv'
<1> DEFINE s == f.subs[sub]
<1>1. /\ sub # None /\ sub < f.count /\ ~failed
      /\ plain' = plain \cup {[at |-> Offset(f.index) + advanced,
                               from |-> s.from, len |-> s.len]}
      /\ advanced' = advanced + s.len /\ bar' = bar + s.len /\ sub' = sub + 1
      /\ UNCHANGED <<size, toSend, frame, failed, confirmed, done, disk, ctrl,
                     sealed, refused, damaged>>
  BY DEF ReadSub
<1>2. PICK c \in Chunks \ (toSend \cup done) :
         /\ size \in Nat /\ frame = {f} /\ f = encode_chunk_frame(c) /\ f.index = c
         /\ f.count = SubCount(c) /\ f.count \in 1 .. 129
         /\ \A i \in 0 .. f.count - 1 : i \in Subs(c) /\ f.subs[i] = SealedSub(c, i)
         /\ sub \in 0 .. f.count
         /\ advanced = AtMost(sub * MaxPlain, actual_chunk_size(c))
         /\ plain = {PieceOf(c, i) : i \in 0 .. sub - 1}
  BY <1>1, FrameAtHand, Zenon
<1>3. sub \in 0 .. f.count - 1 /\ sub \in Nat
  BY <1>1, <1>2, SMT
<1>4. sub \in Subs(c) /\ s = SealedSub(c, sub) /\ c \in Chunks
  BY <1>2, <1>3
<1> HIDE DEF s
<1>5. s.from = SubFrom(c, sub) /\ s.len = SubLen(c, sub)
  BY <1>4 DEF SealedSub
\* What was read so far ends where this sub-message begins.
<1>6. advanced = sub * MaxPlain /\ AtMost((sub + 1) * MaxPlain, actual_chunk_size(c)) = advanced + s.len
  BY <1>2, <1>4, <1>5, SubGeometry
<1>7. [at |-> Offset(f.index) + advanced, from |-> s.from, len |-> s.len] = PieceOf(c, sub)
  <2>1. SubFrom(c, sub) = Offset(f.index) + advanced
    BY <1>2, <1>6 DEF SubFrom
  <2>2. QED
    BY <1>5, <2>1 DEF PieceOf
<1>8. PieceOf(c, sub) \in Piece /\ s.len \in Nat
  BY <1>2, <1>4, <1>5, PieceIs
<1>9. SealInv' /\ sealed' \subseteq Sealed
      /\ ctrl' \in [{"sender", "receiver"} -> 0 .. NonceBase]
  BY <1>1, SealKept
<1>10. FrameInv' /\ frame' \subseteq {encode_chunk_frame(d)' : d \in Chunks'}
  BY <1>1, FrameKept
<1>11. Chunks' = Chunks
  BY <1>1, SizeIsFixed
<1>12. bar \in Nat /\ advanced \in Nat /\ confirmed \in Nat /\ bar = confirmed + advanced
  BY DEF Inv, TypeOK, KeptInv
<1>13. TypeOK'
  <2>1. sub' \in Nat /\ advanced' \in Nat /\ bar' \in Nat
    BY <1>1, <1>3, <1>8, <1>12, SMT
  <2>2. plain' \subseteq Piece
    BY <1>1, <1>7, <1>8 DEF Inv, TypeOK
  <2>3. QED
    BY <1>1, <1>9, <1>10, <1>11, <2>1, <2>2 DEF Inv, TypeOK
<1>14. KeptInv'
  <2>1. bar' = confirmed + advanced'
    BY <1>1, <1>8, <1>12, SMT
  <2>2. QED
    BY <1>1, <2>1, KeptSame
<1>15. ReadInv'
  <2>1. ASSUME NEW g \in frame'
        PROVE  /\ sub' \in 0 .. g.count
               /\ advanced' = AtMost(sub' * MaxPlain, actual_chunk_size(g.index)')
               /\ plain' = {PieceOf(g.index, i)' : i \in 0 .. sub' - 1}
    <3>1. g = f /\ g.index = c
      BY <1>1, <1>2
    <3>2. sub' \in 0 .. g.count
      BY <1>1, <1>2, <1>3, <3>1, SMT
    <3>3. actual_chunk_size(g.index)' = actual_chunk_size(c)
      <4>1. actual_chunk_size(c)' = actual_chunk_size(c)
        BY <1>1, SizeIsFixed
      <4>2. QED
        BY <1>1, <1>2, <3>1, <4>1
    <3>4. {PieceOf(g.index, i)' : i \in 0 .. sub' - 1} = {PieceOf(c, i) : i \in 0 .. sub' - 1}
      BY <1>1, <3>1, SizeIsFixed, Zenon
    <3>5. 0 .. sub' - 1 = (0 .. sub - 1) \cup {sub}
      BY <1>1, <1>3, SMT
    <3>6. plain' = {PieceOf(c, i) : i \in 0 .. sub' - 1}
      BY <1>1, <1>2, <1>7, <3>5, Zenon
    <3>7. QED
      BY <1>1, <1>6, <3>2, <3>3, <3>4, <3>6
  <2>2. frame' # {} /\ sub' # None /\ ~failed'
    <3>1. sub' # None
      BY <1>1, <1>3, SMT DEF None
    <3>2. QED
      BY <1>1, <3>1
  <2>3. QED
    BY <2>1, <2>2, Zenon DEF ReadInv
<1>16. QED
  BY <1>1, <1>9, <1>10, <1>13, <1>14, <1>15 DEF Inv

LEMMA InvReadDamaged == ASSUME Inv, NEW f \in frame, ReadDamaged(f) PROVE Inv'
<1>1. /\ damaged.count < MaxDamage
      /\ damaged' = [count |-> damaged.count + 1, here |-> TRUE]
      /\ failed' = TRUE /\ sub' = f.count /\ bar' = bar - advanced /\ advanced' = 0
      /\ UNCHANGED <<size, toSend, frame, plain, confirmed, done, disk, ctrl,
                     sealed, refused>>
  BY DEF ReadDamaged
<1>2. frame = {f} /\ f.count \in 1 .. 129
  BY FrameAtHand
<1>3. bar' = confirmed /\ confirmed \in Nat
  <2>1. bar \in Nat /\ advanced \in Nat /\ confirmed \in Nat /\ bar = confirmed + advanced
    BY DEF Inv, TypeOK, KeptInv
  <2>2. QED
    BY <1>1, <2>1, SMT
<1>4. SealInv' /\ sealed' \subseteq Sealed
      /\ ctrl' \in [{"sender", "receiver"} -> 0 .. NonceBase]
  BY <1>1, SealKept
<1>5. FrameInv' /\ frame' \subseteq {encode_chunk_frame(d)' : d \in Chunks'}
  BY <1>1, FrameKept
<1>6. Chunks' = Chunks
  BY <1>1, SizeIsFixed
<1>7. TypeOK'
  <2>1. damaged' \in [count : 0 .. MaxDamage, here : BOOLEAN]
    <3>1. damaged.count \in 0 .. MaxDamage /\ MaxDamage \in Nat
      BY FramingAssumption DEF Inv, TypeOK
    <3>2. damaged.count + 1 \in 0 .. MaxDamage
      BY <1>1, <3>1, SMT
    <3>3. QED
      BY <1>1, <3>2
  <2>2. sub' \in Nat /\ advanced' \in Nat /\ bar' \in Nat
    BY <1>1, <1>2, <1>3, SMT
  <2>3. QED
    BY <1>1, <1>4, <1>5, <1>6, <2>1, <2>2 DEF Inv, TypeOK
<1>8. KeptInv'
  <2>1. bar' = confirmed + advanced'
    BY <1>1, <1>3, SMT
  <2>2. QED
    BY <1>1, <2>1, KeptSame
<1>9. ReadInv'
  <2>1. ASSUME NEW g \in frame' PROVE sub' \in 0 .. g.count /\ sub' = g.count
    BY <1>1, <1>2, SMT
  <2>2. frame' # {} /\ failed' /\ advanced' = 0 /\ damaged'.here
    BY <1>1
  <2>3. QED
    BY <2>1, <2>2, Zenon DEF ReadInv
<1>10. QED
  BY <1>1, <1>4, <1>5, <1>7, <1>8, <1>9 DEF Inv

\* A frame read to its end without damage has the length of its chunk.
LEMMA WholeFrame ==
    ASSUME Inv, NEW f \in frame, sub = f.count, ~failed
    PROVE  /\ advanced = actual_chunk_size(f.index) /\ plain = Pieces(f.index)
           /\ f.index \in Chunks \ (toSend \cup done)
<1>1. PICK c \in Chunks \ (toSend \cup done) :
         /\ size \in Nat /\ f.index = c /\ f.count = SubCount(c) /\ f.count \in 1 .. 129
         /\ sub # None =>
              /\ sub \in 0 .. f.count
              /\ failed => sub = f.count /\ advanced = 0 /\ damaged.here
              /\ ~failed =>
                    /\ advanced = AtMost(sub * MaxPlain, actual_chunk_size(c))
                    /\ plain = {PieceOf(c, i) : i \in 0 .. sub - 1}
  BY FrameAtHand, Zenon
<1>2. sub # None
  BY <1>1, SMT DEF None
<1>3. advanced = actual_chunk_size(c)
  <2>1. advanced = AtMost(SubCount(c) * MaxPlain, actual_chunk_size(c))
    BY <1>1, <1>2
  <2>2. QED
    BY <1>1, <2>1, SubGeometry
<1>4. plain = Pieces(c)
  BY <1>1, <1>2 DEF Pieces, Subs
<1>5. QED
  BY <1>1, <1>3, <1>4

LEMMA InvNack == ASSUME Inv, NEW f \in frame, Nack(f) PROVE Inv' /\ damaged.here
<1>1. /\ sub = f.count /\ (failed \/ advanced # actual_chunk_size(f.index))
      /\ bar' = bar - advanced /\ advanced' = 0
      /\ SendCtrl("receiver", "nack", f.index)
      /\ toSend' = toSend \cup {f.index} /\ frame' = {} /\ sub' = None
      /\ UNCHANGED <<size, failed, plain, confirmed, done, disk, refused, damaged>>
  BY DEF Nack
<1>2. PICK c \in Chunks \ (toSend \cup done) :
         /\ size \in Nat /\ f.index = c /\ f.count \in 1 .. 129 /\ ctrl["receiver"] # 0
         /\ sub # None /\ failed => damaged.here
  <2>1. PICK c \in Chunks \ (toSend \cup done) :
           /\ size \in Nat /\ f.index = c /\ f.count \in 1 .. 129 /\ ctrl["receiver"] # 0
           /\ sub # None => (failed => damaged.here)
    BY FrameAtHand, Zenon
  <2>2. QED
    BY <2>1, Zenon
<1>3. damaged.here
  <2>1. sub # None
    BY <1>1, <1>2, SMT DEF None
  <2>2. failed
    BY <1>1, WholeFrame
  <2>3. QED
    BY <1>2, <2>1, <2>2
<1>4. c \in Nat /\ Chunks' = Chunks
  BY <1>1, <1>2, ChunkGeometry, SizeIsFixed
<1>5. /\ SealInv' /\ sealed' \subseteq Sealed
      /\ ctrl' \in [{"sender", "receiver"} -> 0 .. NonceBase]
      /\ ctrl'["receiver"] # 0 /\ ctrl'["sender"] = ctrl["sender"]
  <2>1. c \in Int
    BY <1>4, SMT
  <2>2. QED
    BY <1>1, <1>2, <2>1, CtrlSealed
<1>6. bar' = confirmed /\ confirmed \in Nat
  <2>1. bar \in Nat /\ advanced \in Nat /\ confirmed \in Nat /\ bar = confirmed + advanced
    BY DEF Inv, TypeOK, KeptInv
  <2>2. QED
    BY <1>1, <2>1, SMT
<1>7. FrameInv'
  <2>1. /\ toSend' \subseteq Chunks' /\ done' \subseteq Chunks' /\ toSend' \cap done' = {}
    BY <1>1, <1>2, <1>4 DEF Inv, FrameInv
  <2>2. ctrl'["sender"] # 0
    BY <1>2, <1>5 DEF Inv, FrameInv
  <2>3. QED
    BY <1>1, <1>5, <2>1, <2>2 DEF FrameInv
<1>8. TypeOK'
  <2>1. 0 \in Nat /\ toSend' \subseteq Chunks'
    BY <1>7 DEF FrameInv
  <2>2. QED
    BY <1>1, <1>4, <1>5, <1>6, <2>1 DEF Inv, TypeOK
<1>9. ReadInv'
  BY <1>1 DEF ReadInv
<1>10. KeptInv'
  <2>1. bar' = confirmed + advanced'
    BY <1>1, <1>6, SMT
  <2>2. QED
    BY <1>1, <2>1, KeptSame
<1>11. QED
  BY <1>1, <1>3, <1>5, <1>7, <1>8, <1>9, <1>10 DEF Inv

LEMMA InvAcceptChunk == ASSUME Inv, NEW f \in frame, AcceptChunk(f) PROVE Inv'
<1> DEFINE c == f.index
<1>1. /\ sub = f.count /\ ~failed
      /\ disk' = disk \cup plain /\ done' = done \cup {c}
      /\ confirmed' = confirmed + actual_chunk_size(c)
      /\ SendCtrl("receiver", "progress", c)
      /\ frame' = {} /\ sub' = None /\ advanced' = 0
      /\ UNCHANGED <<size, toSend, failed, plain, bar, refused, damaged>>
  BY DEF AcceptChunk
<1>2. /\ advanced = actual_chunk_size(c) /\ plain = Pieces(c)
      /\ c \in Chunks \ (toSend \cup done)
  BY <1>1, WholeFrame
<1>3. size \in Nat /\ ctrl["receiver"] # 0
  BY FrameAtHand
<1> HIDE DEF c
<1>4. c \in Nat /\ Chunks' = Chunks
  BY <1>1, <1>2, <1>3, ChunkGeometry, SizeIsFixed
<1>5. /\ SealInv' /\ sealed' \subseteq Sealed
      /\ ctrl' \in [{"sender", "receiver"} -> 0 .. NonceBase]
      /\ ctrl'["receiver"] # 0 /\ ctrl'["sender"] = ctrl["sender"]
  <2>1. c \in Int
    BY <1>4, SMT
  <2>2. QED
    BY <1>1, <2>1, CtrlSealed
<1>6. /\ bar = confirmed + advanced /\ confirmed = BytesOf(done) /\ done \in SUBSET Chunks
      /\ bar \in Nat /\ disk = UNION {Pieces(d) : d \in done}
  BY DEF Inv, TypeOK, KeptInv
<1>7. /\ confirmed' = BytesOf(done \cup {c}) /\ bar' = confirmed'
      /\ bar' = confirmed' + advanced'
  <2>1. BytesOf(done \cup {c}) = confirmed + actual_chunk_size(c)
    BY <1>2, <1>3, <1>6, BytesOfMore
  <2>2. QED
    BY <1>1, <1>2, <1>6, <2>1, SMT
<1>8. KeptInv'
  <2>1. disk' = UNION {Pieces(d) : d \in done \cup {c}}
    BY <1>1, <1>2, <1>6, Zenon
  <2>2. QED
    BY <1>1, <1>7, <2>1, Kept
<1>9. FrameInv'
  <2>1. toSend' \subseteq Chunks' /\ done' \subseteq Chunks' /\ toSend' \cap done' = {}
    BY <1>1, <1>2, <1>4 DEF Inv, FrameInv
  <2>2. ctrl'["sender"] # 0
    BY <1>3, <1>5 DEF Inv, FrameInv
  <2>3. QED
    BY <1>1, <1>5, <2>1, <2>2 DEF FrameInv
<1>10. TypeOK'
  <2>1. 0 \in Nat /\ done' \subseteq Chunks'
    BY <1>9 DEF FrameInv
  <2>2. disk' \subseteq Piece /\ confirmed' \in Nat
    BY <1>1, <1>6, <1>7 DEF Inv, TypeOK
  <2>3. QED
    BY <1>1, <1>4, <1>5, <2>1, <2>2 DEF Inv, TypeOK
<1>11. ReadInv'
  BY <1>1 DEF ReadInv
<1>12. QED
  BY <1>1, <1>5, <1>8, <1>9, <1>10, <1>11 DEF Inv

LEMMA InvNext == Inv /\ [Next]_vars => Inv'
<1> SUFFICES ASSUME Inv, [Next]_vars PROVE Inv'
  OBVIOUS
<1>1. CASE SendManifest
  BY <1>1, InvSendManifest
<1>2. CASE RecvManifest
  BY <1>2, InvRecvManifest
<1>3. CASE \E c \in toSend : SendFrame(c)
  BY <1>3, InvSendFrame
<1>4. ASSUME NEW f \in frame,
             ReadHeader(f) \/ ReadSub(f) \/ ReadDamaged(f) \/ Nack(f) \/ AcceptChunk(f)
      PROVE  Inv'
  BY <1>4, InvReadHeader, InvReadSub, InvReadDamaged, InvNack, InvAcceptChunk
<1>5. CASE UNCHANGED vars
  <2>1. UNCHANGED <<size, toSend, frame, sub, failed, plain, advanced, bar, confirmed,
                    done, disk, ctrl, sealed, refused, damaged>>
    BY <1>5 DEF vars, rcv
  <2>2. FrameInv' /\ frame' \subseteq {encode_chunk_frame(d)' : d \in Chunks'}
    BY <2>1, FrameKept
  <2>3. SealInv' /\ KeptInv'
    BY <2>1, SealKept, KeptSame DEF Inv, KeptInv
  <2>4. TypeOK'
    BY <2>1, <2>2, SizeIsFixed DEF Inv, TypeOK
  <2>5. ReadInv'
    BY <2>1, SizeIsFixed DEF Inv, ReadInv
  <2>6. QED
    BY <2>1, <2>2, <2>3, <2>4, <2>5 DEF Inv
<1>6. QED
  BY <1>1, <1>2, <1>3, <1>4, <1>5 DEF Next, Terminated

LEMMA InvAlways == Spec => []Inv
<1>1. Init => Inv
  BY InvInit
<1>2. Inv /\ [Next]_vars => Inv'
  BY InvNext
<1>3. QED
  BY <1>1, <1>2, PTL DEF Spec

-----------------------------------------------------------------------------
(* Theorems.                                                                *)

\* Types, for files of every size.
THEOREM TypeCorrect == Spec => []TypeOK
<1>1. Inv => TypeOK
  BY DEF Inv
<1>2. QED
  BY <1>1, InvAlways, PTL

\* No nonce encrypts two things: the control messages of a side count theirs
\* upwards below CHUNK_NONCE_BASE, and above it every chunk has 1 << 16 of its
\* own, of which it needs at most 129 (session/mod.rs:13-22).
THEOREM NoncesAreUsedOnce == Spec => []NonceOnce
<1>1. Inv => NonceOnce
  <2> SUFFICES ASSUME Inv, NEW a \in sealed, NEW b \in sealed,
                      a.side = b.side, a.nonce = b.nonce
               PROVE  a = b
    BY DEF NonceOnce
  <2>1. /\ size \in Nat /\ NonceBase \in Nat /\ sealed \subseteq Sealed /\ SealInv
        /\ ctrl \in [{"sender", "receiver"} -> 0 .. NonceBase]
    BY FramingAssumption DEF Inv, TypeOK
  <2>2. ASSUME NEW x \in sealed
        PROVE  \/ x.kind # "bytes" /\ x.nonce \in Nat /\ x.nonce < NonceBase
               \/ \E c \in Chunks : \E i \in Subs(c) : x = SealedSub(c, i)
    <3>1. CASE x.kind # "bytes" /\ x.nonce < ctrl[x.side]
      <4>1. x.nonce \in Nat /\ x.side \in {"sender", "receiver"}
        BY <2>1 DEF Sealed
      <4>2. ctrl[x.side] \in 0 .. NonceBase
        BY <2>1, <4>1
      <4>3. QED
        BY <2>1, <3>1, <4>1, <4>2, SMT
    <3>2. QED
      BY <2>1, <3>1 DEF SealInv
  <2>3. CASE a.kind # "bytes" /\ b.kind # "bytes"
    BY <2>1, <2>3 DEF SealInv
  <2>4. ASSUME NEW x \in sealed, NEW y \in sealed, x.nonce = y.nonce,
               x.kind # "bytes", x.nonce \in Nat, x.nonce < NonceBase,
               NEW c \in Chunks, NEW i \in Subs(c), y = SealedSub(c, i)
        PROVE  FALSE
    <3>1. y.nonce = chunk_nonce(c, i) /\ NonceBase <= chunk_nonce(c, i)
      BY <2>1, <2>4, NonceOfSub
    <3>2. QED
      BY <2>1, <2>4, <3>1, SMT
  <2>5. ASSUME NEW c \in Chunks, NEW i \in Subs(c), a = SealedSub(c, i),
               NEW d \in Chunks, NEW j \in Subs(d), b = SealedSub(d, j)
        PROVE  a = b
    <3>1. a.nonce = chunk_nonce(c, i) /\ b.nonce = chunk_nonce(d, j)
      BY <2>5 DEF SealedSub
    <3>2. c = d /\ i = j
      BY <2>1, <3>1, NoncesApart
    <3>3. QED
      BY <2>5, <3>2
  <2>6. QED
    BY <2>2, <2>3, <2>4, <2>5
<1>2. QED
  BY <1>1, InvAlways, PTL

\* The receiver's bar is exact and never above the length of the file
\* (transfer/receiver.rs:192-227).
THEOREM BarIsExact == Spec => []ReceiverBarExact
<1>1. Inv => ReceiverBarExact
  <2> SUFFICES ASSUME Inv PROVE ReceiverBarExact
    OBVIOUS
  <2>1. /\ size \in Nat /\ bar \in Nat /\ advanced \in Nat /\ bar = confirmed + advanced
        /\ confirmed = BytesOf(done) /\ done \in SUBSET Chunks
    BY FramingAssumption DEF Inv, TypeOK, KeptInv
  <2>2. BytesOf(done) \in Nat /\ BytesOf(done) <= size
    BY <2>1, BytesFitFile
  <2>3. CASE advanced = 0
    BY <2>1, <2>2, <2>3, SMT DEF ReceiverBarExact
  <2>4. CASE advanced # 0
    <3>1. PICK f \in frame : sub # None
      BY <2>4 DEF Inv, ReadInv, FrameInv
    <3>2. PICK c \in Chunks \ (toSend \cup done) :
             /\ failed => advanced = 0
             /\ ~failed => advanced = AtMost(sub * MaxPlain, actual_chunk_size(c))
             /\ sub \in 0 .. f.count /\ f.count \in 1 .. 129
      BY <3>1, FrameAtHand, Zenon
    <3>3. actual_chunk_size(c) \in Nat
      <4>1. actual_chunk_size(c) \in 1 .. chunk_size
        BY <2>1, <3>2, ChunkGeometry
      <4>2. QED
        BY <4>1, SMT
    <3>4. advanced <= actual_chunk_size(c)
      <4>1. advanced = AtMost(sub * MaxPlain, actual_chunk_size(c))
        BY <2>4, <3>2
      <4>2. sub * MaxPlain \in Int
        BY SMT, <3>2 DEF MaxPlain
      <4>3. QED
        BY <3>3, <4>1, <4>2, SMT DEF AtMost
    <3>5. BytesOf(done \cup {c}) = BytesOf(done) + actual_chunk_size(c)
      BY <2>1, <3>2, BytesOfMore
    <3>6. BytesOf(done \cup {c}) <= size
      BY <2>1, <3>2, BytesFitFile
    <3>7. QED
      BY <2>1, <2>2, <3>3, <3>4, <3>5, <3>6, SMT DEF ReceiverBarExact
  <2>5. QED
    BY <2>3, <2>4
<1>2. QED
  BY <1>1, InvAlways, PTL

\* The file that has been received is the file that was sent, whatever its
\* length (transfer/receiver.rs:244-249).
THEOREM FileIsRebuilt == Spec => []FileRebuilt
<1>1. Inv => FileRebuilt
  <2> SUFFICES ASSUME Inv PROVE FileRebuilt
    OBVIOUS
  <2>1. size \in Nat /\ done \subseteq Chunks /\ disk = UNION {Pieces(c) : c \in done}
    BY FramingAssumption DEF Inv, TypeOK, KeptInv
  <2>2. ASSUME NEW p \in disk
        PROVE  \E c \in Chunks : p \in Pieces(c) /\ \E i \in Subs(c) : p = PieceOf(c, i)
    BY <2>1 DEF Pieces
  <2>3. ASSUME NEW p \in disk
        PROVE  p.at = p.from /\ p.len > 0 /\ p.at + p.len <= size
    BY <2>1, <2>2, PieceIs
  <2>4. ASSUME NEW p \in disk, NEW q \in disk, p # q
        PROVE  p.at + p.len <= q.at \/ q.at + q.len <= p.at
    <3>1. PICK c \in Chunks : \E i \in Subs(c) : p = PieceOf(c, i)
      BY <2>2
    <3>2. PICK i \in Subs(c) : p = PieceOf(c, i)
      BY <3>1
    <3>3. PICK d \in Chunks : \E j \in Subs(d) : q = PieceOf(d, j)
      BY <2>2
    <3>4. PICK j \in Subs(d) : q = PieceOf(d, j)
      BY <3>3
    <3>5. c \in Nat /\ d \in Nat /\ i \in Nat /\ j \in Nat
      BY <2>1, <3>2, <3>4, ChunkGeometry, PieceIs
    <3>6. c # d \/ i # j
      BY <2>4, <3>2, <3>4
    <3>7. c < d \/ d < c \/ (c = d /\ i < j) \/ (d = c /\ j < i)
      BY <3>5, <3>6, SMT
    <3>8. CASE c < d \/ (c = d /\ i < j)
      BY <2>1, <3>2, <3>4, <3>8, PiecesApart
    <3>9. CASE d < c \/ (d = c /\ j < i)
      BY <2>1, <3>2, <3>4, <3>9, PiecesApart
    <3>10. QED
      BY <3>7, <3>8, <3>9
  <2>5. ASSUME done = Chunks, NEW p \in disk
        PROVE  p.at = 0 \/ \E q \in disk : q.at + q.len = p.at
    <3>1. PICK c \in Chunks : p \in Pieces(c)
      BY <2>2
    <3>2. QED
      BY <2>1, <2>5, <3>1, PieceBefore, Zenon
  <2>6. ASSUME done = Chunks, size > 0
        PROVE  \E p \in disk : p.at + p.len = size
    <3>1. Last \in Chunks /\ Offset(Last) + actual_chunk_size(Last) = size
      BY <2>1, <2>6, ChunkGeometry
    <3>2. \E q \in Pieces(Last) : q.at + q.len = size
      BY <2>1, <3>1, LastPiece
    <3>3. QED
      BY <2>1, <2>6, <3>1, <3>2
  <2>7. QED
    BY <2>3, <2>4, <2>5, <2>6 DEF FileRebuilt
<1>2. QED
  BY <1>1, InvAlways, PTL

\* A frame is turned away, or asked for again, only after a sub-message was
\* damaged (transfer/receiver.rs:143, 179, 219).
THEOREM UndamagedIsAccepted == Spec => UndamagedAccepted
<1>1. Inv /\ Inv' /\ [Next]_vars
        => [/\ ~refused'
            /\ (toSend' \ toSend # {} /\ frame # {}) => damaged.here]_vars
  <2> SUFFICES ASSUME Inv, Inv', [Next]_vars, toSend' \ toSend # {}, frame # {}
               PROVE  damaged.here
    BY DEF Inv
  <2>1. CASE SendManifest
    <3>1. frame = {}
      BY <2>1 DEF SendManifest, Inv, FrameInv
    <3>2. QED
      BY <3>1
  <2>2. ASSUME NEW f \in frame, Nack(f) PROVE damaged.here
    BY <2>2, InvNack
  <2>3. ASSUME NEW c \in toSend, SendFrame(c) PROVE FALSE
    BY <2>3 DEF SendFrame
  <2>4. CASE UNCHANGED toSend
    BY <2>4
  <2>5. QED
    BY <2>1, <2>2, <2>3, <2>4
       DEF Next, RecvManifest, ReadHeader, ReadSub, ReadDamaged, AcceptChunk, Terminated, vars
<1>2. QED
  BY <1>1, InvAlways, PTL DEF Spec, UndamagedAccepted

=============================================================================
