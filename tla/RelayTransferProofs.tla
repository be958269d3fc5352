------------------------ MODULE RelayTransferProofs ------------------------
(***************************************************************************)
(* Proofs about RelayTransfer, for every chunk count, stream capacity,     *)
(* save interval and kind of fault.                                        *)
(*                                                                         *)
(* A chunk is in one place at a time: still to be sent, held by one of the *)
(* sender's loops, on the stream, damaged at the receiver, asked for again *)
(* or accepted.  Every action moves one chunk from one place to the next,  *)
(* or none, or loses some; the rest follows from that.                     *)
(***************************************************************************)
EXTENDS RelayTransfer, FiniteSetTheorems, TLAPS

-----------------------------------------------------------------------------
(* The invariants.                                                          *)

\* No value occurs twice on q.
Once(q) == \A i, j \in DOMAIN q : q[i] = q[j] => i = j

\* The chunks asked for again on q, none of them twice.
Nacks(q) == {c \in Chunks : \E i \in DOMAIN q : q[i] = ChunkNack(c)}
NackedOnce(q) == \A i, j \in DOMAIN q : q[i].type = "nack" /\ q[i] = q[j] => i = j

\* Where a chunk can be.
Places == {"todo", "send", "ctrl", "fwd", "cur", "nack", "done"}
Chunk(x) == {x} \ {None}
Where == [todo |-> toSend, send |-> Chunk(held["send"]), ctrl |-> Chunk(held["ctrl"]),
          fwd |-> Range(fwd), cur |-> Chunk(cur), nack |-> Nacks(back), done |-> done]

Disjoint(P) == \A p, q \in Places : p # q => P[p] \cap P[q] = {}
Covers(P) == \A c \in Chunks : \E p \in Places : c \in P[p]

\* No chunk is in two places, whoever has failed or left; while the session
\* stands, each one is somewhere.
PlacesInv ==
    /\ Once(fwd) /\ NackedOnce(back) /\ Disjoint(Where)
    /\ spc = "run" /\ ~cut /\ left = {} => Covers(Where)

\* Message m tells the sender what the receiver has.
Answers(m) ==
    /\ m.type \in {"ack", "resume"}
    /\ done = IF m.type = "resume" THEN m.have ELSE {}

\* Nothing is on its way before the reply, which lists what the receiver has.
StartInv ==
    /\ rpc = "hello" =>
          /\ spc \in {"offer", "reply", "err"} /\ fwd = <<>> /\ back = <<>>
          /\ done = {} /\ tail = None
    /\ spc \in {"offer", "reply"} =>
          /\ fwd = <<>> /\ rpc \notin {"nack", "report"} /\ bar = 0 /\ ~ctrlDone
          /\ rpc \notin {"hello", "err"} /\ ~cut => back # <<>>
          /\ \A i \in DOMAIN back : IF i = 1 THEN Answers(back[i]) ELSE back[i] = Complete
    /\ spc # "run" => toSend = {} /\ writers = <<>>

CountInv == confirmed = Cardinality(done)

Inv == TypeOK /\ Once(writers) /\ StartInv /\ CountInv /\ PlacesInv

\* Progress messages on q never fall back, and start no lower than n.
ReportsGrow(q, n) ==
    \A i \in DOMAIN q : q[i].type = "progress" =>
        /\ n <= q[i].done
        /\ \A j \in DOMAIN q : i < j /\ q[j].type = "progress" => q[i].done <= q[j].done

ReportsAtMost(q, n) == \A i \in DOMAIN q : q[i].type = "progress" => q[i].done <= n

\* The whole file is there before anyone says so.
WholeInv ==
    /\ rpc \in {"final", "complete", "cleanup", "done"} => done = Chunks
    /\ \A i \in DOMAIN back : back[i].type = "complete" => done = Chunks
    /\ ctrlDone => done = Chunks /\ bar = ChunkCount

ReportInv ==
    /\ WholeInv
    /\ bar <= Cardinality(done) /\ ReportsAtMost(back, Cardinality(done))
    /\ ~ctrlDone => ReportsGrow(back, bar)

\* What is saved or accepted is in the file, but for the last piece.
FileInv == "receiver" \notin left => saved \cup done \subseteq disk \cup {tail}

-----------------------------------------------------------------------------
(* Facts about the operators of the model.                                  *)

LEMMA MessageTypes ==
    /\ Ack \in ControlMessage /\ Complete \in ControlMessage
    /\ \A h \in SUBSET Chunks : ResumeRequest(h) \in ControlMessage
    /\ \A n \in 0 .. ChunkCount : Progress(n) \in ControlMessage
    /\ \A c \in Chunks : ChunkNack(c) \in ControlMessage
BY DEF ControlMessage, Ack, Complete, ResumeRequest, Progress, ChunkNack

\* The payload of a message has the type its tag announces.
LEMMA MessagePayloads ==
    \A m \in ControlMessage :
        /\ m.type = "resume" => m.have \in SUBSET Chunks
        /\ m.type = "progress" => m.done \in 0 .. ChunkCount
        /\ m.type = "nack" => m.chunk \in Chunks /\ m = ChunkNack(m.chunk)
BY DEF ControlMessage, ChunkNack

LEMMA NoneIsNoChunk == None \notin Chunks
BY DEF None, Chunks

\* A set of chunks has between 0 and ChunkCount members, all of them only if
\* it is the whole file.
LEMMA ChunkSets ==
    /\ Cardinality(Chunks) = ChunkCount
    /\ \A S \in SUBSET Chunks :
        /\ Cardinality(S) \in 0 .. ChunkCount
        /\ \A c \in Chunks \ S : Cardinality(S \cup {c}) = Cardinality(S) + 1
<1>1. IsFiniteSet(Chunks) /\ Cardinality(Chunks) = ChunkCount
  BY FS_Interval, RelayTransferAssumption DEF Chunks
<1> SUFFICES ASSUME NEW S \in SUBSET Chunks
             PROVE  /\ Cardinality(S) \in 0 .. ChunkCount
                    /\ \A c \in Chunks \ S : Cardinality(S \cup {c}) = Cardinality(S) + 1
  BY <1>1
<1>2. IsFiniteSet(S) /\ Cardinality(S) <= ChunkCount
  BY <1>1, FS_Subset
<1>3. Cardinality(S) \in Nat
  BY <1>2, FS_CardinalityType
<1>4. \A c \in Chunks \ S : Cardinality(S \cup {c}) = Cardinality(S) + 1
  BY <1>2, FS_AddElement
<1>5. QED
  BY <1>2, <1>3, <1>4, RelayTransferAssumption

\* What Append, Tail and a prefix do to a sequence, by position.
LEMMA AppendByPosition ==
    ASSUME NEW S, NEW q \in Seq(S), NEW x \in S
    PROVE  /\ Append(q, x) \in Seq(S) /\ Len(Append(q, x)) = Len(q) + 1 /\ Len(q) \in Nat
           /\ DOMAIN q = 1 .. Len(q) /\ DOMAIN Append(q, x) = 1 .. Len(q) + 1
           /\ \A i \in 1 .. Len(q) : Append(q, x)[i] = q[i] /\ q[i] \in S
           /\ Append(q, x)[Len(q) + 1] = x
OBVIOUS

LEMMA TailByPosition ==
    ASSUME NEW S, NEW q \in Seq(S), q # <<>>
    PROVE  /\ Tail(q) \in Seq(S) /\ Len(Tail(q)) = Len(q) - 1 /\ Len(q) \in Nat \ {0}
           /\ DOMAIN q = 1 .. Len(q) /\ DOMAIN Tail(q) = 1 .. Len(q) - 1
           /\ \A i \in 1 .. Len(q) - 1 : Tail(q)[i] = q[i + 1] /\ i + 1 \in 1 .. Len(q)
           /\ \A i \in 1 .. Len(q) : q[i] \in S
           /\ Head(q) = q[1] /\ Head(q) \in S
OBVIOUS

LEMMA PrefixByPosition ==
    ASSUME NEW S, NEW q \in Seq(S), NEW n \in 0 .. Len(q)
    PROVE  /\ SubSeq(q, 1, n) \in Seq(S) /\ Len(SubSeq(q, 1, n)) = n /\ Len(q) \in Nat
           /\ DOMAIN q = 1 .. Len(q) /\ DOMAIN SubSeq(q, 1, n) = 1 .. n
           /\ \A i \in 1 .. n : SubSeq(q, 1, n)[i] = q[i] /\ i \in 1 .. Len(q)
OBVIOUS

\* Sequences that hold each value once.
LEMMA OnceAppend ==
    ASSUME NEW S, NEW q \in Seq(S), NEW x \in S, Once(q), x \notin Range(q)
    PROVE  Once(Append(q, x)) /\ Range(Append(q, x)) = Range(q) \cup {x}
<1> DEFINE r == Append(q, x)
<1>1. /\ Len(q) \in Nat /\ DOMAIN q = 1 .. Len(q) /\ DOMAIN r = 1 .. Len(q) + 1
      /\ \A i \in 1 .. Len(q) : r[i] = q[i]
      /\ r[Len(q) + 1] = x
  BY AppendByPosition
<1> HIDE DEF r
<1>2. Once(r)
  BY <1>1 DEF Once, Range
<1>3. Range(r) = Range(q) \cup {x}
  BY <1>1 DEF Range
<1>4. QED
  BY <1>2, <1>3 DEF r

LEMMA OnceTail ==
    ASSUME NEW S, NEW q \in Seq(S), q # <<>>, Once(q)
    PROVE  /\ Once(Tail(q)) /\ Range(Tail(q)) = Range(q) \ {Head(q)}
           /\ Head(q) \in Range(q)
<1> DEFINE r == Tail(q)
<1>1. /\ Len(q) \in Nat \ {0} /\ DOMAIN q = 1 .. Len(q) /\ DOMAIN r = 1 .. Len(q) - 1
      /\ \A i \in 1 .. Len(q) - 1 : r[i] = q[i + 1] /\ i + 1 \in 1 .. Len(q)
      /\ Head(q) = q[1]
  BY TailByPosition
<1> HIDE DEF r
<1>2. Once(r)
  BY <1>1 DEF Once
<1>3. Range(r) \subseteq Range(q) \ {q[1]}
  <2> SUFFICES ASSUME NEW i \in 1 .. Len(q) - 1 PROVE r[i] \in Range(q) /\ r[i] # q[1]
    BY <1>1 DEF Range
  <2>1. QED
    BY <1>1 DEF Once, Range
<1>4. Range(q) \ {q[1]} \subseteq Range(r)
  <2> SUFFICES ASSUME NEW i \in 1 .. Len(q), i # 1 PROVE q[i] \in Range(r)
    BY <1>1 DEF Range
  <2>1. i - 1 \in 1 .. Len(q) - 1 /\ r[i - 1] = q[i]
    BY <1>1
  <2>2. QED
    BY <1>1, <2>1 DEF Range
<1>5. Range(r) = Range(q) \ {q[1]} /\ q[1] \in Range(q)
  <2>1. q[1] \in Range(q)
    BY <1>1 DEF Range
  <2>2. QED
    BY <1>3, <1>4, <2>1
<1>6. QED
  BY <1>1, <1>2, <1>5 DEF r

LEMMA OncePrefix ==
    ASSUME NEW S, NEW q \in Seq(S), NEW n \in 0 .. Len(q), Once(q)
    PROVE  Once(SubSeq(q, 1, n)) /\ Range(SubSeq(q, 1, n)) \subseteq Range(q)
<1> DEFINE r == SubSeq(q, 1, n)
<1>1. /\ DOMAIN q = 1 .. Len(q) /\ DOMAIN r = 1 .. n
      /\ \A i \in 1 .. n : r[i] = q[i] /\ i \in 1 .. Len(q)
  BY PrefixByPosition
<1> HIDE DEF r
<1>2. QED
  BY <1>1 DEF Once, Range, r

LEMMA EmptyQueues ==
    /\ Once(<<>>) /\ NackedOnce(<<>>) /\ Range(<<>>) = {} /\ Nacks(<<>>) = {}
    /\ \A n : ReportsAtMost(<<>>, n) /\ ReportsGrow(<<>>, n)
BY DEF Once, NackedOnce, Range, Nacks, ReportsAtMost, ReportsGrow

\* The NACKs of a control stream.
LEMMA NackAppend ==
    ASSUME NEW q \in Seq(ControlMessage), NEW m \in ControlMessage, NackedOnce(q)
    PROVE  /\ m.type # "nack" => NackedOnce(Append(q, m)) /\ Nacks(Append(q, m)) = Nacks(q)
           /\ \A c \in Chunks \ Nacks(q) : m = ChunkNack(c) =>
                NackedOnce(Append(q, m)) /\ Nacks(Append(q, m)) = Nacks(q) \cup {c}
<1> DEFINE r == Append(q, m)
<1>1. /\ Len(q) \in Nat /\ DOMAIN q = 1 .. Len(q) /\ DOMAIN r = 1 .. Len(q) + 1
      /\ \A i \in 1 .. Len(q) : r[i] = q[i]
      /\ r[Len(q) + 1] = m
  BY AppendByPosition
<1> HIDE DEF r
<1>2. ASSUME m.type # "nack" PROVE NackedOnce(r) /\ Nacks(r) = Nacks(q)
  <2>1. \A c : m # ChunkNack(c)
    BY <1>2 DEF ChunkNack
  <2>2. Nacks(r) = Nacks(q)
    BY <1>1, <2>1 DEF Nacks
  <2>3. NackedOnce(r)
    BY <1>1, <1>2 DEF NackedOnce
  <2>4. QED
    BY <2>2, <2>3
<1>3. ASSUME NEW c \in Chunks \ Nacks(q), m = ChunkNack(c)
      PROVE  NackedOnce(r) /\ Nacks(r) = Nacks(q) \cup {c}
  <2>1. \A d : ChunkNack(d) = m <=> d = c
    BY <1>3 DEF ChunkNack
  <2>2. \A i \in 1 .. Len(q) : q[i] # m
    BY <1>1, <1>3 DEF Nacks
  <2>3. NackedOnce(r)
    BY <1>1, <2>2 DEF NackedOnce
  <2>4. Nacks(r) = Nacks(q) \cup {c}
    BY <1>1, <1>3, <2>1 DEF Nacks
  <2>5. QED
    BY <2>3, <2>4
<1>4. QED
  BY <1>2, <1>3 DEF r

LEMMA NackTail ==
    ASSUME NEW q \in Seq(ControlMessage), q # <<>>, NackedOnce(q)
    PROVE  /\ NackedOnce(Tail(q))
           /\ Head(q).type # "nack" => Nacks(Tail(q)) = Nacks(q)
           /\ Head(q).type = "nack" =>
                /\ Head(q).chunk \in Nacks(q)
                /\ Nacks(Tail(q)) = Nacks(q) \ {Head(q).chunk}
<1> DEFINE r == Tail(q)  m == Head(q)
<1>1. /\ Len(q) \in Nat \ {0} /\ DOMAIN q = 1 .. Len(q) /\ DOMAIN r = 1 .. Len(q) - 1
      /\ \A i \in 1 .. Len(q) - 1 : r[i] = q[i + 1] /\ i + 1 \in 1 .. Len(q)
      /\ m = q[1] /\ m \in ControlMessage
  BY TailByPosition
<1>2. \A i \in 1 .. Len(q) : i = 1 \/ (i - 1 \in 1 .. Len(q) - 1 /\ r[i - 1] = q[i])
  BY <1>1
<1> HIDE DEF r, m
<1>3. NackedOnce(r)
  BY <1>1 DEF NackedOnce
<1>4. ASSUME m.type # "nack" PROVE Nacks(r) = Nacks(q)
  <2>1. \A c : m # ChunkNack(c)
    BY <1>4 DEF ChunkNack
  <2>2. \A c \in Chunks : (\E i \in 1 .. Len(q) - 1 : r[i] = ChunkNack(c))
                             <=> \E i \in 1 .. Len(q) : q[i] = ChunkNack(c)
    BY <1>1, <1>2, <2>1
  <2>3. QED
    BY <1>1, <2>2 DEF Nacks
<1>5. ASSUME m.type = "nack" PROVE m.chunk \in Nacks(q) /\ Nacks(r) = Nacks(q) \ {m.chunk}
  <2>1. m.chunk \in Chunks /\ m = ChunkNack(m.chunk)
    BY <1>1, <1>5, MessagePayloads
  <2>2. m.chunk \in Nacks(q)
    BY <1>1, <2>1 DEF Nacks
  <2>3. \A c : ChunkNack(c) = m <=> c = m.chunk
    BY <2>1 DEF ChunkNack
  <2>4. \A i \in 1 .. Len(q) - 1 : r[i] # m
    BY <1>1, <1>5 DEF NackedOnce
  <2>5. \A c \in Chunks : (\E i \in 1 .. Len(q) - 1 : r[i] = ChunkNack(c))
                             <=> c # m.chunk /\ \E i \in 1 .. Len(q) : q[i] = ChunkNack(c)
    BY <1>1, <1>2, <2>3, <2>4
  <2>6. /\ Nacks(r) = {c \in Chunks : \E i \in 1 .. Len(q) - 1 : r[i] = ChunkNack(c)}
        /\ Nacks(q) = {c \in Chunks : \E i \in 1 .. Len(q) : q[i] = ChunkNack(c)}
    BY <1>1 DEF Nacks
  <2>7. Nacks(r) = Nacks(q) \ {m.chunk}
    BY <2>5, <2>6
  <2>8. QED
    BY <2>2, <2>7
<1>6. QED
  BY <1>3, <1>4, <1>5 DEF r, m

LEMMA NackPrefix ==
    ASSUME NEW q \in Seq(ControlMessage), NEW n \in 0 .. Len(q), NackedOnce(q)
    PROVE  NackedOnce(SubSeq(q, 1, n)) /\ Nacks(SubSeq(q, 1, n)) \subseteq Nacks(q)
<1> DEFINE r == SubSeq(q, 1, n)
<1>1. /\ DOMAIN q = 1 .. Len(q) /\ DOMAIN r = 1 .. n
      /\ \A i \in 1 .. n : r[i] = q[i] /\ i \in 1 .. Len(q)
  BY PrefixByPosition
<1> HIDE DEF r
<1>2. QED
  BY <1>1 DEF NackedOnce, Nacks, r

\* A loop that holds no chunk is not among the writers, and there is room for
\* it.
LEMMA WritersAppend ==
    ASSUME TypeOK, Once(writers), NEW l \in Loops, held[l] = None
    PROVE  /\ Append(writers, l) \in Seq(Loops) /\ Len(Append(writers, l)) <= 2
           /\ Once(Append(writers, l)) /\ Range(Append(writers, l)) = Range(writers) \cup {l}
<1>1. l \notin Range(writers) /\ writers \in Seq(Loops) /\ Len(writers) <= 2
  BY DEF TypeOK
<1>2. Len(writers) # 2
  <2> SUFFICES ASSUME Len(writers) = 2 PROVE FALSE
    OBVIOUS
  <2>1. /\ DOMAIN writers = 1 .. 2 /\ writers[1] \in Loops /\ writers[2] \in Loops
    BY <1>1
  <2>2. writers[1] # writers[2]
    BY <2>1 DEF Once
  <2>3. l # writers[1] /\ l # writers[2]
    BY <1>1, <2>1 DEF Range
  <2>4. QED
    BY <2>1, <2>2, <2>3 DEF Loops
<1>3. Once(Append(writers, l)) /\ Range(Append(writers, l)) = Range(writers) \cup {l}
  BY <1>1, OnceAppend
<1>4. Append(writers, l) \in Seq(Loops) /\ Len(Append(writers, l)) = Len(writers) + 1
      /\ Len(writers) \in Nat
  BY <1>1, AppendByPosition
<1>5. Len(Append(writers, l)) <= 2
  <2>1. Len(writers) <= 2
    BY <1>1
  <2>2. \A n \in Nat : n <= 2 /\ n # 2 => n + 1 <= 2
    OBVIOUS
  <2>3. QED
    BY <2>1, <2>2, <1>2, <1>4
<1>6. QED
  BY <1>3, <1>4, <1>5

\* Where the chunks are, before and after a step.
LEMMA WhereIs ==
    /\ Where["todo"] = toSend /\ Where["send"] = Chunk(held["send"])
    /\ Where["ctrl"] = Chunk(held["ctrl"]) /\ Where["fwd"] = Range(fwd)
    /\ Where["cur"] = Chunk(cur) /\ Where["nack"] = Nacks(back) /\ Where["done"] = done
    /\ Where'["todo"] = toSend' /\ Where'["send"] = Chunk(held'["send"])
    /\ Where'["ctrl"] = Chunk(held'["ctrl"]) /\ Where'["fwd"] = Range(fwd')
    /\ Where'["cur"] = Chunk(cur') /\ Where'["nack"] = Nacks(back') /\ Where'["done"] = done'
BY DEF Where

\* One chunk goes from a place to another, or chunks are lost.
Moved(c, p, q) ==
    /\ c \in Where[p] /\ Where'[p] = Where[p] \ {c}
    /\ Where'[q] = Where[q] \cup {c}
    /\ \A r \in Places \ {p, q} : Where'[r] = Where[r]
Lost == \A p \in Places : Where'[p] \subseteq Where[p]

LEMMA MovedKeeps ==
    ASSUME NEW c, NEW p \in Places, NEW q \in Places, p # q, Moved(c, p, q)
    PROVE  /\ Disjoint(Where) => Disjoint(Where')
           /\ Covers(Where) => Covers(Where')
<1>1. ASSUME Disjoint(Where), NEW r \in Places, NEW s \in Places, r # s
      PROVE  Where'[r] \cap Where'[s] = {}
  BY <1>1 DEF Moved, Disjoint
<1>2. ASSUME Covers(Where), NEW d \in Chunks PROVE \E r \in Places : d \in Where'[r]
  <2>1. PICK r \in Places : d \in Where[r]
    BY <1>2 DEF Covers
  <2>2. QED
    BY <2>1 DEF Moved
<1>3. QED
  BY <1>1, <1>2 DEF Disjoint, Covers

LEMMA LostKeeps == Lost /\ Disjoint(Where) => Disjoint(Where')
BY DEF Lost, Disjoint

\* A chunk on the stream is nowhere else, and the two loops hold different
\* chunks.
LEMMA Apart ==
    ASSUME Disjoint(Where)
    PROVE  /\ \A c \in Range(fwd) : c \notin done
           /\ held["send"] # held["ctrl"] \/ held["send"] = None
<1>1. /\ Where["fwd"] \cap Where["done"] = {}
      /\ Where["send"] \cap Where["ctrl"] = {}
  BY DEF Disjoint, Places
<1>2. /\ Range(fwd) \cap done = {}
      /\ Chunk(held["send"]) \cap Chunk(held["ctrl"]) = {}
  BY <1>1, WhereIs
<1>3. QED
  BY <1>2 DEF Chunk

-----------------------------------------------------------------------------
(* Type correctness.                                                        *)

TypeInv == TypeOK /\ Once(writers) /\ CountInv

LEMMA InitInv == Init => Inv
<1> SUFFICES ASSUME Init PROVE Inv
  OBVIOUS
<1>1. TypeOK
  <2>1. /\ fwd \in Seq(Chunks) /\ Len(fwd) <= Forward /\ back \in Seq(ControlMessage)
        /\ Len(back) <= Back /\ writers \in Seq(Loops) /\ Len(writers) <= 2
        /\ Range(writers) = {}
    BY RelayTransferAssumption, EmptyQueues DEF Init
  <2>2. /\ faults \in 0 .. MaxFaults /\ bar \in 0 .. ChunkCount /\ confirmed \in 0 .. ChunkCount
    BY RelayTransferAssumption DEF Init
  <2>3. QED
    BY <2>1, <2>2 DEF Init, TypeOK, SenderStates, ReceiverStates
<1>2. Once(writers) /\ StartInv /\ CountInv
  BY EmptyQueues, FS_EmptySet DEF Init, StartInv, CountInv
<1>3. PlacesInv
  <2>1. \A p \in Places : Where[p] = {}
    BY WhereIs, EmptyQueues DEF Init, Places, Chunk, Loops
  <2>2. QED
    BY <2>1, EmptyQueues DEF Init, PlacesInv, Disjoint
<1>4. QED
  BY <1>1, <1>2, <1>3 DEF Inv

\* What the next chunk and the next message are.
LEMMA NextOnStream ==
    ASSUME TypeOK
    PROVE  /\ fwd # <<>> => Head(fwd) \in Chunks /\ Tail(fwd) \in Seq(Chunks)
                            /\ Len(Tail(fwd)) <= Forward /\ Head(fwd) \in Range(fwd)
           /\ back # <<>> => Head(back) \in ControlMessage /\ Tail(back) \in Seq(ControlMessage)
                             /\ Len(Tail(back)) <= Back
<1>t. /\ fwd \in Seq(Chunks) /\ Len(fwd) <= Forward
      /\ back \in Seq(ControlMessage) /\ Len(back) <= Back
  BY DEF TypeOK
<1>1. ASSUME fwd # <<>>
      PROVE  Head(fwd) \in Chunks /\ Tail(fwd) \in Seq(Chunks)
             /\ Len(Tail(fwd)) <= Forward /\ Head(fwd) \in Range(fwd)
  <2>1. /\ Tail(fwd) \in Seq(Chunks) /\ Len(Tail(fwd)) = Len(fwd) - 1 /\ Len(fwd) \in Nat \ {0}
        /\ Head(fwd) = fwd[1] /\ Head(fwd) \in Chunks /\ 1 \in DOMAIN fwd
    BY <1>1, <1>t, TailByPosition
  <2>2. QED
    BY <1>t, <2>1, RelayTransferAssumption DEF Range
<1>2. ASSUME back # <<>>
      PROVE  Head(back) \in ControlMessage /\ Tail(back) \in Seq(ControlMessage)
             /\ Len(Tail(back)) <= Back
  <2>1. /\ Tail(back) \in Seq(ControlMessage) /\ Len(Tail(back)) = Len(back) - 1
        /\ Len(back) \in Nat \ {0} /\ Head(back) \in ControlMessage
    BY <1>2, <1>t, TailByPosition
  <2>2. QED
    BY <1>t, <2>1, RelayTransferAssumption
<1>3. QED
  BY <1>1, <1>2

\* A loop that asks for the write half, and one that has written.
LEMMA EnqueueKeeps ==
    ASSUME TypeOK, Once(writers), NEW l \in Loops, NEW c \in Chunks, held[l] = None, Enqueue(l, c)
    PROVE  /\ writers' \in Seq(Loops) /\ Len(writers') <= 2 /\ Once(writers')
           /\ held' \in [Loops -> Chunks \cup {None}]
           /\ \A k \in Loops : held'[k] # None <=> k \in Range(writers')
<1>1. /\ held \in [Loops -> Chunks \cup {None}]
      /\ \A k \in Loops : held[k] # None <=> k \in Range(writers)
  BY DEF TypeOK
<1>2. /\ writers' \in Seq(Loops) /\ Len(writers') <= 2 /\ Once(writers')
      /\ Range(writers') = Range(writers) \cup {l} /\ held' = [held EXCEPT ![l] = c]
  BY WritersAppend DEF Enqueue
<1>3. QED
  BY <1>1, <1>2, NoneIsNoChunk

\* The first writer gives the write half away.
LEMMA DequeueKeeps ==
    ASSUME TypeOK, Once(writers), writers # <<>>,
           writers' = Tail(writers), held' = [held EXCEPT ![Head(writers)] = None]
    PROVE  /\ writers' \in Seq(Loops) /\ Len(writers') <= 2 /\ Once(writers')
           /\ held' \in [Loops -> Chunks \cup {None}]
           /\ \A k \in Loops : held'[k] # None <=> k \in Range(writers')
           /\ Head(writers) \in Loops /\ held[Head(writers)] \in Chunks
<1>1. /\ held \in [Loops -> Chunks \cup {None}] /\ writers \in Seq(Loops) /\ Len(writers) <= 2
      /\ \A k \in Loops : held[k] # None <=> k \in Range(writers)
  BY DEF TypeOK
<1>2. /\ Tail(writers) \in Seq(Loops) /\ Len(Tail(writers)) = Len(writers) - 1
      /\ Len(writers) \in Nat /\ Head(writers) \in Loops
  BY <1>1, TailByPosition
<1>3. /\ Once(writers') /\ Range(writers') = Range(writers) \ {Head(writers)}
      /\ Head(writers) \in Range(writers)
  BY <1>1, OnceTail
<1>4. Len(writers') <= 2
  BY <1>1, <1>2
<1>5. QED
  BY <1>1, <1>2, <1>3, <1>4

LEMMA LeavingTypes ==
    /\ <<>> \in Seq(Loops) /\ Len(<<>>) <= 2 /\ Once(<<>>) /\ Range(<<>>) = {}
    /\ [l \in Loops |-> None] \in [Loops -> Chunks \cup {None}]
BY EmptyQueues

\* The actions of the sender.
LEMMA SenderKeepsTypes ==
    ASSUME Inv, CtrlLoop \/ SendLoop \/ Sender \/ SenderReadError
    PROVE  TypeInv'
<1>i. TypeOK /\ Once(writers) /\ CountInv
  BY DEF Inv
<1>n. /\ fwd # <<>> => Head(fwd) \in Chunks /\ Tail(fwd) \in Seq(Chunks)
      /\ back # <<>> => Head(back) \in ControlMessage /\ Tail(back) \in Seq(ControlMessage)
                        /\ Len(Tail(back)) <= Back
  BY <1>i, NextOnStream
<1> USE <1>i, RelayTransferAssumption DEF TypeInv, CountInv, net, rcv, file
<1>1. CASE CtrlProgress
  BY <1>1, <1>n, MessagePayloads DEF CtrlProgress, CtrlRecv, TypeOK
<1>2. CASE CtrlNack
  <2>1. Head(back).chunk \in Chunks /\ held["ctrl"] = None /\ Enqueue("ctrl", Head(back).chunk)
    BY <1>2, <1>n, MessagePayloads DEF CtrlNack, CtrlRecv
  <2>2. /\ writers' \in Seq(Loops) /\ Len(writers') <= 2 /\ Once(writers')
        /\ held' \in [Loops -> Chunks \cup {None}]
        /\ \A k \in Loops : held'[k] # None <=> k \in Range(writers')
    BY <2>1, EnqueueKeeps DEF Loops
  <2>3. QED
    BY <1>2, <1>n, <2>2 DEF CtrlNack, CtrlRecv, TypeOK
<1>3. CASE CtrlComplete
  BY <1>3, <1>n DEF CtrlComplete, CtrlRecv, TypeOK
<1>4. CASE SendNext
  <2>1. PICK c \in toSend : Enqueue("send", c) /\ toSend' = toSend \ {c}
    BY <1>4 DEF SendNext
  <2>2. c \in Chunks /\ held["send"] = None
    BY <1>4 DEF SendNext, TypeOK
  <2>3. /\ writers' \in Seq(Loops) /\ Len(writers') <= 2 /\ Once(writers')
        /\ held' \in [Loops -> Chunks \cup {None}]
        /\ \A k \in Loops : held'[k] # None <=> k \in Range(writers')
    BY <2>1, <2>2, EnqueueKeeps DEF Loops
  <2>4. QED
    BY <1>4, <2>1, <2>3 DEF SendNext, TypeOK
<1>5. CASE WriteChunk
  <2>1. /\ writers # <<>> /\ writers' = Tail(writers)
        /\ held' = [held EXCEPT ![Head(writers)] = None]
        /\ fwd' = Append(fwd, held[Head(writers)]) /\ Len(fwd) < Forward
    BY <1>5 DEF WriteChunk
  <2>2. /\ writers' \in Seq(Loops) /\ Len(writers') <= 2 /\ Once(writers')
        /\ held' \in [Loops -> Chunks \cup {None}]
        /\ \A k \in Loops : held'[k] # None <=> k \in Range(writers')
        /\ held[Head(writers)] \in Chunks
    BY <2>1, DequeueKeeps
  <2>3. fwd' \in Seq(Chunks) /\ Len(fwd') <= Forward
    <3>1. fwd \in Seq(Chunks)
      BY DEF TypeOK
    <3>2. fwd' \in Seq(Chunks) /\ Len(fwd') = Len(fwd) + 1 /\ Len(fwd) \in Nat
      BY <2>1, <2>2, <3>1, AppendByPosition
    <3>3. QED
      BY <2>1, <3>2
  <2>4. QED
    BY <1>5, <2>2, <2>3 DEF WriteChunk, TypeOK
<1>6. CASE SendManifest
  BY <1>6 DEF SendManifest, TypeOK, SenderStates
<1>7. CASE RecvReply
  <2> DEFINE skip == IF Head(back).type = "resume" THEN Head(back).have ELSE {}
  <2>1. skip \in SUBSET Chunks
    BY <1>7, <1>n, MessagePayloads DEF RecvReply
  <2>2. Cardinality(skip) \in 0 .. ChunkCount
    BY <2>1, ChunkSets
  <2>3. /\ toSend' = Chunks \ skip /\ bar' = Cardinality(skip) /\ spc' = "run"
        /\ back # <<>> /\ back' = Tail(back)
        /\ UNCHANGED <<faults, left, cut, offered, fwd, writers, held, ctrlDone, rcv, file, saved>>
    BY <1>7, Zenon DEF RecvReply
  <2> HIDE DEF skip
  <2>4. QED
    BY <1>n, <2>2, <2>3 DEF TypeOK, SenderStates
<1>8. CASE SendFinish \/ SenderConnError \/ SenderReadError
  <2>1. /\ \E s \in {"done", "err"} : SenderLeaves(s)
        /\ faults' \in 0 .. MaxFaults
        /\ UNCHANGED <<cut, offered, fwd, back, rcv, file, saved>>
    BY <1>8 DEF SendFinish, SenderConnError, SenderReadError, Fault, TypeOK
  <2>2. QED
    BY <2>1, LeavingTypes DEF SenderLeaves, TypeOK, SenderStates, Sides
<1>9. QED
  BY <1>1, <1>2, <1>3, <1>4, <1>5, <1>6, <1>7, <1>8 DEF CtrlLoop, SendLoop, Sender

LEMMA SendCtrlTypes ==
    ASSUME TypeOK, NEW m \in ControlMessage, NEW next, SendCtrl(m, next)
    PROVE  back' \in Seq(ControlMessage) /\ Len(back') <= Back /\ rpc' = next
<1>1. /\ back \in Seq(ControlMessage) /\ back' = Append(back, m) /\ Len(back) < Back /\ rpc' = next
  BY DEF TypeOK, SendCtrl
<1>2. back' \in Seq(ControlMessage) /\ Len(back') = Len(back) + 1 /\ Len(back) \in Nat
  BY <1>1, AppendByPosition
<1>3. QED
  BY <1>1, <1>2, RelayTransferAssumption

\* The actions of the receiver.
LEMMA ReceiverKeepsTypes ==
    ASSUME Inv, Receiver \/ ReadDamaged \/ DiskError
    PROVE  TypeInv'
<1>i. TypeOK /\ Once(writers) /\ CountInv /\ Disjoint(Where)
  BY DEF Inv, PlacesInv
<1>n. /\ fwd # <<>> => Head(fwd) \in Chunks /\ Tail(fwd) \in Seq(Chunks)
                       /\ Len(Tail(fwd)) <= Forward /\ Head(fwd) \in Range(fwd)
  BY <1>i, NextOnStream
<1> USE <1>i, RelayTransferAssumption DEF TypeInv, CountInv, net, snd, file
<1>1. CASE Negotiate
  <2> DEFINE m == IF saved # {} THEN ResumeRequest(saved) ELSE Ack
  <2>1. m \in ControlMessage /\ saved \subseteq Chunks
    BY MessageTypes DEF TypeOK
  <2>2. /\ done' = saved /\ SendCtrl(m, AfterLoop(saved)) /\ confirmed' = Cardinality(done')
        /\ disk' \in {disk, {}} /\ rpc = "hello"
        /\ UNCHANGED <<faults, left, cut, offered, fwd, snd, cur, tail, saved>>
    BY <1>1, Zenon DEF Negotiate
  <2> HIDE DEF m
  <2>3. back' \in Seq(ControlMessage) /\ Len(back') <= Back /\ rpc' = AfterLoop(saved)
    BY <2>1, <2>2, SendCtrlTypes
  <2>4. confirmed' \in 0 .. ChunkCount
    BY <2>1, <2>2, ChunkSets
  <2>5. QED
    BY <2>1, <2>2, <2>3, <2>4 DEF TypeOK, AfterLoop, ReceiverStates
<1>2. CASE ReadChunk
  <2>1. Head(fwd) \in Chunks \ done
    BY <1>2, <1>n, Apart DEF ReadChunk
  <2>2. /\ Cardinality(done \cup {Head(fwd)}) = Cardinality(done) + 1
        /\ Cardinality(done \cup {Head(fwd)}) \in 0 .. ChunkCount
    BY <2>1, ChunkSets DEF TypeOK
  <2>3. QED
    BY <1>2, <1>n, <2>1, <2>2 DEF ReadChunk, TypeOK, ReceiverStates
<1>3. CASE SendNack
  <2>1. cur \in Chunks /\ ChunkNack(cur) \in ControlMessage
    BY <1>3, MessageTypes DEF SendNack, TypeOK
  <2>2. back' \in Seq(ControlMessage) /\ Len(back') <= Back /\ rpc' = "read"
    BY <1>3, <2>1, SendCtrlTypes DEF SendNack
  <2>3. QED
    BY <1>3, <2>2 DEF SendNack, TypeOK, ReceiverStates
<1>4. CASE Report
  <2> DEFINE next == IF Cardinality(done) % SaveInterval = 0 THEN "save" ELSE AfterLoop(done)
  <2>1. /\ SendCtrl(Progress(confirmed), next) /\ rpc = "report"
        /\ UNCHANGED <<faults, left, cut, offered, fwd, snd, cur, done, confirmed, file, saved>>
    BY <1>4, Zenon DEF Report
  <2>2. next \in {"save", "final", "read"}
    BY DEF AfterLoop
  <2>3. Progress(confirmed) \in ControlMessage
    BY MessageTypes DEF TypeOK
  <2> HIDE DEF next
  <2>4. back' \in Seq(ControlMessage) /\ Len(back') <= Back /\ rpc' = next
    BY <2>1, <2>3, SendCtrlTypes
  <2>5. QED
    BY <2>1, <2>2, <2>4 DEF TypeOK, ReceiverStates
<1>5. CASE SaveState
  BY <1>5 DEF SaveState, TypeOK, AfterLoop, ReceiverStates
<1>6. CASE SendComplete
  <2>1. back' \in Seq(ControlMessage) /\ Len(back') <= Back /\ rpc' = "cleanup"
    BY <1>6, MessageTypes, SendCtrlTypes DEF SendComplete
  <2>2. QED
    BY <1>6, <2>1 DEF SendComplete, TypeOK, ReceiverStates
<1>7. CASE Cleanup \/ ReceiverConnError \/ DiskError
  <2>1. /\ \E s \in {"done", "err"} : ReceiverLeaves(s)
        /\ faults' \in 0 .. MaxFaults /\ saved' \in {saved, {}}
        /\ UNCHANGED <<cut, offered, fwd, back, snd, file>>
    BY <1>7 DEF Cleanup, ReceiverConnError, DiskError, Fault, TypeOK
  <2>2. QED
    BY <2>1 DEF ReceiverLeaves, TypeOK, ReceiverStates, Sides
<1>8. CASE ReadDamaged
  BY <1>8, <1>n, NoneIsNoChunk DEF ReadDamaged, Fault, TypeOK, ReceiverStates
<1>9. QED
  BY <1>1, <1>2, <1>3, <1>4, <1>5, <1>6, <1>7, <1>8 DEF Receiver

\* The blocking pool, the relay and the environment.
LEMMA OthersKeepTypes ==
    ASSUME Inv, Land \/ RelayBreaks \/ Reset \/ Quit \/ UNCHANGED vars
    PROVE  TypeInv'
<1>i. TypeOK /\ Once(writers) /\ CountInv
  BY DEF Inv
<1> USE <1>i, RelayTransferAssumption DEF TypeInv, CountInv, net, snd, rcv, file
<1>1. CASE Land
  BY <1>1 DEF Land, TypeOK
<1>2. CASE RelayBreaks
  BY <1>2 DEF RelayBreaks, TypeOK
<1>3. CASE Reset
  <2>1. PICK i \in 0 .. Len(fwd), j \in 0 .. Len(back) :
            fwd' = SubSeq(fwd, 1, i) /\ back' = SubSeq(back, 1, j)
    BY <1>3 DEF Reset
  <2>2. /\ fwd' \in Seq(Chunks) /\ Len(fwd') <= Forward
        /\ back' \in Seq(ControlMessage) /\ Len(back') <= Back
    <3>1. fwd \in Seq(Chunks) /\ Len(fwd) <= Forward /\ back \in Seq(ControlMessage) /\ Len(back) <= Back
      BY DEF TypeOK
    <3>2. fwd' \in Seq(Chunks) /\ Len(fwd') = i /\ Len(fwd) \in Nat
      BY <2>1, <3>1, PrefixByPosition
    <3>3. back' \in Seq(ControlMessage) /\ Len(back') = j /\ Len(back) \in Nat
      BY <2>1, <3>1, PrefixByPosition
    <3>4. QED
      BY <3>1, <3>2, <3>3
  <2>3. QED
    BY <1>3, <2>2 DEF Reset, Fault, TypeOK
<1>4. CASE Quit
  <2>1. /\ \/ SenderLeaves("err") /\ UNCHANGED <<rcv, tail>>
           \/ ReceiverLeaves("err") /\ tail' = None /\ UNCHANGED snd
        /\ faults' \in 0 .. MaxFaults
        /\ UNCHANGED <<cut, offered, fwd, back, disk, saved>>
    BY <1>4 DEF Quit, Fault, TypeOK
  <2>2. CASE SenderLeaves("err") /\ UNCHANGED <<rcv, tail>>
    BY <2>1, <2>2, LeavingTypes DEF SenderLeaves, TypeOK, SenderStates, Sides
  <2>3. CASE ReceiverLeaves("err") /\ tail' = None /\ UNCHANGED snd
    BY <2>1, <2>3 DEF ReceiverLeaves, TypeOK, ReceiverStates, Sides
  <2>4. QED
    BY <2>1, <2>2, <2>3
<1>5. CASE UNCHANGED vars
  BY <1>5 DEF vars, TypeOK
<1>6. QED
  BY <1>1, <1>2, <1>3, <1>4, <1>5

-----------------------------------------------------------------------------
(* One place for each chunk.                                                *)

Standing == spc = "run" /\ ~cut /\ left = {}

LEMMA MovedPlaces ==
    ASSUME PlacesInv, NEW c, NEW p \in Places, NEW q \in Places, p # q, Moved(c, p, q),
           Once(fwd)', NackedOnce(back)', UNCHANGED <<spc, cut, left>>
    PROVE  PlacesInv'
<1>1. Disjoint(Where') /\ (Covers(Where) => Covers(Where'))
  BY MovedKeeps DEF PlacesInv
<1>2. QED
  BY <1>1 DEF PlacesInv

LEMMA LostPlaces ==
    ASSUME PlacesInv, Lost, Once(fwd)', NackedOnce(back)',
           Standing' => Standing /\ \A p \in Places : Where'[p] = Where[p]
    PROVE  PlacesInv'
<1>1. Disjoint(Where')
  BY LostKeeps DEF PlacesInv
<1>2. Standing' => Covers(Where')
  BY DEF PlacesInv, Standing, Covers
<1>3. QED
  BY <1>1, <1>2 DEF PlacesInv, Standing

\* Before the reply, a chunk that is anywhere is accepted.
LEMMA StartPlaces ==
    ASSUME TypeOK, StartInv, spc \in {"offer", "reply"}
    PROVE  /\ toSend = {} /\ writers = <<>> /\ fwd = <<>> /\ cur = None
           /\ \A l \in Loops : held[l] = None
           /\ Nacks(back) = {}
<1>1. /\ toSend = {} /\ writers = <<>> /\ fwd = <<>> /\ rpc # "nack"
      /\ \A i \in DOMAIN back : IF i = 1 THEN Answers(back[i]) ELSE back[i] = Complete
  BY DEF StartInv
<1>2. cur = None /\ \A l \in Loops : held[l] = None
  BY <1>1, EmptyQueues DEF TypeOK
<1>3. \A i \in DOMAIN back : back[i].type # "nack"
  BY <1>1 DEF Answers, Complete
<1>4. Nacks(back) = {}
  BY <1>3 DEF Nacks, ChunkNack
<1>5. QED
  BY <1>1, <1>2, <1>4

\* The sender's actions before the two loops run, and when they have ended.
LEMMA SenderCallKeepsPlaces ==
    ASSUME Inv, SendManifest \/ RecvReply \/ SendFinish \/ SenderConnError \/ SenderReadError
    PROVE  StartInv' /\ PlacesInv'
<1>i. TypeOK /\ StartInv /\ PlacesInv /\ Once(fwd) /\ NackedOnce(back)
  BY DEF Inv, PlacesInv
<1> USE <1>i DEF rcv, file, net
<1>1. CASE SendManifest
  <2>1. StartInv'
    BY <1>1 DEF SendManifest, StartInv, Answers
  <2>2. \A p \in Places : Where'[p] = Where[p]
    BY <1>1 DEF SendManifest, Where
  <2>3. ~Standing'
    BY <1>1 DEF SendManifest, Standing
  <2>4. QED
    BY <1>1, <2>1, <2>2, <2>3, LostPlaces DEF SendManifest, Lost
<1>2. CASE RecvReply
  <2> DEFINE skip == IF Head(back).type = "resume" THEN Head(back).have ELSE {}
  <2>1. /\ toSend' = Chunks \ skip /\ spc' = "run" /\ spc = "reply"
        /\ back # <<>> /\ back' = Tail(back)
        /\ UNCHANGED <<left, cut, fwd, writers, held, rcv, file>>
    BY <1>2, Zenon DEF RecvReply
  <2>2. skip = done /\ rpc # "hello"
    <3>1. back \in Seq(ControlMessage) /\ back # <<>>
      BY <2>1 DEF TypeOK
    <3>2. Head(back) = back[1] /\ 1 \in DOMAIN back
      BY <3>1, TailByPosition
    <3>3. Answers(Head(back)) /\ rpc # "hello"
      BY <2>1, <3>2 DEF StartInv
    <3>4. QED
      BY <3>3 DEF Answers
  <2> HIDE DEF skip
  <2>3. StartInv'
    BY <2>1, <2>2 DEF StartInv
  <2>4. NackedOnce(back)' /\ Nacks(back') = {}
    <3>1. NackedOnce(Tail(back)) /\ Nacks(Tail(back)) \subseteq Nacks(back)
      BY <2>1, NackTail DEF TypeOK
    <3>2. QED
      BY <2>1, <3>1, StartPlaces
  <2>5. \A p \in Places : Where'[p] = IF p = "done" THEN done
                                      ELSE IF p = "todo" THEN Chunks \ done ELSE {}
    <3>1. /\ Where'["todo"] = Chunks \ done /\ Where'["done"] = done /\ Where'["fwd"] = {}
          /\ Where'["cur"] = {} /\ Where'["nack"] = {}
          /\ Where'["send"] = {} /\ Where'["ctrl"] = {}
      BY <2>1, <2>2, <2>4, WhereIs, StartPlaces, EmptyQueues DEF Chunk, Loops
    <3>2. QED
      BY <3>1 DEF Places
  <2>6. Disjoint(Where') /\ Covers(Where')
    <3>1. Disjoint(Where')
      BY <2>5 DEF Disjoint
    <3>2. Covers(Where')
      <4>1. "done" \in Places /\ "todo" \in Places
        BY DEF Places
      <4>2. QED
        BY <2>5, <4>1 DEF Covers
    <3>3. QED
      BY <3>1, <3>2
  <2>7. Once(fwd)'
    BY <2>1
  <2>8. QED
    BY <2>3, <2>4, <2>6, <2>7 DEF PlacesInv
<1>3. CASE SendFinish \/ SenderConnError \/ SenderReadError
  <2>1. /\ \E s \in {"done", "err"} : SenderLeaves(s)
        /\ UNCHANGED <<cut, fwd, back, rcv, file>>
    BY <1>3 DEF SendFinish, SenderConnError, SenderReadError
  <2>2. StartInv'
    BY <1>3, <2>1 DEF SenderLeaves, StartInv, SendFinish, SenderConnError, SenderReadError
  <2>3. Lost
    <3>1. /\ Where'["todo"] = {} /\ Where'["send"] = {} /\ Where'["ctrl"] = {}
          /\ Where'["fwd"] = Where["fwd"] /\ Where'["cur"] = Where["cur"]
          /\ Where'["nack"] = Where["nack"] /\ Where'["done"] = Where["done"]
      BY <2>1, WhereIs DEF SenderLeaves, Loops, Chunk
    <3>2. QED
      BY <3>1 DEF Lost, Places
  <2>4. ~Standing'
    BY <2>1 DEF SenderLeaves, Standing
  <2>5. QED
    BY <2>1, <2>2, <2>3, <2>4, LostPlaces
<1>4. QED
  BY <1>1, <1>2, <1>3

\* The sender's two loops.
LEMMA LoopsKeepPlaces ==
    ASSUME Inv, CtrlLoop \/ SendLoop
    PROVE  StartInv' /\ PlacesInv'
<1>i. TypeOK /\ Once(writers) /\ StartInv /\ PlacesInv /\ Once(fwd) /\ NackedOnce(back)
      /\ Disjoint(Where)
  BY DEF Inv, PlacesInv
<1>s. spc = "run" /\ spc' = "run" /\ UNCHANGED <<cut, left, rcv, file>>
  BY DEF CtrlLoop, CtrlProgress, CtrlNack, CtrlComplete, CtrlRecv, SendLoop, SendNext, WriteChunk,
         net
<1>r. StartInv'
  BY <1>i, <1>s DEF StartInv, rcv, file
<1>n. /\ back \in Seq(ControlMessage) /\ fwd \in Seq(Chunks)
      /\ back # <<>> => Head(back) \in ControlMessage
      /\ held \in [Loops -> Chunks \cup {None}]
  BY <1>i, NextOnStream DEF TypeOK
<1> USE <1>i DEF rcv
<1>1. CASE CtrlProgress \/ CtrlComplete
  <2>1. /\ back # <<>> /\ Head(back).type # "nack" /\ back' = Tail(back)
        /\ UNCHANGED <<fwd, toSend, held>>
    BY <1>1 DEF CtrlProgress, CtrlComplete, CtrlRecv
  <2>2. NackedOnce(back)' /\ Nacks(back') = Nacks(back)
    BY <1>n, <2>1, NackTail
  <2>3. \A p \in Places : Where'[p] = Where[p]
    BY <1>s, <2>1, <2>2 DEF Where
  <2>4. QED
    BY <1>s, <1>r, <2>1, <2>2, <2>3, LostPlaces DEF Lost, Standing
<1>2. CASE CtrlNack
  <2> DEFINE c == Head(back).chunk
  <2>1. /\ back # <<>> /\ Head(back).type = "nack" /\ back' = Tail(back)
        /\ held["ctrl"] = None /\ held' = [held EXCEPT !["ctrl"] = c]
        /\ UNCHANGED <<fwd, toSend>>
    BY <1>2 DEF CtrlNack, CtrlRecv, Enqueue
  <2>2. /\ NackedOnce(back)' /\ c \in Nacks(back) /\ Nacks(back') = Nacks(back) \ {c}
    BY <1>n, <2>1, NackTail
  <2>3. c \in Chunks
    BY <2>2 DEF Nacks
  <2> HIDE DEF c
  <2>4. Moved(c, "nack", "ctrl")
    <3>1. /\ held'["ctrl"] = c /\ held'["send"] = held["send"] /\ c # None
      BY <1>n, <2>1, <2>3, NoneIsNoChunk DEF Loops
    <3>2. /\ c \in Where["nack"] /\ Where'["nack"] = Where["nack"] \ {c}
          /\ Where'["ctrl"] = Where["ctrl"] \cup {c}
      BY <2>1, <2>2, <3>1, WhereIs DEF Chunk
    <3>3. /\ Where'["todo"] = Where["todo"] /\ Where'["send"] = Where["send"]
          /\ Where'["fwd"] = Where["fwd"] /\ Where'["cur"] = Where["cur"]
          /\ Where'["done"] = Where["done"]
      BY <1>s, <2>1, <3>1, WhereIs
    <3>4. QED
      BY <3>2, <3>3 DEF Moved, Places
  <2>5. QED
    BY <1>s, <1>r, <2>1, <2>2, <2>4, MovedPlaces DEF Places
<1>3. CASE SendNext
  <2>1. PICK c \in toSend : /\ held["send"] = None /\ held' = [held EXCEPT !["send"] = c]
                            /\ toSend' = toSend \ {c} /\ UNCHANGED <<fwd, back>>
    BY <1>3 DEF SendNext, Enqueue, net
  <2>2. c \in Chunks
    BY DEF TypeOK
  <2>3. Moved(c, "todo", "send")
    <3>1. /\ held'["send"] = c /\ held'["ctrl"] = held["ctrl"] /\ c # None
      BY <1>n, <2>1, <2>2, NoneIsNoChunk DEF Loops
    <3>2. /\ c \in Where["todo"] /\ Where'["todo"] = Where["todo"] \ {c}
          /\ Where'["send"] = Where["send"] \cup {c}
      BY <2>1, <3>1, WhereIs DEF Chunk
    <3>3. /\ Where'["nack"] = Where["nack"] /\ Where'["ctrl"] = Where["ctrl"]
          /\ Where'["fwd"] = Where["fwd"] /\ Where'["cur"] = Where["cur"]
          /\ Where'["done"] = Where["done"]
      BY <1>s, <2>1, <3>1, WhereIs
    <3>4. QED
      BY <3>2, <3>3 DEF Moved, Places
  <2>4. QED
    BY <1>s, <1>r, <2>1, <2>3, MovedPlaces DEF Places
<1>4. CASE WriteChunk
  <2> DEFINE l == Head(writers)  c == held[l]
  <2>1. /\ writers # <<>> /\ writers' = Tail(writers) /\ held' = [held EXCEPT ![l] = None]
        /\ fwd' = Append(fwd, c) /\ UNCHANGED <<back, toSend>>
    BY <1>4 DEF WriteChunk
  <2>2. l \in Loops /\ c \in Chunks
    BY <2>1, DequeueKeeps
  <2>3. /\ held[l] # None /\ held'[l] = None /\ \A k \in Loops \ {l} : held'[k] = held[k]
    BY <1>n, <2>1, <2>2, NoneIsNoChunk
  <2> HIDE DEF l
  <2>4. l = "send" \/ l = "ctrl"
    BY <2>2 DEF Loops
  <2>5. c \in Where[l] /\ Where'[l] = Where[l] \ {c}
    BY <2>3, <2>4, WhereIs DEF Chunk
  <2>6. c \notin Range(fwd)
    <3>1. Where[l] \cap Where["fwd"] = {}
      BY <2>4 DEF Disjoint, Places
    <3>2. QED
      BY <2>5, <3>1, WhereIs
  <2>7. Once(fwd)' /\ Range(fwd') = Range(fwd) \cup {c}
    BY <1>n, <2>1, <2>2, <2>6, OnceAppend
  <2>8. Moved(c, l, "fwd")
    <3>1. Where'["fwd"] = Where["fwd"] \cup {c}
      BY <2>7, WhereIs
    <3>2. /\ Where'["todo"] = Where["todo"] /\ Where'["cur"] = Where["cur"]
          /\ Where'["nack"] = Where["nack"] /\ Where'["done"] = Where["done"]
          /\ \A k \in Loops \ {l} : Where'[k] = Where[k]
      BY <1>s, <2>1, <2>3, WhereIs DEF Loops
    <3>3. QED
      BY <2>4, <2>5, <3>1, <3>2 DEF Moved, Places, Loops
  <2> HIDE DEF c
  <2>9. QED
    BY <1>s, <1>r, <2>1, <2>4, <2>7, <2>8, MovedPlaces DEF Places
<1>5. QED
  BY <1>1, <1>2, <1>3, <1>4 DEF CtrlLoop, SendLoop

\* The receiver's actions.
LEMMA ReceiverKeepsPlaces ==
    ASSUME Inv, Receiver \/ ReadDamaged \/ DiskError
    PROVE  StartInv' /\ PlacesInv'
<1>i. TypeOK /\ StartInv /\ PlacesInv /\ Once(fwd) /\ NackedOnce(back) /\ Disjoint(Where)
  BY DEF Inv, PlacesInv
<1>n. /\ back \in Seq(ControlMessage) /\ fwd \in Seq(Chunks)
      /\ fwd # <<>> => Head(fwd) \in Chunks
  BY <1>i, NextOnStream DEF TypeOK
<1> USE <1>i DEF snd, net, file
<1>1. CASE Negotiate
  <2> DEFINE m == IF saved # {} THEN ResumeRequest(saved) ELSE Ack
  <2>1. /\ done' = saved /\ rpc' = AfterLoop(saved) /\ back' = Append(back, m) /\ rpc = "hello"
        /\ UNCHANGED <<left, cut, fwd, snd, cur>>
    BY <1>1, Zenon DEF Negotiate, SendCtrl
  <2>2. /\ m \in ControlMessage /\ m.type \in {"ack", "resume"}
        /\ saved = IF m.type = "resume" THEN m.have ELSE {}
    BY MessageTypes DEF Ack, ResumeRequest, TypeOK
  <2> HIDE DEF m
  <2>3. spc \in {"offer", "reply", "err"} /\ back = <<>> /\ fwd = <<>> /\ done = {} /\ cur = None
        /\ rpc' \notin {"hello", "nack", "report"}
    BY <2>1 DEF StartInv, AfterLoop, TypeOK
  <2>4. /\ DOMAIN back' = 1 .. 1 /\ back'[1] = m
    BY <2>1, <2>3
  <2>5. StartInv'
    <3>1. \A i \in DOMAIN back' : i = 1 /\ Answers(back[i])'
      BY <2>1, <2>2, <2>4 DEF Answers
    <3>2. QED
      BY <2>1, <2>3, <3>1 DEF StartInv
  <2>6. NackedOnce(back)' /\ Nacks(back') = {}
    BY <2>1, <2>2, <2>3, NackAppend, EmptyQueues, <1>n
  <2>7. \A p \in Places : Where'[p] = IF p = "done" THEN saved ELSE {}
    <3>1. toSend = {} /\ \A l \in Loops : held[l] = None
      <4>1. toSend = {} /\ writers = <<>>
        BY <2>3 DEF StartInv
      <4>2. QED
        BY <4>1, EmptyQueues DEF TypeOK
    <3>2. /\ Where'["todo"] = {} /\ Where'["done"] = saved /\ Where'["fwd"] = {}
          /\ Where'["cur"] = {} /\ Where'["nack"] = {}
          /\ Where'["send"] = {} /\ Where'["ctrl"] = {}
      BY <2>1, <2>3, <2>6, <3>1, WhereIs, EmptyQueues DEF Chunk, Loops
    <3>3. QED
      BY <3>2 DEF Places
  <2>8. Disjoint(Where')
    BY <2>7 DEF Disjoint
  <2>9. spc' # "run"
    BY <2>1, <2>3
  <2>10. Once(fwd)'
    BY <2>1
  <2>11. QED
    BY <2>5, <2>6, <2>8, <2>9, <2>10 DEF PlacesInv
<1>2. CASE ReadChunk
  <2> DEFINE c == Head(fwd)
  <2>1. /\ rpc = "read" /\ rpc' = "report" /\ fwd # <<>> /\ fwd' = Tail(fwd)
        /\ done' = done \cup {c} /\ UNCHANGED <<left, cut, back, snd, cur>>
    BY <1>2 DEF ReadChunk
  <2>2. Once(fwd)' /\ Range(fwd') = Range(fwd) \ {c} /\ c \in Range(fwd)
    BY <1>n, <2>1, OnceTail
  <2> HIDE DEF c
  <2>3. spc \notin {"offer", "reply"}
    BY <2>1 DEF StartInv
  <2>4. StartInv'
    BY <2>1, <2>3 DEF StartInv
  <2>5. Moved(c, "fwd", "done")
    <3>1. /\ c \in Where["fwd"] /\ Where'["fwd"] = Where["fwd"] \ {c}
          /\ Where'["done"] = Where["done"] \cup {c}
      BY <2>1, <2>2, WhereIs
    <3>2. /\ Where'["todo"] = Where["todo"] /\ Where'["send"] = Where["send"]
          /\ Where'["ctrl"] = Where["ctrl"] /\ Where'["cur"] = Where["cur"]
          /\ Where'["nack"] = Where["nack"]
      BY <2>1, WhereIs
    <3>3. QED
      BY <3>1, <3>2 DEF Moved, Places
  <2>6. QED
    BY <2>1, <2>2, <2>4, <2>5, MovedPlaces DEF Places
<1>3. CASE ReadDamaged
  <2> DEFINE c == Head(fwd)
  <2>1. /\ rpc = "read" /\ rpc' = "nack" /\ fwd # <<>> /\ fwd' = Tail(fwd) /\ cur' = c
        /\ UNCHANGED <<left, cut, back, snd, done>>
    BY <1>3 DEF ReadDamaged
  <2>2. Once(fwd)' /\ Range(fwd') = Range(fwd) \ {c} /\ c \in Range(fwd)
    BY <1>n, <2>1, OnceTail
  <2>3. c # None /\ cur = None
    BY <1>n, <2>1, NoneIsNoChunk DEF TypeOK
  <2> HIDE DEF c
  <2>4. spc \notin {"offer", "reply"}
    BY <2>1 DEF StartInv
  <2>5. StartInv'
    BY <2>1, <2>4 DEF StartInv
  <2>6. Moved(c, "fwd", "cur")
    <3>1. /\ c \in Where["fwd"] /\ Where'["fwd"] = Where["fwd"] \ {c}
          /\ Where'["cur"] = Where["cur"] \cup {c}
      BY <2>1, <2>2, <2>3, WhereIs DEF Chunk
    <3>2. /\ Where'["todo"] = Where["todo"] /\ Where'["send"] = Where["send"]
          /\ Where'["ctrl"] = Where["ctrl"] /\ Where'["done"] = Where["done"]
          /\ Where'["nack"] = Where["nack"]
      BY <2>1, WhereIs
    <3>3. QED
      BY <3>1, <3>2 DEF Moved, Places
  <2>7. QED
    BY <2>1, <2>2, <2>5, <2>6, MovedPlaces DEF Places
<1>4. CASE SendNack
  <2>1. /\ rpc = "nack" /\ rpc' = "read" /\ cur \in Chunks /\ cur' = None
        /\ back' = Append(back, ChunkNack(cur)) /\ UNCHANGED <<left, cut, fwd, snd, done>>
    BY <1>4 DEF SendNack, SendCtrl, TypeOK
  <2>2. spc \notin {"offer", "reply"}
    BY <2>1 DEF StartInv
  <2>3. StartInv'
    BY <2>1, <2>2 DEF StartInv
  <2>4. cur \notin Nacks(back) /\ cur # None
    <3>1. Where["cur"] \cap Where["nack"] = {}
      BY DEF Disjoint, Places
    <3>2. QED
      BY <2>1, <3>1, WhereIs, NoneIsNoChunk DEF Chunk
  <2>5. NackedOnce(back)' /\ Nacks(back') = Nacks(back) \cup {cur}
    BY <1>n, <2>1, <2>4, NackAppend, MessageTypes
  <2>6. Moved(cur, "cur", "nack")
    <3>1. /\ cur \in Where["cur"] /\ Where'["cur"] = Where["cur"] \ {cur}
          /\ Where'["nack"] = Where["nack"] \cup {cur}
      BY <2>1, <2>4, <2>5, WhereIs DEF Chunk
    <3>2. /\ Where'["todo"] = Where["todo"] /\ Where'["send"] = Where["send"]
          /\ Where'["ctrl"] = Where["ctrl"] /\ Where'["done"] = Where["done"]
          /\ Where'["fwd"] = Where["fwd"]
      BY <2>1, WhereIs
    <3>3. QED
      BY <3>1, <3>2 DEF Moved, Places
  <2>7. QED
    BY <2>1, <2>3, <2>5, <2>6, MovedPlaces DEF Places
<1>5. CASE Report \/ SendComplete
  <2>1. /\ \E m \in ControlMessage : /\ back' = Append(back, m) /\ m.type # "nack"
                                     /\ m # Complete => rpc = "report"
        /\ rpc # "hello" /\ rpc' \in {"read", "save", "final", "cleanup"}
        /\ UNCHANGED <<left, cut, fwd, snd, cur, done>>
    <3>1. CASE Report
      <4>1. Progress(confirmed) \in ControlMessage /\ Progress(confirmed).type # "nack"
        BY MessageTypes DEF TypeOK, Progress
      <4>2. /\ back' = Append(back, Progress(confirmed)) /\ rpc = "report"
            /\ rpc' \in {"read", "save", "final"} /\ UNCHANGED <<left, cut, fwd, snd, cur, done>>
        BY <3>1 DEF Report, SendCtrl, AfterLoop
      <4>3. QED
        BY <4>1, <4>2
    <3>2. CASE SendComplete
      BY <3>2, MessageTypes DEF SendComplete, SendCtrl, Complete
    <3>3. QED
      BY <1>5, <3>1, <3>2
  <2>2. PICK m \in ControlMessage : /\ back' = Append(back, m) /\ m.type # "nack"
                                    /\ m # Complete => rpc = "report"
    BY <2>1
  <2>3. NackedOnce(back)' /\ Nacks(back') = Nacks(back)
    BY <1>n, <2>2, NackAppend
  <2>4. \A p \in Places : Where'[p] = Where[p]
    BY <2>1, <2>3 DEF Where
  <2>5. StartInv'
    <3>1. CASE spc \in {"offer", "reply"}
      <4>1. m = Complete /\ back # <<>>
        <5>1. rpc \notin {"hello", "report", "err"} /\ ~cut
          BY <1>5, <3>1 DEF StartInv, Report, SendComplete, SendCtrl
        <5>2. QED
          BY <2>2, <3>1, <5>1 DEF StartInv
      <4>2. \A i \in DOMAIN back' : i # 1 =>
                (back'[i] = Complete \/ (i \in DOMAIN back /\ back'[i] = back[i]))
        <5>1. /\ DOMAIN back = 1 .. Len(back) /\ DOMAIN back' = 1 .. Len(back) + 1
              /\ \A i \in 1 .. Len(back) : back'[i] = back[i]
              /\ back'[Len(back) + 1] = Complete /\ Len(back) \in Nat
          BY <1>n, <2>2, <4>1, AppendByPosition
        <5>2. QED
          BY <5>1
      <4>3. 1 \in DOMAIN back /\ back'[1] = back[1] /\ back' # <<>>
        BY <1>n, <2>2, <4>1, AppendByPosition
      <4>4. \A i \in DOMAIN back' : IF i = 1 THEN Answers(back[i])' ELSE back'[i] = Complete
        BY <2>1, <3>1, <4>2, <4>3 DEF StartInv, Answers
      <4>5. QED
        BY <2>1, <3>1, <4>3, <4>4 DEF StartInv
    <3>2. CASE spc \notin {"offer", "reply"}
      BY <2>1, <3>2 DEF StartInv
    <3>3. QED
      BY <3>1, <3>2
  <2>6. QED
    BY <2>1, <2>3, <2>4, <2>5, LostPlaces DEF Lost, Standing
<1>6. CASE SaveState
  <2>1. /\ rpc \notin {"hello", "err"} /\ rpc' \in {"read", "final", "complete"}
        /\ UNCHANGED <<left, cut, fwd, back, snd, cur, done>>
    BY <1>6 DEF SaveState, AfterLoop
  <2>2. StartInv'
    BY <2>1 DEF StartInv, Answers
  <2>3. \A p \in Places : Where'[p] = Where[p]
    BY <2>1 DEF Where
  <2>4. QED
    BY <2>1, <2>2, <2>3, LostPlaces DEF Lost, Standing
<1>7. CASE Cleanup \/ ReceiverConnError \/ DiskError
  <2>1. /\ rpc' = "err" \/ (rpc = "cleanup" /\ rpc' = "done")
        /\ cur' = None /\ left' = left \cup {"receiver"}
        /\ UNCHANGED <<cut, fwd, back, snd, done>>
    <3>1. CASE Cleanup
      BY <3>1 DEF Cleanup, ReceiverLeaves
    <3>2. CASE ReceiverConnError \/ DiskError
      BY <3>2 DEF ReceiverConnError, DiskError, ReceiverLeaves
    <3>3. QED
      BY <1>7, <3>1, <3>2
  <2>2. StartInv'
    BY <2>1 DEF StartInv, Answers
  <2>3. Lost
    <3>1. Where'["cur"] = {}
      BY <2>1, WhereIs DEF Chunk
    <3>2. \A p \in Places \ {"cur"} : Where'[p] = Where[p]
      BY <2>1 DEF Where, Places
    <3>3. QED
      BY <3>1, <3>2 DEF Lost
  <2>4. ~Standing'
    BY <2>1 DEF Standing
  <2>5. QED
    BY <2>1, <2>2, <2>3, <2>4, LostPlaces
<1>8. QED
  BY <1>1, <1>2, <1>3, <1>4, <1>5, <1>6, <1>7 DEF Receiver

\* The blocking pool, the relay and the environment.
LEMMA OthersKeepPlaces ==
    ASSUME Inv, Land \/ RelayBreaks \/ Reset \/ Quit \/ UNCHANGED vars
    PROVE  StartInv' /\ PlacesInv'
<1>i. TypeOK /\ StartInv /\ PlacesInv /\ Once(fwd) /\ NackedOnce(back)
  BY DEF Inv, PlacesInv
<1> USE <1>i DEF net, snd, rcv
<1>1. CASE Land \/ RelayBreaks \/ UNCHANGED vars
  <2>1. /\ UNCHANGED <<left, fwd, back, snd, rcv>> /\ (cut' = cut \/ cut')
        /\ tail' = tail \/ (tail # None /\ tail' = None)
    BY <1>1 DEF Land, RelayBreaks, vars, file
  <2>2. tail = None => tail' = None
    BY <2>1
  <2>3. StartInv'
    BY <2>1, <2>2 DEF StartInv, Answers
  <2>4. \A p \in Places : Where'[p] = Where[p]
    BY <2>1 DEF Where
  <2>5. QED
    BY <2>1, <2>3, <2>4, LostPlaces DEF Lost, Standing, TypeOK
<1>2. CASE Reset
  <2>1. cut' /\ UNCHANGED <<left, snd, rcv, file>>
    BY <1>2 DEF Reset
  <2>2. PICK i \in 0 .. Len(fwd), j \in 0 .. Len(back) :
            fwd' = SubSeq(fwd, 1, i) /\ back' = SubSeq(back, 1, j)
    BY <1>2 DEF Reset
  <2>3. fwd \in Seq(Chunks) /\ back \in Seq(ControlMessage)
    BY DEF TypeOK
  <2>4. Once(fwd)' /\ Range(fwd') \subseteq Range(fwd)
    BY <2>2, <2>3, OncePrefix
  <2>5. NackedOnce(back)' /\ Nacks(back') \subseteq Nacks(back)
    BY <2>2, <2>3, NackPrefix
  <2>6. Lost
    <3>1. /\ Where'["fwd"] \subseteq Where["fwd"] /\ Where'["nack"] \subseteq Where["nack"]
          /\ Where'["todo"] = Where["todo"] /\ Where'["send"] = Where["send"]
          /\ Where'["ctrl"] = Where["ctrl"] /\ Where'["cur"] = Where["cur"]
          /\ Where'["done"] = Where["done"]
      BY <2>1, <2>4, <2>5, WhereIs
    <3>2. QED
      BY <3>1 DEF Lost, Places
  <2>7. StartInv'
    <3>1. /\ fwd = <<>> => fwd' = <<>>
          /\ back = <<>> => back' = <<>>
      BY <2>2, <2>3
    <3>2. \A k \in DOMAIN back' : k \in DOMAIN back /\ back'[k] = back[k]
      BY <2>2, <2>3, PrefixByPosition
    <3>3. QED
      BY <2>1, <3>1, <3>2 DEF StartInv, Answers, file
  <2>8. QED
    BY <2>1, <2>4, <2>5, <2>6, <2>7, LostPlaces DEF Standing
<1>3. CASE Quit
  <2>1. CASE SenderLeaves("err") /\ UNCHANGED <<rcv, tail>>
    <3>1. /\ toSend' = {} /\ writers' = <<>> /\ held' = [l \in Loops |-> None] /\ spc' = "err"
          /\ UNCHANGED <<cut, fwd, back, rcv, tail>>
      BY <1>3, <2>1 DEF Quit, SenderLeaves
    <3>2. StartInv'
      BY <3>1 DEF StartInv
    <3>3. Lost
      <4>1. /\ Where'["todo"] = {} /\ Where'["send"] = {} /\ Where'["ctrl"] = {}
            /\ Where'["fwd"] = Where["fwd"] /\ Where'["cur"] = Where["cur"]
            /\ Where'["nack"] = Where["nack"] /\ Where'["done"] = Where["done"]
        BY <3>1, WhereIs DEF Loops, Chunk
      <4>2. QED
        BY <4>1 DEF Lost, Places
    <3>4. QED
      BY <3>1, <3>2, <3>3, LostPlaces DEF Standing
  <2>2. CASE ReceiverLeaves("err") /\ tail' = None /\ UNCHANGED snd
    <3>1. /\ rpc' = "err" /\ cur' = None /\ left' = left \cup {"receiver"}
          /\ UNCHANGED <<cut, fwd, back, snd, done>>
      BY <1>3, <2>2 DEF Quit, ReceiverLeaves
    <3>2. StartInv'
      BY <3>1 DEF StartInv, Answers
    <3>3. Lost
      <4>1. Where'["cur"] = {}
        BY <3>1, WhereIs DEF Chunk
      <4>2. \A p \in Places \ {"cur"} : Where'[p] = Where[p]
        BY <3>1 DEF Where, Places
      <4>3. QED
        BY <4>1, <4>2 DEF Lost
    <3>4. ~Standing'
      BY <3>1 DEF Standing
    <3>5. QED
      BY <3>1, <3>2, <3>3, <3>4, LostPlaces
  <2>3. QED
    BY <1>3, <2>1, <2>2 DEF Quit
<1>4. QED
  BY <1>1, <1>2, <1>3

LEMMA NextKeepsInv == Inv /\ [Next]_vars => Inv'
<1> SUFFICES ASSUME Inv, [Next]_vars PROVE Inv'
  OBVIOUS
<1>1. CASE CtrlLoop \/ SendLoop \/ Sender \/ SenderReadError
  <2>1. TypeInv'
    BY <1>1, SenderKeepsTypes
  <2>2. StartInv' /\ PlacesInv'
    BY <1>1, LoopsKeepPlaces, SenderCallKeepsPlaces DEF Sender
  <2>3. QED
    BY <2>1, <2>2 DEF Inv, TypeInv
<1>2. CASE Receiver \/ ReadDamaged \/ DiskError
  BY <1>2, ReceiverKeepsTypes, ReceiverKeepsPlaces DEF Inv, TypeInv
<1>3. CASE Land \/ RelayBreaks \/ Reset \/ Quit \/ UNCHANGED vars
  BY <1>3, OthersKeepTypes, OthersKeepPlaces DEF Inv, TypeInv
<1>4. QED
  BY <1>1, <1>2, <1>3 DEF Next, Environment, Terminated

LEMMA Invariance == Spec => []Inv
BY InitInv, NextKeepsInv, PTL DEF Spec

\* The state of the two calls and of the stream is well formed: in particular
\* confirmed never counts past the last chunk, and a loop is among the writers
\* exactly while it holds a chunk (relay_sender.rs:74-118,
\* relay_receiver.rs:75-155).
THEOREM TypeCorrect == Spec => []TypeOK
<1>1. Inv => TypeOK
  BY DEF Inv
<1>2. QED
  BY <1>1, Invariance, PTL

\* A set all members of which are equal.
LEMMA AtMostOne ==
    ASSUME NEW T, \A i, j \in T : i = j
    PROVE  Cardinality(T) = IF T = {} THEN 0 ELSE 1
<1>1. CASE T = {}
  BY <1>1, FS_EmptySet
<1>2. CASE T # {}
  <2>1. PICK x \in T : TRUE
    BY <1>2
  <2>2. T = {x}
    BY <2>1
  <2>3. QED
    BY <1>2, <2>2, FS_Singleton
<1>3. QED
  BY <1>1, <1>2

\* Copies counts, in each place, what PlacesInv finds there.
LEMMA CopiesArePlaces ==
    ASSUME TypeOK, PlacesInv, NEW c \in Chunks
    PROVE  Copies(c) = (IF c \in Where["fwd"] THEN 1 ELSE 0)
                         + (IF c \in Where["nack"] THEN 1 ELSE 0)
                         + (IF c \in Where["send"] \cup Where["ctrl"] THEN 1 ELSE 0)
                         + (IF c \in Where["todo"] THEN 1 ELSE 0)
                         + (IF c \in Where["cur"] THEN 1 ELSE 0)
<1>0. c # None
  BY NoneIsNoChunk
<1>1. Cardinality({i \in DOMAIN fwd : fwd[i] = c}) = IF c \in Where["fwd"] THEN 1 ELSE 0
  <2>1. \A i, j \in {k \in DOMAIN fwd : fwd[k] = c} : i = j
    BY DEF PlacesInv, Once
  <2>2. {k \in DOMAIN fwd : fwd[k] = c} = {} <=> c \notin Where["fwd"]
    BY WhereIs DEF Range
  <2>3. QED
    BY <2>1, <2>2, AtMostOne
<1>2. Cardinality({i \in DOMAIN back : back[i] = ChunkNack(c)}) = IF c \in Where["nack"] THEN 1 ELSE 0
  <2>1. \A i, j \in {k \in DOMAIN back : back[k] = ChunkNack(c)} : i = j
    BY DEF PlacesInv, NackedOnce, ChunkNack
  <2>2. {k \in DOMAIN back : back[k] = ChunkNack(c)} = {} <=> c \notin Where["nack"]
    BY WhereIs DEF Nacks
  <2>3. QED
    BY <2>1, <2>2, AtMostOne
<1>3. Cardinality({l \in Loops : held[l] = c}) = IF c \in Where["send"] \cup Where["ctrl"] THEN 1 ELSE 0
  <2>1. held["send"] # held["ctrl"] \/ held["send"] = None
    BY Apart DEF PlacesInv
  <2>2. \A i, j \in {l \in Loops : held[l] = c} : i = j
    BY <1>0, <2>1 DEF Loops
  <2>3. {l \in Loops : held[l] = c} = {} <=> c \notin Where["send"] \cup Where["ctrl"]
    BY <1>0, WhereIs DEF Loops, Chunk
  <2>4. QED
    BY <2>2, <2>3, AtMostOne
<1>4. (c \in toSend <=> c \in Where["todo"]) /\ (cur = c <=> c \in Where["cur"])
  BY <1>0, WhereIs DEF Chunk
<1>5. QED
  BY <1>1, <1>2, <1>3, <1>4 DEF Copies

\* Inline retransmission, read-ahead on the stream and NACKs that overtake it
\* neither lose a chunk nor send one twice (relay_sender.rs:86-114,
\* relay_receiver.rs:103-155).
THEOREM ChunkIsInOnePlace == Spec => []ChunkInOnePlace
<1>1. ASSUME Inv PROVE ChunkInOnePlace
  <2> SUFFICES ASSUME spc = "run", ~cut, left = {}, NEW c \in Chunks
               PROVE  Copies(c) = IF c \in done THEN 0 ELSE 1
    BY DEF ChunkInOnePlace
  <2>1. TypeOK /\ PlacesInv
    BY <1>1 DEF Inv
  <2>2. PICK p \in Places : c \in Where[p]
    BY <2>1 DEF PlacesInv, Covers
  <2>3. \A q \in Places : c \in Where[q] <=> q = p
    BY <2>1, <2>2 DEF PlacesInv, Disjoint
  <2>4. c \in done <=> p = "done"
    BY <2>3, WhereIs DEF Places
  <2>5. /\ c \in Where["fwd"] <=> p = "fwd"
        /\ c \in Where["nack"] <=> p = "nack"
        /\ c \in Where["send"] \cup Where["ctrl"] <=> p \in {"send", "ctrl"}
        /\ c \in Where["todo"] <=> p = "todo"
        /\ c \in Where["cur"] <=> p = "cur"
    BY <2>3 DEF Places
  <2>6. QED
    BY <2>1, <2>4, <2>5, CopiesArePlaces DEF Places
<1>2. QED
  BY <1>1, Invariance, PTL

-----------------------------------------------------------------------------
(* The saved state and the file.                                            *)

LEMMA NextKeepsFile == Inv /\ FileInv /\ [Next]_vars => FileInv'
<1> SUFFICES ASSUME Inv, FileInv, [Next]_vars PROVE FileInv'
  OBVIOUS
<1>t. /\ saved \subseteq Chunks /\ done \subseteq Chunks /\ None \notin Chunks
      /\ rpc = "hello" => done = {} /\ tail = None
  BY NoneIsNoChunk DEF Inv, TypeOK, StartInv
<1> USE DEF FileInv, net, rcv, file
<1>1. CASE CtrlLoop \/ SendLoop \/ Sender \/ SenderReadError
  <2>1. UNCHANGED <<saved, done, disk, tail>> /\ left \subseteq left'
    BY <1>1
    DEF CtrlLoop, CtrlProgress, CtrlNack, CtrlComplete, CtrlRecv, SendLoop, SendNext, WriteChunk,
        Sender, SendManifest, RecvReply, SendFinish, SenderConnError, SenderReadError, SenderLeaves
  <2>2. QED
    BY <2>1
<1>2. CASE Negotiate
  BY <1>2, <1>t, Zenon DEF Negotiate
<1>3. CASE ReadChunk
  BY <1>3, <1>t DEF ReadChunk
<1>4. CASE SendNack \/ Report \/ SendComplete \/ ReadDamaged
  BY <1>4 DEF SendNack, Report, SendComplete, ReadDamaged
<1>5. CASE SaveState
  BY <1>5 DEF SaveState
<1>6. CASE Cleanup \/ ReceiverConnError \/ DiskError
  BY <1>6 DEF Cleanup, ReceiverConnError, DiskError, ReceiverLeaves
<1>7. CASE Land
  BY <1>7 DEF Land
<1>8. CASE RelayBreaks \/ Reset \/ UNCHANGED vars
  BY <1>8 DEF RelayBreaks, Reset, vars
<1>9. CASE Quit
  BY <1>9 DEF Quit, SenderLeaves, ReceiverLeaves
<1>10. QED
  BY <1>1, <1>2, <1>3, <1>4, <1>5, <1>6, <1>7, <1>8, <1>9 DEF Next, Receiver, Environment, Terminated

\* The saved state of a receiver that runs lists no chunk the file does not
\* hold, but for the one whose last piece is with the blocking pool
\* (relay_receiver.rs:128-148, 167).
THEOREM SavedIsOneBehind == Spec => []SavedOneBehind
<1>1. Init => FileInv
  BY DEF Init, FileInv
<1>2. FileInv => SavedOneBehind
  BY DEF FileInv, SavedOneBehind
<1>3. QED
  BY <1>1, <1>2, NextKeepsFile, Invariance, PTL DEF Spec

-----------------------------------------------------------------------------
(* The reports.                                                             *)

\* A message appended to the control stream.
LEMMA ReportsAppend ==
    ASSUME NEW q \in Seq(ControlMessage), NEW m \in ControlMessage, NEW n \in Nat, NEW k \in Nat,
           ReportsAtMost(q, k), m.type = "progress" => n <= m.done /\ m.done = k
    PROVE  /\ ReportsAtMost(Append(q, m), k)
           /\ ReportsGrow(q, n) => ReportsGrow(Append(q, m), n)
           /\ \A i \in DOMAIN Append(q, m) : Append(q, m)[i].type = "complete" =>
                 m.type = "complete" \/ \E j \in DOMAIN q : q[j].type = "complete"
<1> DEFINE r == Append(q, m)
<1>1. /\ Len(q) \in Nat /\ DOMAIN q = 1 .. Len(q) /\ DOMAIN r = 1 .. Len(q) + 1
      /\ \A i \in 1 .. Len(q) : r[i] = q[i]
      /\ r[Len(q) + 1] = m
  BY AppendByPosition
<1>2. \A i \in 1 .. Len(q) + 1 : i \in 1 .. Len(q) \/ i = Len(q) + 1
  BY <1>1
<1> HIDE DEF r
<1>3. ReportsAtMost(r, k)
  BY <1>1, <1>2 DEF ReportsAtMost
<1>4. ReportsGrow(q, n) => ReportsGrow(r, n)
  BY <1>1 DEF ReportsGrow, ReportsAtMost
<1>5. \A i \in DOMAIN r : r[i].type = "complete" =>
          m.type = "complete" \/ \E j \in DOMAIN q : q[j].type = "complete"
  BY <1>1, <1>2
<1>6. QED
  BY <1>3, <1>4, <1>5 DEF r

\* The first message taken off it.
LEMMA ReportsTail ==
    ASSUME NEW q \in Seq(ControlMessage), q # <<>>, NEW n \in Nat, NEW k \in Nat,
           ReportsAtMost(q, k)
    PROVE  /\ ReportsAtMost(Tail(q), k)
           /\ ReportsGrow(q, n) =>
                /\ ReportsGrow(Tail(q), n)
                /\ Head(q).type = "progress" => n <= Head(q).done /\ ReportsGrow(Tail(q), Head(q).done)
           /\ Head(q).type = "progress" => Head(q).done <= k
           /\ Head(q) = q[1] /\ 1 \in DOMAIN q
           /\ \A i \in DOMAIN Tail(q) : i + 1 \in DOMAIN q /\ Tail(q)[i] = q[i + 1]
<1>1. /\ Len(q) \in Nat \ {0} /\ DOMAIN q = 1 .. Len(q) /\ DOMAIN Tail(q) = 1 .. Len(q) - 1
      /\ \A i \in 1 .. Len(q) - 1 : Tail(q)[i] = q[i + 1] /\ i + 1 \in 1 .. Len(q)
      /\ Head(q) = q[1]
  BY TailByPosition
<1> DEFINE r == Tail(q)  m == Head(q)
<1> HIDE DEF r, m
<1>2. /\ Len(q) \in Nat \ {0} /\ DOMAIN q = 1 .. Len(q) /\ DOMAIN r = 1 .. Len(q) - 1
      /\ \A i \in 1 .. Len(q) - 1 : r[i] = q[i + 1] /\ i + 1 \in 1 .. Len(q)
      /\ m = q[1]
  BY <1>1 DEF r, m
<1>3. ReportsAtMost(r, k) /\ (m.type = "progress" => m.done <= k)
  BY <1>2 DEF ReportsAtMost
<1>4. ASSUME ReportsGrow(q, n) PROVE ReportsGrow(r, n)
  <2>1. ASSUME NEW i \in 1 .. Len(q) - 1, r[i].type = "progress"
        PROVE  /\ n <= r[i].done
               /\ \A j \in 1 .. Len(q) - 1 : i < j /\ r[j].type = "progress" => r[i].done <= r[j].done
    <3>1. i + 1 \in DOMAIN q /\ q[i + 1].type = "progress" /\ r[i] = q[i + 1]
      BY <1>2, <2>1
    <3>2. /\ n <= q[i + 1].done
          /\ \A j \in DOMAIN q : i + 1 < j /\ q[j].type = "progress" => q[i + 1].done <= q[j].done
      BY <1>4, <3>1 DEF ReportsGrow
    <3>3. \A j \in 1 .. Len(q) - 1 : i < j => i + 1 < j + 1
      BY <1>2
    <3>4. QED
      BY <1>2, <3>1, <3>2, <3>3
  <2>2. QED
    BY <1>2, <2>1 DEF ReportsGrow
<1>5. ASSUME ReportsGrow(q, n), m.type = "progress" PROVE n <= m.done /\ ReportsGrow(r, m.done)
  <2>1. n <= m.done /\ \A j \in 1 .. Len(q) - 1 : r[j].type = "progress" => m.done <= r[j].done
    BY <1>2, <1>5 DEF ReportsGrow
  <2>2. QED
    BY <1>2, <1>4, <1>5, <2>1 DEF ReportsGrow
<1>6. QED
  BY <1>2, <1>3, <1>4, <1>5 DEF r, m

\* A prefix of it.
LEMMA ReportsPrefix ==
    ASSUME NEW q \in Seq(ControlMessage), NEW j \in 0 .. Len(q), NEW n \in Nat, NEW k \in Nat,
           ReportsAtMost(q, k)
    PROVE  /\ ReportsAtMost(SubSeq(q, 1, j), k)
           /\ ReportsGrow(q, n) => ReportsGrow(SubSeq(q, 1, j), n)
           /\ \A i \in DOMAIN SubSeq(q, 1, j) : i \in DOMAIN q /\ SubSeq(q, 1, j)[i] = q[i]
<1> DEFINE r == SubSeq(q, 1, j)
<1>1. /\ DOMAIN q = 1 .. Len(q) /\ DOMAIN r = 1 .. j
      /\ \A i \in 1 .. j : r[i] = q[i] /\ i \in 1 .. Len(q)
  BY PrefixByPosition
<1> HIDE DEF r
<1>2. QED
  BY <1>1 DEF ReportsAtMost, ReportsGrow, r

LEMMA MoreAccepted ==
    ASSUME NEW q, NEW n \in Nat, NEW k \in Nat, n <= k,
           \A i \in DOMAIN q : q[i].type = "progress" => q[i].done \in Nat, ReportsAtMost(q, n)
    PROVE  ReportsAtMost(q, k)
BY DEF ReportsAtMost

LEMMA InitReportInv == Init => ReportInv
<1> SUFFICES ASSUME Init PROVE ReportInv
  OBVIOUS
<1>1. WholeInv
  BY DEF Init, WholeInv
<1>2. bar <= Cardinality(done)
  BY FS_EmptySet DEF Init
<1>3. QED
  BY <1>1, <1>2, EmptyQueues DEF Init, ReportInv

\* The sender learns what is reported.
LEMMA SenderKeepsReports ==
    ASSUME Inv, ReportInv, CtrlLoop \/ SendLoop \/ Sender \/ SenderReadError
    PROVE  ReportInv'
<1>t. /\ back \in Seq(ControlMessage) /\ bar \in Nat /\ bar <= ChunkCount
      /\ done \subseteq Chunks /\ Cardinality(done) \in Nat /\ Cardinality(done) <= ChunkCount
      /\ ReportsAtMost(back, Cardinality(done)) /\ WholeInv
  BY ChunkSets, RelayTransferAssumption DEF Inv, TypeOK, ReportInv
<1>r. rpc' = rpc /\ done' = done
  BY DEF CtrlLoop, CtrlProgress, CtrlNack, CtrlComplete, CtrlRecv, SendLoop, SendNext, WriteChunk,
         Sender, SendManifest, RecvReply, SendFinish, SenderConnError, SenderReadError, rcv
<1>1. CASE /\ bar' = bar /\ ctrlDone' = ctrlDone /\ back' = back
  BY <1>1, <1>t, <1>r DEF ReportInv, WholeInv
<1>2. CASE CtrlProgress
  <2>1. /\ back # <<>> /\ back' = Tail(back) /\ Head(back).type = "progress" /\ ~ctrlDone
        /\ bar' = Head(back).done /\ ctrlDone' = ctrlDone
    BY <1>2 DEF CtrlProgress, CtrlRecv
  <2>2. ReportsGrow(back, bar)
    BY <2>1 DEF ReportInv
  <2>3. /\ bar' <= Cardinality(done) /\ ReportsAtMost(back', Cardinality(done))
        /\ ReportsGrow(back', bar')
        /\ \A i \in DOMAIN back' : i + 1 \in DOMAIN back /\ back'[i] = back[i + 1]
    BY <1>t, <2>1, <2>2, ReportsTail
  <2>4. WholeInv'
    BY <1>t, <1>r, <2>1, <2>3 DEF WholeInv
  <2>5. QED
    BY <1>r, <2>1, <2>3, <2>4 DEF ReportInv
<1>3. CASE CtrlNack
  <2>1. /\ back # <<>> /\ back' = Tail(back) /\ ~ctrlDone /\ bar' = bar /\ ctrlDone' = ctrlDone
    BY <1>3 DEF CtrlNack, CtrlRecv
  <2>2. ReportsGrow(back, bar)
    BY <2>1 DEF ReportInv
  <2>3. /\ ReportsAtMost(back', Cardinality(done)) /\ ReportsGrow(back', bar')
        /\ \A i \in DOMAIN back' : i + 1 \in DOMAIN back /\ back'[i] = back[i + 1]
    BY <1>t, <2>1, <2>2, ReportsTail
  <2>4. WholeInv'
    BY <1>t, <1>r, <2>1, <2>3 DEF WholeInv
  <2>5. QED
    BY <1>r, <2>1, <2>3, <2>4 DEF ReportInv
<1>4. CASE CtrlComplete
  <2>1. /\ back # <<>> /\ back' = Tail(back) /\ Head(back).type = "complete"
        /\ bar' = ChunkCount /\ ctrlDone'
    BY <1>4 DEF CtrlComplete, CtrlRecv
  <2>2. /\ ReportsAtMost(back', Cardinality(done)) /\ Head(back) = back[1] /\ 1 \in DOMAIN back
        /\ \A i \in DOMAIN back' : i + 1 \in DOMAIN back /\ back'[i] = back[i + 1]
    BY <1>t, <2>1, ReportsTail
  <2>3. done = Chunks
    BY <1>t, <2>1, <2>2 DEF WholeInv
  <2>4. WholeInv'
    BY <1>r, <2>1, <2>3 DEF WholeInv
  <2>5. QED
    BY <1>r, <1>t, <2>1, <2>2, <2>3, <2>4, ChunkSets DEF ReportInv
<1>5. CASE RecvReply
  <2> DEFINE skip == IF Head(back).type = "resume" THEN Head(back).have ELSE {}
  <2>1. /\ bar' = Cardinality(skip) /\ spc = "reply" /\ back # <<>> /\ back' = Tail(back)
        /\ ctrlDone' = ctrlDone
    BY <1>5, Zenon DEF RecvReply
  <2>2. /\ ReportsAtMost(back', Cardinality(done)) /\ Head(back) = back[1] /\ 1 \in DOMAIN back
        /\ \A i \in DOMAIN back' : i + 1 \in DOMAIN back /\ back'[i] = back[i + 1]
    BY <1>t, <2>1, ReportsTail
  <2>3. skip = done /\ \A i \in DOMAIN back' : back'[i] = Complete
    <3>1. \A i \in DOMAIN back : IF i = 1 THEN Answers(back[i]) ELSE back[i] = Complete
      BY <2>1 DEF Inv, StartInv
    <3>2. skip = done
      BY <2>2, <3>1 DEF Answers
    <3>3. \A i \in DOMAIN back' : i + 1 # 1
      <4>1. back' \in Seq(ControlMessage)
        BY <1>t, <2>1, TailByPosition
      <4>2. QED
        BY <4>1
    <3>4. QED
      BY <2>2, <3>1, <3>2, <3>3
  <2> HIDE DEF skip
  <2>4. ReportsGrow(back', bar')
    BY <2>3 DEF ReportsGrow, Complete
  <2>5. WholeInv'
    <3>1. ~ctrlDone
      BY <2>1 DEF Inv, StartInv
    <3>2. QED
      BY <1>t, <1>r, <2>1, <2>2, <3>1 DEF WholeInv
  <2>6. QED
    BY <1>r, <1>t, <2>1, <2>2, <2>3, <2>4, <2>5 DEF ReportInv
<1>6. CASE SendLoop \/ SendManifest \/ SendFinish \/ SenderConnError \/ SenderReadError
  BY <1>1, <1>6
  DEF SendLoop, SendNext, WriteChunk, SendManifest, SendFinish, SenderConnError, SenderReadError,
      SenderLeaves, net
<1>7. QED
  BY <1>2, <1>3, <1>4, <1>5, <1>6 DEF CtrlLoop, Sender

\* The receiver reports in order, as what it has confirmed only grows.
LEMMA ReceiverKeepsReports ==
    ASSUME Inv, ReportInv, Receiver \/ ReadDamaged \/ DiskError
    PROVE  ReportInv'
<1>t. /\ back \in Seq(ControlMessage) /\ bar \in Nat /\ fwd \in Seq(Chunks)
      /\ done \subseteq Chunks /\ saved \subseteq Chunks
      /\ Cardinality(done) \in Nat /\ Cardinality(saved) \in Nat
      /\ ReportsAtMost(back, Cardinality(done)) /\ WholeInv
      /\ confirmed = Cardinality(done) /\ confirmed \in 0 .. ChunkCount
      /\ bar <= Cardinality(done) /\ (~ctrlDone => ReportsGrow(back, bar))
  BY ChunkSets, RelayTransferAssumption DEF Inv, TypeOK, ReportInv, CountInv
<1>s. UNCHANGED <<bar, ctrlDone>>
  BY DEF Receiver, Negotiate, ReadChunk, SendNack, Report, SaveState, SendComplete, Cleanup,
         ReceiverConnError, ReadDamaged, DiskError, snd
<1>1. CASE Negotiate
  <2> DEFINE m == IF saved # {} THEN ResumeRequest(saved) ELSE Ack
  <2>1. /\ done' = saved /\ rpc' = AfterLoop(saved) /\ back' = Append(back, m) /\ rpc = "hello"
    BY <1>1, Zenon DEF Negotiate, SendCtrl
  <2>2. m \in ControlMessage /\ m.type \notin {"progress", "complete"}
    BY <1>t, MessageTypes DEF Ack, ResumeRequest
  <2> HIDE DEF m
  <2>3. back = <<>> /\ done = {} /\ (ctrlDone => saved = Chunks)
    <3>1. back = <<>> /\ done = {}
      BY <2>1 DEF Inv, StartInv
    <3>2. QED
      BY <1>t, <3>1 DEF WholeInv
  <2>4. /\ ReportsAtMost(back', Cardinality(saved))
        /\ ~ctrlDone => ReportsGrow(back', bar)
        /\ \A i \in DOMAIN back' : back'[i].type # "complete"
    <3>1. ReportsAtMost(back, Cardinality(saved)) /\ ReportsGrow(back, bar)
      BY <2>3, EmptyQueues
    <3>2. ReportsAtMost(Append(back, m), Cardinality(saved)) /\ ReportsGrow(Append(back, m), bar)
      BY <1>t, <2>2, <3>1, ReportsAppend
    <3>3. \A i \in DOMAIN Append(back, m) : Append(back, m)[i] = m
      BY <2>2, <2>3
    <3>4. QED
      BY <2>1, <2>2, <3>2, <3>3
  <2>5. bar <= Cardinality(saved)
    <3>1. Cardinality({}) = 0
      BY FS_EmptySet
    <3>2. bar = 0
      BY <1>t, <2>3, <3>1
    <3>3. QED
      BY <1>t, <3>2
  <2>6. WholeInv'
    BY <1>t, <1>s, <2>1, <2>3, <2>4 DEF WholeInv, AfterLoop
  <2>7. QED
    BY <1>s, <2>1, <2>4, <2>5, <2>6 DEF ReportInv
<1>2. CASE ReadChunk
  <2> DEFINE c == Head(fwd)
  <2>1. c \in Chunks \ done /\ done' = done \cup {c} /\ back' = back /\ rpc' = "report"
    BY <1>2, NextOnStream, Apart DEF ReadChunk, Inv, PlacesInv
  <2> HIDE DEF c
  <2>2. Cardinality(done') = Cardinality(done) + 1 /\ done # Chunks
    BY <1>t, <2>1, ChunkSets
  <2>3. ReportsAtMost(back', Cardinality(done'))
    <3>1. \A i \in DOMAIN back : back[i].type = "progress" => back[i].done \in Nat
      <4>1. \A i \in DOMAIN back : back[i] \in ControlMessage
        BY <1>t
      <4>2. QED
        BY <4>1, MessagePayloads, RelayTransferAssumption
    <3>2. QED
      BY <1>t, <2>1, <2>2, <3>1, MoreAccepted
  <2>4. WholeInv'
    BY <1>t, <1>s, <2>1, <2>2 DEF WholeInv
  <2>5. bar <= Cardinality(done')
    BY <1>t, <2>2
  <2>6. QED
    BY <1>t, <1>s, <2>1, <2>3, <2>4, <2>5 DEF ReportInv
<1>3. CASE SendNack \/ Report \/ SendComplete
  <2>1. \E m \in ControlMessage :
            /\ back' = Append(back, m) /\ done' = done
            /\ m.type = "progress" => m.done = Cardinality(done)
            /\ m.type = "complete" => done = Chunks
            /\ rpc' \in {"final", "complete", "cleanup", "done"} => done = Chunks
    <3>1. CASE SendNack
      <4>1. cur \in Chunks
        BY <3>1 DEF SendNack, Inv, TypeOK
      <4>2. ChunkNack(cur) \in ControlMessage /\ ChunkNack(cur).type \notin {"progress", "complete"}
        BY <4>1, MessageTypes DEF ChunkNack
      <4>3. back' = Append(back, ChunkNack(cur)) /\ done' = done /\ rpc' = "read"
        BY <3>1 DEF SendNack, SendCtrl
      <4>4. QED
        BY <4>2, <4>3
    <3>2. CASE Report
      <4>1. /\ Progress(confirmed) \in ControlMessage /\ Progress(confirmed).type = "progress"
            /\ Progress(confirmed).done = Cardinality(done)
        BY <1>t, MessageTypes DEF Progress
      <4>2. /\ back' = Append(back, Progress(confirmed)) /\ done' = done
            /\ rpc' \in {"save", AfterLoop(done)}
        BY <3>2 DEF Report, SendCtrl
      <4>3. QED
        BY <4>1, <4>2 DEF AfterLoop
    <3>3. CASE SendComplete
      BY <1>t, <3>3, MessageTypes DEF SendComplete, SendCtrl, Complete, WholeInv
    <3>4. QED
      BY <1>3, <3>1, <3>2, <3>3
  <2>2. PICK m \in ControlMessage :
            /\ back' = Append(back, m) /\ done' = done
            /\ m.type = "progress" => m.done = Cardinality(done)
            /\ m.type = "complete" => done = Chunks
            /\ rpc' \in {"final", "complete", "cleanup", "done"} => done = Chunks
    BY <2>1
  <2>3. /\ ReportsAtMost(back', Cardinality(done))
        /\ ~ctrlDone => ReportsGrow(back', bar)
        /\ \A i \in DOMAIN back' : back'[i].type = "complete" =>
              m.type = "complete" \/ \E j \in DOMAIN back : back[j].type = "complete"
    BY <1>t, <2>2, ReportsAppend
  <2>4. WholeInv'
    BY <1>t, <1>s, <2>2, <2>3 DEF WholeInv
  <2>5. QED
    BY <1>t, <1>s, <2>2, <2>3, <2>4 DEF ReportInv
<1>4. CASE SaveState \/ Cleanup \/ ReceiverConnError \/ ReadDamaged \/ DiskError
  <2>1. /\ UNCHANGED <<back, done>>
        /\ rpc' \in {"final", "complete", "cleanup", "done"} => done = Chunks
    BY <1>t, <1>4
    DEF SaveState, Cleanup, ReceiverConnError, ReadDamaged, DiskError, ReceiverLeaves, AfterLoop,
        WholeInv, net
  <2>2. WholeInv'
    BY <1>t, <1>s, <2>1 DEF WholeInv
  <2>3. QED
    BY <1>t, <1>s, <2>1, <2>2 DEF ReportInv
<1>5. QED
  BY <1>1, <1>2, <1>3, <1>4 DEF Receiver

LEMMA NextKeepsReports == Inv /\ ReportInv /\ [Next]_vars => ReportInv'
<1> SUFFICES ASSUME Inv, ReportInv, [Next]_vars PROVE ReportInv'
  OBVIOUS
<1>t. /\ back \in Seq(ControlMessage) /\ bar \in Nat /\ Cardinality(done) \in Nat
      /\ ReportsAtMost(back, Cardinality(done)) /\ WholeInv
      /\ bar <= Cardinality(done) /\ (~ctrlDone => ReportsGrow(back, bar))
  BY ChunkSets, RelayTransferAssumption DEF Inv, TypeOK, ReportInv
<1>1. CASE CtrlLoop \/ SendLoop \/ Sender \/ SenderReadError
  BY <1>1, SenderKeepsReports
<1>2. CASE Receiver \/ ReadDamaged \/ DiskError
  BY <1>2, ReceiverKeepsReports
<1>3. CASE Land \/ RelayBreaks \/ Quit \/ UNCHANGED vars
  <2>1. UNCHANGED <<back, bar, ctrlDone, done>> /\ rpc' \in {rpc, "err"}
    BY <1>3
    DEF Land, RelayBreaks, Quit, SenderLeaves, ReceiverLeaves, vars, net, snd, rcv
  <2>2. QED
    BY <2>1 DEF ReportInv, WholeInv
<1>4. CASE Reset
  <2>1. UNCHANGED <<snd, rcv>> /\ \E j \in 0 .. Len(back) : back' = SubSeq(back, 1, j)
    BY <1>4 DEF Reset
  <2>2. PICK j \in 0 .. Len(back) : back' = SubSeq(back, 1, j)
    BY <2>1
  <2>3. /\ ReportsAtMost(back', Cardinality(done))
        /\ ~ctrlDone => ReportsGrow(back', bar)
        /\ \A i \in DOMAIN back' : i \in DOMAIN back /\ back'[i] = back[i]
    BY <1>t, <2>2, ReportsPrefix
  <2>4. WholeInv'
    BY <1>t, <2>1, <2>3 DEF WholeInv, snd, rcv
  <2>5. QED
    BY <1>t, <2>1, <2>3, <2>4 DEF ReportInv, snd, rcv
<1>5. QED
  BY <1>1, <1>2, <1>3, <1>4 DEF Next, Environment, Terminated

-----------------------------------------------------------------------------
(* Each step of the transfer is one of FileDelivery, or none.               *)

DeliveryInv == Inv /\ ReportInv

\* FileDelivery counts as this module does.
LEMMA SameCount == \A S : Delivery!Cardinality(S) = Cardinality(S)
BY DEF Delivery!Cardinality, Cardinality

\* The sender learns something, or its call ends.
LEMMA SenderDelivers ==
    ASSUME DeliveryInv, DeliveryInv', CtrlLoop \/ SendLoop \/ Sender \/ SenderReadError
    PROVE  [Delivery!Next]_(Delivery!vars)
<1>t. /\ back \in Seq(ControlMessage) /\ bar \in Nat /\ bar' \in Nat
      /\ done \subseteq Chunks /\ Cardinality(done) \in Nat /\ bar' <= Cardinality(done')
      /\ bar <= ChunkCount
  BY ChunkSets, RelayTransferAssumption DEF DeliveryInv, Inv, TypeOK, ReportInv
<1>r. rpc' = rpc /\ done' = done
  BY DEF CtrlLoop, CtrlProgress, CtrlNack, CtrlComplete, CtrlRecv, SendLoop, SendNext, WriteChunk,
         Sender, SendManifest, RecvReply, SendFinish, SenderConnError, SenderReadError, rcv
<1> USE DEF Delivery!vars, Outcome
<1>1. CASE spc' \in SenderStates \ {"done", "err"} /\ spc \in SenderStates \ {"done", "err"}
           /\ bar <= bar'
  <2>1. CASE bar' = bar
    BY <1>1, <1>r, <2>1
  <2>2. CASE bar' # bar
    <3>1. bar' \in bar + 1 .. Cardinality(done)
      BY <1>t, <1>r, <1>1, <2>2
    <3>2. Delivery!Report
      BY <1>1, <1>r, <3>1, SameCount DEF Delivery!Report
    <3>3. QED
      BY <3>2 DEF Delivery!Next
  <2>3. QED
    BY <2>1, <2>2
<1>2. CASE spc \in {"offer", "reply", "run"} /\ spc' = "err" /\ bar' = bar
  BY <1>2, <1>r DEF Delivery!Next, Delivery!Fail
<1>3. CASE SendFinish
  <2>1. spc = "run" /\ spc' = "done" /\ bar' = bar /\ done = Chunks /\ bar = Cardinality(Chunks)
    BY <1>3, ChunkSets DEF SendFinish, SenderLeaves, DeliveryInv, ReportInv, WholeInv
  <2>2. QED
    BY <1>r, <2>1, SameCount DEF Delivery!Next, Delivery!SenderOk
<1>4. CASE CtrlLoop
  <2>1. CASE CtrlProgress
    <3>1. /\ back # <<>> /\ Head(back).type = "progress" /\ bar' = Head(back).done
          /\ ~ctrlDone /\ spc = "run" /\ spc' = spc
      BY <2>1 DEF CtrlProgress, CtrlRecv
    <3>2. ReportsAtMost(back, Cardinality(done)) /\ ReportsGrow(back, bar)
      BY <3>1 DEF DeliveryInv, ReportInv
    <3>3. bar <= bar'
      BY <1>t, <3>1, <3>2, ReportsTail
    <3>4. QED
      BY <1>1, <3>1, <3>3 DEF SenderStates
  <2>2. CASE CtrlNack \/ CtrlComplete
    BY <1>1, <1>t, <2>2 DEF CtrlNack, CtrlComplete, CtrlRecv, SenderStates
  <2>3. QED
    BY <1>4, <2>1, <2>2 DEF CtrlLoop
<1>5. CASE SendLoop \/ SendManifest
  BY <1>1, <1>t, <1>5 DEF SendLoop, SendNext, WriteChunk, SendManifest, SenderStates
<1>6. CASE RecvReply
  <2>1. spc = "reply" /\ spc' = "run"
    BY <1>6, Zenon DEF RecvReply
  <2>2. bar = 0
    BY <2>1 DEF DeliveryInv, Inv, StartInv
  <2>3. QED
    BY <1>1, <1>t, <2>1, <2>2 DEF SenderStates
<1>7. CASE SenderConnError \/ SenderReadError
  BY <1>2, <1>7 DEF SenderConnError, SenderReadError, SenderLeaves
<1>8. QED
  BY <1>3, <1>4, <1>5, <1>6, <1>7 DEF Sender

\* The receiver accepts a chunk, takes up an earlier transfer, or its call ends.
LEMMA ReceiverDelivers ==
    ASSUME DeliveryInv, DeliveryInv', Receiver \/ ReadDamaged \/ DiskError
    PROVE  [Delivery!Next]_(Delivery!vars)
<1> DEFINE Live == ReceiverStates \ {"done", "err"}
<1>s. spc' = spc /\ bar' = bar
  BY DEF Receiver, Negotiate, ReadChunk, SendNack, Report, SaveState, SendComplete, Cleanup,
         ReceiverConnError, ReadDamaged, DiskError, snd
<1>t. saved \subseteq Chunks /\ done \subseteq Chunks
  BY DEF DeliveryInv, Inv, TypeOK
<1> USE DEF Delivery!vars, Outcome, ReceiverStates
<1>1. CASE rpc \in Live /\ rpc' \in Live /\ done' = done
  BY <1>1, <1>s
<1>2. CASE rpc \in Live /\ rpc' = "err" /\ done' = done
  BY <1>2, <1>s DEF Delivery!Next, Delivery!Fail
<1>3. CASE Negotiate
  <2>1. rpc = "hello" /\ rpc' = AfterLoop(saved) /\ done' = saved
    BY <1>3, Zenon DEF Negotiate, SendCtrl
  <2>2. done = {}
    BY <2>1 DEF DeliveryInv, Inv, StartInv
  <2>3. Delivery!Resume
    BY <1>s, <1>t, <2>1, <2>2 DEF Delivery!Resume, AfterLoop
  <2>4. QED
    BY <2>3 DEF Delivery!Next
<1>4. CASE ReadChunk
  <2>1. rpc = "read" /\ rpc' = "report" /\ done' = done \cup {Head(fwd)} /\ fwd # <<>>
    BY <1>4 DEF ReadChunk
  <2>2. Head(fwd) \in Chunks \ done
    BY <2>1, NextOnStream, Apart DEF DeliveryInv, Inv, PlacesInv
  <2>3. Delivery!Accept
    BY <1>s, <2>1, <2>2 DEF Delivery!Accept
  <2>4. QED
    BY <2>3 DEF Delivery!Next
<1>5. CASE Cleanup
  <2>1. rpc = "cleanup" /\ rpc' = "done" /\ done' = done /\ done = Chunks
    BY <1>5 DEF Cleanup, ReceiverLeaves, DeliveryInv, ReportInv, WholeInv
  <2>2. QED
    BY <1>s, <2>1 DEF Delivery!Next, Delivery!ReceiverOk
<1>6. CASE SendNack \/ Report \/ SaveState \/ SendComplete \/ ReadDamaged
  <2>1. CASE SendNack \/ SaveState \/ SendComplete \/ ReadDamaged
    BY <1>1, <2>1 DEF SendNack, SaveState, SendComplete, SendCtrl, AfterLoop, ReadDamaged
  <2>2. CASE Report
    BY <1>1, <2>2 DEF Report, SendCtrl, AfterLoop
  <2>3. QED
    BY <1>6, <2>1, <2>2
<1>7. CASE ReceiverConnError \/ DiskError
  BY <1>2, <1>7 DEF ReceiverConnError, DiskError, ReceiverLeaves
<1>8. QED
  BY <1>3, <1>4, <1>5, <1>6, <1>7 DEF Receiver

\* A side that quits fails; the blocking pool and the stream show nothing.
LEMMA OthersDeliver ==
    ASSUME DeliveryInv, Land \/ RelayBreaks \/ Reset \/ Quit \/ UNCHANGED vars
    PROVE  [Delivery!Next]_(Delivery!vars)
<1> USE DEF Delivery!vars, Outcome
<1>1. CASE Land \/ RelayBreaks \/ Reset \/ UNCHANGED vars
  <2>1. UNCHANGED <<snd, rcv>>
    BY <1>1 DEF Land, RelayBreaks, Reset, vars
  <2>2. QED
    BY <2>1 DEF snd, rcv
<1>2. CASE Quit
  <2>1. \/ /\ spc \notin {"done", "err"} /\ spc' = "err" /\ bar' = bar
           /\ rpc' = rpc /\ done' = done
        \/ /\ rpc \notin {"done", "err"} /\ rpc' = "err" /\ done' = done
           /\ spc' = spc /\ bar' = bar
    BY <1>2 DEF Quit, SenderLeaves, ReceiverLeaves, snd, rcv
  <2>2. QED
    BY <2>1 DEF Delivery!Next, Delivery!Fail
<1>3. QED
  BY <1>1, <1>2

LEMMA NextDelivers == DeliveryInv /\ DeliveryInv' /\ [Next]_vars => [Delivery!Next]_(Delivery!vars)
<1> SUFFICES ASSUME DeliveryInv, DeliveryInv', [Next]_vars
             PROVE  [Delivery!Next]_(Delivery!vars)
  OBVIOUS
<1>1. CASE CtrlLoop \/ SendLoop \/ Sender \/ SenderReadError
  BY <1>1, SenderDelivers
<1>2. CASE Receiver \/ ReadDamaged \/ DiskError
  BY <1>2, ReceiverDelivers
<1>3. CASE Land \/ RelayBreaks \/ Reset \/ Quit \/ UNCHANGED vars
  BY <1>3, OthersDeliver
<1>4. QED
  BY <1>1, <1>2, <1>3 DEF Next, Environment, Terminated

LEMMA DeliveryInvariance == Spec => []DeliveryInv
BY InitReportInv, NextKeepsReports, Invariance, PTL DEF Spec, DeliveryInv

\* send_file_relay against receive_file_relay keeps the promise of the direct
\* transfer, whatever is damaged, reset or killed: chunks are accepted one by
\* one or resumed at once, the bar follows and never falls back, and an Ok on
\* either side takes the whole file (relay_sender.rs:74-118,
\* relay_receiver.rs:22-177).
THEOREM RelayImplementsDelivery == Spec => DeliversFile
<1>1. Init => Delivery!Init
  BY DEF Init, Delivery!Init, Outcome
<1>2. DeliveryInv /\ DeliveryInv' /\ [Next]_vars => [Delivery!Next]_(Delivery!vars)
  BY NextDelivers
<1>3. QED
  BY <1>1, <1>2, DeliveryInvariance, PTL DEF Spec, DeliversFile, Delivery!Spec

-----------------------------------------------------------------------------
(* How many chunks a jam takes.  A report on the stream stands for a chunk  *)
(* accepted before it was written, and no two reports for the same one; a   *)
(* NACK stands for the chunk it names.                                      *)

\* The reports on q differ, and lie between 1 and n.
Tally(q, n) ==
    /\ \A i \in DOMAIN q : q[i].type = "progress" => q[i].done \in 1 .. n
    /\ \A i, j \in DOMAIN q : q[i].type = "progress" /\ q[i] = q[j] => i = j

NoReplies(q) == \A i \in DOMAIN q : q[i].type \notin {"ack", "resume"}

\* The chunk at hand is counted and not yet reported.
Reported == IF rpc = "report" THEN confirmed - 1 ELSE confirmed

TallyInv ==
    /\ rpc = "report" => confirmed >= 1
    /\ Tally(back, Reported)
    /\ spc = "run" => NoReplies(back)

LEMMA TallyAppend ==
    ASSUME NEW q \in Seq(ControlMessage), NEW m \in ControlMessage, NEW n \in Nat, Tally(q, n)
    PROVE  /\ m.type # "progress" => Tally(Append(q, m), n)
           /\ m.type = "progress" /\ m.done = n + 1 => Tally(Append(q, m), n + 1)
           /\ m.type \notin {"ack", "resume"} /\ NoReplies(q) => NoReplies(Append(q, m))
<1> DEFINE r == Append(q, m)
<1>1. /\ Len(q) \in Nat /\ DOMAIN q = 1 .. Len(q) /\ DOMAIN r = 1 .. Len(q) + 1
      /\ \A i \in 1 .. Len(q) : r[i] = q[i]
      /\ r[Len(q) + 1] = m
  BY AppendByPosition
<1>2. \A i \in 1 .. Len(q) + 1 : i \in 1 .. Len(q) \/ i = Len(q) + 1
  BY <1>1
<1> HIDE DEF r
<1>3. ASSUME m.type # "progress" PROVE Tally(r, n)
  BY <1>1, <1>2, <1>3 DEF Tally
<1>4. ASSUME m.type = "progress", m.done = n + 1 PROVE Tally(r, n + 1)
  <2>1. \A i \in 1 .. Len(q) : q[i].type = "progress" => q[i].done \in 1 .. n /\ q[i] # m
    BY <1>1, <1>4 DEF Tally
  <2>2. \A i \in DOMAIN r : r[i].type = "progress" => r[i].done \in 1 .. n + 1
    BY <1>1, <1>2, <1>4, <2>1
  <2>3. \A i, j \in DOMAIN r : r[i].type = "progress" /\ r[i] = r[j] => i = j
    BY <1>1, <1>2, <1>4, <2>1 DEF Tally
  <2>4. QED
    BY <2>2, <2>3 DEF Tally
<1>5. ASSUME m.type \notin {"ack", "resume"}, NoReplies(q) PROVE NoReplies(r)
  BY <1>1, <1>2, <1>5 DEF NoReplies
<1>6. QED
  BY <1>3, <1>4, <1>5 DEF r

\* Messages taken off either end.
LEMMA TallyShrinks ==
    ASSUME NEW q, NEW r, NEW k \in Nat, NEW n, Tally(q, n), DOMAIN r \subseteq Nat,
           \A i \in DOMAIN r : i + k \in DOMAIN q /\ r[i] = q[i + k]
    PROVE  Tally(r, n) /\ (NoReplies(q) => NoReplies(r))
<1>1. ASSUME NEW i \in DOMAIN r, NEW j \in DOMAIN r, r[i].type = "progress", r[i] = r[j]
      PROVE  i = j
  <2>1. i + k = j + k
    BY <1>1 DEF Tally
  <2>2. QED
    BY <2>1
<1>2. \A i \in DOMAIN r : r[i].type = "progress" => r[i].done \in 1 .. n
  BY DEF Tally
<1>3. QED
  BY <1>1, <1>2 DEF Tally, NoReplies

LEMMA TallyTail ==
    ASSUME NEW q \in Seq(ControlMessage), q # <<>>, NEW n, Tally(q, n)
    PROVE  Tally(Tail(q), n) /\ (NoReplies(q) => NoReplies(Tail(q)))
<1> DEFINE r == Tail(q)
<1>1. DOMAIN r \subseteq Nat /\ \A i \in DOMAIN r : i + 1 \in DOMAIN q /\ r[i] = q[i + 1]
  BY TailByPosition
<1> HIDE DEF r
<1>2. Tally(r, n) /\ (NoReplies(q) => NoReplies(r))
  BY <1>1, TallyShrinks
<1>3. QED
  BY <1>2 DEF r

LEMMA InitTallyInv == Init => TallyInv
BY DEF Init, TallyInv, Tally, NoReplies, Reported

LEMMA SenderKeepsTally ==
    ASSUME Inv, TallyInv, CtrlLoop \/ SendLoop \/ Sender \/ SenderReadError
    PROVE  TallyInv'
<1>t. back \in Seq(ControlMessage)
  BY DEF Inv, TypeOK
<1>r. UNCHANGED <<rpc, confirmed>> /\ Reported' = Reported
  BY DEF CtrlLoop, CtrlProgress, CtrlNack, CtrlComplete, CtrlRecv, SendLoop, SendNext, WriteChunk,
         Sender, SendManifest, RecvReply, SendFinish, SenderConnError, SenderReadError, rcv, Reported
<1>1. CASE back' = back /\ (spc' = "run" => spc = "run")
  BY <1>1, <1>r DEF TallyInv
<1>2. CASE CtrlLoop
  <2>1. back # <<>> /\ back' = Tail(back) /\ spc = "run"
    BY <1>2 DEF CtrlLoop, CtrlProgress, CtrlNack, CtrlComplete, CtrlRecv
  <2>2. Tally(back', Reported) /\ NoReplies(back')
    BY <1>t, <2>1, TallyTail DEF TallyInv
  <2>3. QED
    BY <1>r, <2>2 DEF TallyInv
<1>3. CASE RecvReply
  <2>1. back # <<>> /\ back' = Tail(back) /\ spc = "reply"
    BY <1>3, Zenon DEF RecvReply
  <2>2. Tally(back', Reported)
    BY <1>t, <2>1, TallyTail DEF TallyInv
  <2>3. \A i \in DOMAIN back : i # 1 => back[i] = Complete
    BY <2>1 DEF Inv, StartInv
  <2>4. \A i \in DOMAIN back' : back'[i] = Complete
    BY <1>t, <2>1, <2>3, TailByPosition
  <2>5. NoReplies(back')
    BY <2>4 DEF NoReplies, Complete
  <2>6. QED
    BY <1>r, <2>2, <2>5 DEF TallyInv
<1>4. CASE SendLoop \/ SendManifest \/ SendFinish \/ SenderConnError \/ SenderReadError
  BY <1>1, <1>4
  DEF SendLoop, SendNext, WriteChunk, SendManifest, SendFinish, SenderConnError, SenderReadError,
      SenderLeaves, net
<1>5. QED
  BY <1>2, <1>3, <1>4 DEF CtrlLoop, Sender

LEMMA ReceiverKeepsTally ==
    ASSUME Inv, TallyInv, Receiver \/ ReadDamaged \/ DiskError
    PROVE  TallyInv'
<1>t. /\ back \in Seq(ControlMessage) /\ saved \subseteq Chunks
      /\ confirmed \in Nat /\ confirmed <= ChunkCount /\ Reported \in Int
  BY RelayTransferAssumption DEF Inv, TypeOK, Reported
<1>s. spc' = spc
  BY DEF Receiver, Negotiate, ReadChunk, SendNack, Report, SaveState, SendComplete, Cleanup,
         ReceiverConnError, ReadDamaged, DiskError, snd
<1>1. CASE Negotiate
  <2> DEFINE m == IF saved # {} THEN ResumeRequest(saved) ELSE Ack
  <2>1. /\ rpc = "hello" /\ rpc' \in {"read", "final"} /\ back' = Append(back, m)
        /\ confirmed' = Cardinality(done') /\ done' = saved
    BY <1>1, Zenon DEF Negotiate, SendCtrl, AfterLoop
  <2>2. m.type # "progress"
    BY DEF Ack, ResumeRequest
  <2>3. back = <<>> /\ spc # "run"
    BY <2>1 DEF Inv, StartInv
  <2> HIDE DEF m
  <2>4. \A i \in DOMAIN back' : back'[i] = m
    BY <2>1, <2>3
  <2>5. QED
    BY <1>s, <2>1, <2>2, <2>3, <2>4 DEF TallyInv, Tally
<1>2. CASE ReadChunk
  <2>1. rpc = "read" /\ rpc' = "report" /\ confirmed' = confirmed + 1 /\ back' = back
    BY <1>2 DEF ReadChunk
  <2>2. Reported' = Reported /\ confirmed' >= 1
    BY <1>t, <2>1 DEF Reported
  <2>3. QED
    BY <1>s, <2>1, <2>2 DEF TallyInv
<1>3. CASE Report
  <2>1. /\ rpc = "report" /\ back' = Append(back, Progress(confirmed)) /\ confirmed' = confirmed
        /\ rpc' # "report"
    BY <1>3 DEF Report, SendCtrl, AfterLoop
  <2>2. /\ Progress(confirmed) \in ControlMessage /\ Progress(confirmed).type = "progress"
        /\ Progress(confirmed).done = confirmed
    BY <1>t, MessageTypes DEF Progress
  <2>3. Reported \in Nat /\ confirmed = Reported + 1 /\ Reported' = Reported + 1
    BY <1>t, <2>1 DEF TallyInv, Reported
  <2> DEFINE m == Progress(confirmed)
  <2>4. Tally(Append(back, m), Reported + 1) /\ (NoReplies(back) => NoReplies(Append(back, m)))
    BY <1>t, <2>2, <2>3, TallyAppend DEF TallyInv
  <2>5. QED
    BY <1>s, <2>1, <2>3, <2>4 DEF TallyInv
<1>4. CASE SendNack \/ SendComplete
  <2>1. \E m \in ControlMessage :
            /\ back' = Append(back, m) /\ confirmed' = confirmed
            /\ m.type \notin {"progress", "ack", "resume"}
            /\ rpc # "report" /\ rpc' # "report"
    <3>1. CASE SendNack
      <4>1. cur \in Chunks
        BY <3>1 DEF SendNack, Inv, TypeOK
      <4>2. QED
        BY <3>1, <4>1, MessageTypes DEF SendNack, SendCtrl, ChunkNack
    <3>2. CASE SendComplete
      BY <3>2, MessageTypes DEF SendComplete, SendCtrl, Complete
    <3>3. QED
      BY <1>4, <3>1, <3>2
  <2>2. PICK m \in ControlMessage :
            /\ back' = Append(back, m) /\ confirmed' = confirmed
            /\ m.type \notin {"progress", "ack", "resume"}
            /\ rpc # "report" /\ rpc' # "report"
    BY <2>1
  <2>3. Reported' = Reported /\ Reported \in Nat
    BY <1>t, <2>2 DEF Reported
  <2>4. Tally(back', Reported) /\ (NoReplies(back) => NoReplies(back'))
    BY <1>t, <2>2, <2>3, TallyAppend DEF TallyInv
  <2>5. QED
    BY <1>s, <2>2, <2>3, <2>4 DEF TallyInv
<1>5. CASE SaveState \/ Cleanup \/ ReceiverConnError \/ ReadDamaged \/ DiskError
  <2>1. UNCHANGED <<back, confirmed>> /\ rpc' # "report"
    BY <1>5
    DEF SaveState, Cleanup, ReceiverConnError, ReadDamaged, DiskError, ReceiverLeaves, AfterLoop, net
  <2>2. Tally(back', Reported')
    BY <1>t, <2>1 DEF TallyInv, Reported, Tally
  <2>3. QED
    BY <1>s, <2>1, <2>2 DEF TallyInv
<1>6. QED
  BY <1>1, <1>2, <1>3, <1>4, <1>5 DEF Receiver

LEMMA NextKeepsTally == Inv /\ TallyInv /\ [Next]_vars => TallyInv'
<1> SUFFICES ASSUME Inv, TallyInv, [Next]_vars PROVE TallyInv'
  OBVIOUS
<1>t. back \in Seq(ControlMessage) /\ confirmed \in Nat /\ Len(back) \in Nat
  BY DEF Inv, TypeOK
<1>1. CASE CtrlLoop \/ SendLoop \/ Sender \/ SenderReadError
  BY <1>1, SenderKeepsTally
<1>2. CASE Receiver \/ ReadDamaged \/ DiskError
  BY <1>2, ReceiverKeepsTally
<1>3. CASE Land \/ RelayBreaks \/ Quit \/ UNCHANGED vars
  <2>1. UNCHANGED <<back, confirmed>> /\ rpc' \in {rpc, "err"} /\ spc' \in {spc, "err"}
    BY <1>3 DEF Land, RelayBreaks, Quit, SenderLeaves, ReceiverLeaves, vars, net, snd, rcv
  <2>2. Tally(back', Reported')
    BY <1>t, <2>1 DEF TallyInv, Reported, Tally
  <2>3. QED
    BY <2>1, <2>2 DEF TallyInv
<1>4. CASE Reset
  <2>1. UNCHANGED <<snd, rcv>> /\ \E j \in 0 .. Len(back) : back' = SubSeq(back, 1, j)
    BY <1>4 DEF Reset
  <2>2. PICK j \in 0 .. Len(back) : back' = SubSeq(back, 1, j)
    BY <2>1
  <2>3. /\ DOMAIN back' \subseteq Nat
        /\ \A i \in DOMAIN back' : i + 0 \in DOMAIN back /\ back'[i] = back[i + 0]
    BY <1>t, <2>2, PrefixByPosition
  <2>4. Tally(back', Reported) /\ (NoReplies(back) => NoReplies(back'))
    BY <2>3, TallyShrinks DEF TallyInv
  <2>5. QED
    BY <2>1, <2>4 DEF TallyInv, Reported, snd, rcv
<1>5. QED
  BY <1>1, <1>2, <1>3, <1>4 DEF Next, Environment, Terminated

LEMMA CountUpTo == \A k \in Nat : IsFiniteSet(1 .. k) /\ Cardinality(1 .. k) = k
<1> TAKE k \in Nat
<1>1. IsFiniteSet(1 .. k) /\ Cardinality(1 .. k) = IF 1 > k THEN 0 ELSE k - 1 + 1
  BY FS_Interval
<1>2. (IF 1 > k THEN 0 ELSE k - 1 + 1) = k
  OBVIOUS
<1>3. QED
  BY <1>1, <1>2

LEMMA CountApart ==
    ASSUME NEW S, NEW T, IsFiniteSet(S), IsFiniteSet(T), S \cap T = {}
    PROVE  /\ IsFiniteSet(S \cup T)
           /\ Cardinality(S \cup T) = Cardinality(S) + Cardinality(T)
<1>1. /\ IsFiniteSet(S \cup T)
      /\ Cardinality(S \cup T) = Cardinality(S) + Cardinality(T) - Cardinality(S \cap T)
  BY FS_Union
<1>2. Cardinality(S \cap T) = 0 /\ Cardinality(S) \in Nat /\ Cardinality(T) \in Nat
  BY FS_EmptySet, FS_CardinalityType
<1>3. QED
  BY <1>1, <1>2

\* As many chunks are counted or asked for again as there are messages of the
\* two kinds.
LEMMA MessagesStandForChunks ==
    ASSUME NEW q \in Seq(ControlMessage), NEW n \in Nat, Tally(q, n), NackedOnce(q),
           \A i \in DOMAIN q : q[i].type \in {"progress", "nack"}
    PROVE  /\ IsFiniteSet(Nacks(q))
           /\ Len(q) <= n + Cardinality(Nacks(q))
<1> DEFINE D == 1 .. Len(q)
           P == {i \in D : q[i].type = "progress"}
           N == {i \in D : q[i].type = "nack"}
           f == [i \in P |-> q[i].done]
           g == [i \in N |-> q[i].chunk]
<1>t. /\ DOMAIN q = D /\ Len(q) \in Nat
      /\ \A i \in D : q[i] \in ControlMessage
  OBVIOUS
<1>1. IsFiniteSet(D) /\ Cardinality(D) = Len(q) /\ IsFiniteSet(1 .. n) /\ Cardinality(1 .. n) = n
  BY <1>t, CountUpTo
<1>2. IsFiniteSet(P) /\ IsFiniteSet(N)
  BY <1>1, FS_Subset
<1>3. P \cup N = D /\ P \cap N = {}
  BY <1>t
<1>4. Cardinality(P) + Cardinality(N) = Len(q)
  <2> HIDE DEF P, N, D
  <2>1. Cardinality(P \cup N) = Cardinality(P) + Cardinality(N)
    BY <1>2, <1>3, CountApart
  <2>2. QED
    BY <1>1, <1>3, <2>1
<1>5. Cardinality(P) <= n
  <2>1. f \in [P -> 1 .. n]
    BY <1>t DEF Tally
  <2>2. \A i, j \in P : f[i] = f[j] => i = j
    <3>1. \A i \in P : q[i] = Progress(f[i])
      BY <1>t DEF ControlMessage, Progress
    <3> HIDE DEF f
    <3>2. QED
      BY <1>t, <3>1 DEF Tally
  <2> HIDE DEF f, P
  <2>3. f \in Injection(P, 1 .. n)
    BY <2>1, <2>2 DEF Injection, IsInjective
  <2>4. QED
    BY <1>1, <2>3, FS_Injection
<1>6. IsFiniteSet(Nacks(q))
  <2>1. Nacks(q) \in SUBSET Chunks /\ IsFiniteSet(Chunks)
    BY FS_Interval, RelayTransferAssumption DEF Nacks, Chunks
  <2>2. QED
    BY <2>1, FS_Subset
<1>7. Cardinality(N) <= Cardinality(Nacks(q))
  <2>1. \A i \in N : q[i].chunk \in Chunks /\ q[i] = ChunkNack(q[i].chunk)
    BY <1>t, MessagePayloads
  <2>2. g \in [N -> Nacks(q)]
    BY <1>t, <2>1 DEF Nacks
  <2>3. \A i, j \in N : g[i] = g[j] => i = j
    BY <1>t, <2>1 DEF NackedOnce
  <2> HIDE DEF g, N
  <2>4. g \in Injection(N, Nacks(q))
    BY <2>2, <2>3 DEF Injection, IsInjective
  <2>5. QED
    BY <1>6, <2>4, FS_Injection
<1> HIDE DEF P, N
<1>8. QED
  BY <1>t, <1>2, <1>4, <1>5, <1>6, <1>7, FS_CardinalityType

\* A stream on which no chunk is twice holds as many chunks as places.
LEMMA StreamHoldsChunks ==
    ASSUME NEW q \in Seq(Chunks), Once(q)
    PROVE  IsFiniteSet(Range(q)) /\ Len(q) <= Cardinality(Range(q))
<1>1. DOMAIN q = 1 .. Len(q) /\ Len(q) \in Nat /\ Range(q) \in SUBSET Chunks
  BY DEF Range
<1>2. IsFiniteSet(Range(q))
  <2>1. IsFiniteSet(Chunks)
    BY FS_Interval, RelayTransferAssumption DEF Chunks
  <2>2. QED
    BY <1>1, <2>1, FS_Subset
<1>3. q \in [1 .. Len(q) -> Range(q)]
  BY <1>1 DEF Range
<1>4. q \in Injection(1 .. Len(q), Range(q))
  BY <1>1, <1>3 DEF Injection, IsInjective, Once
<1>5. Cardinality(1 .. Len(q)) = Len(q)
  BY <1>1, FS_Interval
<1>6. QED
  BY <1>2, <1>4, <1>5, FS_Injection

LEMMA FourApart ==
    ASSUME NEW A \in SUBSET Chunks, NEW B \in SUBSET Chunks,
           NEW C \in SUBSET Chunks, NEW D \in SUBSET Chunks,
           A \cap B = {}, A \cap C = {}, A \cap D = {},
           B \cap C = {}, B \cap D = {}, C \cap D = {}
    PROVE  Cardinality(A) + Cardinality(B) + Cardinality(C) + Cardinality(D) <= ChunkCount
<1>1. IsFiniteSet(Chunks) /\ Cardinality(Chunks) = ChunkCount
  BY FS_Interval, RelayTransferAssumption DEF Chunks
<1>2. IsFiniteSet(A) /\ IsFiniteSet(B) /\ IsFiniteSet(C) /\ IsFiniteSet(D)
  BY <1>1, FS_Subset
<1>4. IsFiniteSet(A \cup B) /\ Cardinality(A \cup B) = Cardinality(A) + Cardinality(B)
  BY <1>2, CountApart
<1>5. IsFiniteSet(C \cup D) /\ Cardinality(C \cup D) = Cardinality(C) + Cardinality(D)
  BY <1>2, CountApart
<1>6. (A \cup B) \cap (C \cup D) = {}
  OBVIOUS
<1>7. Cardinality((A \cup B) \cup (C \cup D)) = Cardinality(A \cup B) + Cardinality(C \cup D)
  BY <1>4, <1>5, <1>6, CountApart
<1>8. Cardinality((A \cup B) \cup (C \cup D)) <= Cardinality(Chunks)
  BY <1>1, FS_Subset
<1>9. \A S \in {A, B, C, D} : Cardinality(S) \in Nat
  BY <1>2, FS_CardinalityType
<1>10. QED
  BY <1>1, <1>4, <1>5, <1>7, <1>8, <1>9

LEMMA JamTakesChunks ==
    ASSUME Inv, WholeInv, TallyInv, Jammed
    PROVE  ChunkCount >= Forward + Back + 2
<1>t. /\ back \in Seq(ControlMessage) /\ fwd \in Seq(Chunks) /\ done \in SUBSET Chunks
      /\ confirmed = Cardinality(done) /\ Cardinality(done) \in Nat
      /\ held["ctrl"] \in Chunks /\ Forward \in Nat /\ Back \in Nat /\ ChunkCount \in Nat
      /\ Len(fwd) = Forward /\ Len(back) = Back
      /\ Once(fwd) /\ NackedOnce(back) /\ Disjoint(Where)
      /\ Nacks(back) \in SUBSET Chunks /\ Range(fwd) \in SUBSET Chunks
  BY ChunkSets, RelayTransferAssumption
  DEF Jammed, Inv, TypeOK, PlacesInv, CountInv, Loops, Nacks, Range
<1> DEFINE x == held["ctrl"]  R == Range(fwd)  K == Nacks(back)
<1>1. /\ x \notin done /\ x \notin R /\ x \notin K
      /\ done \cap R = {} /\ done \cap K = {} /\ R \cap K = {}
  <2>1. \A p, q \in {"ctrl", "fwd", "nack", "done"} : p # q => Where[p] \cap Where[q] = {}
    BY <1>t DEF Disjoint, Places
  <2>2. x \in Chunk(x)
    BY <1>t, NoneIsNoChunk DEF Chunk
  <2>3. QED
    BY <2>1, <2>2, WhereIs
<1>2. done # Chunks
  BY <1>t, <1>1
<1>3. rpc \in {"nack", "report"}
  BY <1>2 DEF Jammed, WholeInv
<1>4. \A i \in DOMAIN back : back[i].type \in {"progress", "nack"}
  <2>1. \A i \in DOMAIN back : back[i].type \notin {"ack", "resume", "complete"}
    BY <1>2 DEF Jammed, TallyInv, NoReplies, WholeInv
  <2>2. \A i \in DOMAIN back : back[i] \in ControlMessage
    BY <1>t
  <2>3. QED
    BY <2>1, <2>2 DEF ControlMessage
<1>5. Reported \in Nat /\ Tally(back, Reported)
  BY <1>t DEF TallyInv, Reported
<1>6. Back <= Reported + Cardinality(K)
  BY <1>t, <1>4, <1>5, MessagesStandForChunks
<1>7. Forward <= Cardinality(R)
  BY <1>t, StreamHoldsChunks
<1>8. Cardinality(K) \in Nat /\ Cardinality(R) \in Nat
  BY <1>t, ChunkSets
<1>9. CASE rpc = "report"
  <2>1. Cardinality({x}) = 1
    BY FS_Singleton
  <2>2. Cardinality(done) + Cardinality(R) + Cardinality(K) + Cardinality({x}) <= ChunkCount
    <3> HIDE DEF x, R, K
    <3>1. {x} \in SUBSET Chunks /\ R \in SUBSET Chunks /\ K \in SUBSET Chunks
      BY <1>t DEF x, R, K
    <3>2. QED
      BY <1>t, <1>1, <3>1, FourApart
  <2>3. Reported = Cardinality(done) - 1
    BY <1>t, <1>9 DEF Reported
  <2> HIDE DEF x, R, K
  <2>4. QED
    BY <1>t, <1>6, <1>7, <1>8, <2>1, <2>2, <2>3
<1>10. CASE rpc = "nack"
  <2>1. cur \in Chunks
    BY <1>10, NoneIsNoChunk DEF Inv, TypeOK
  <2>2. cur # x /\ cur \notin done /\ cur \notin R /\ cur \notin K
    <3>1. \A p \in {"ctrl", "fwd", "nack", "done"} : Where["cur"] \cap Where[p] = {}
      BY <1>t DEF Disjoint, Places
    <3>2. cur \in Chunk(cur) /\ x \in Chunk(x)
      BY <1>t, <2>1, NoneIsNoChunk DEF Chunk
    <3>3. QED
      BY <3>1, <3>2, WhereIs
  <2>3. Cardinality({x, cur}) = 2
    <3> HIDE DEF x
    <3>1. {x, cur} = {x} \cup {cur} /\ {x} \cap {cur} = {}
      BY <2>2
    <3>2. /\ IsFiniteSet({x}) /\ Cardinality({x}) = 1
          /\ IsFiniteSet({cur}) /\ Cardinality({cur}) = 1
      BY FS_Singleton
    <3>3. Cardinality({x} \cup {cur}) = 1 + 1
      BY <3>1, <3>2, CountApart
    <3>4. QED
      BY <3>1, <3>3
  <2>4. Cardinality(done) + Cardinality(R) + Cardinality(K) + Cardinality({x, cur}) <= ChunkCount
    <3> HIDE DEF x, R, K
    <3>1. {x, cur} \in SUBSET Chunks /\ R \in SUBSET Chunks /\ K \in SUBSET Chunks
      BY <1>t, <2>1 DEF x, R, K
    <3>2. QED
      BY <1>t, <1>1, <2>2, <3>1, FourApart
  <2>5. Reported = Cardinality(done)
    BY <1>t, <1>10 DEF Reported
  <2> HIDE DEF x, R, K
  <2>6. QED
    BY <1>t, <1>6, <1>7, <1>8, <2>3, <2>4, <2>5
<1>11. QED
  BY <1>3, <1>9, <1>10

\* The two sides of a relayed transfer come to wait for each other only over a
\* file of Forward + Back + 2 chunks or more: fewer cannot fill both directions
\* while the ctrl loop and the receiver each hold one
\* (relay_sender.rs:92-113, relay_receiver.rs:103-155).
THEOREM JamsTakeLongFiles == Spec => []SmallFilesNeverJam
<1>1. Inv /\ ReportInv /\ TallyInv => SmallFilesNeverJam
  <2> SUFFICES ASSUME Inv, ReportInv, TallyInv, Jammed, ChunkCount < Forward + Back + 2
               PROVE  FALSE
    BY DEF SmallFilesNeverJam
  <2>1. ChunkCount >= Forward + Back + 2
    BY JamTakesChunks DEF ReportInv
  <2>2. QED
    BY <2>1, RelayTransferAssumption
<1>2. QED
  BY <1>1, InitTallyInv, NextKeepsTally, DeliveryInvariance, Invariance, PTL DEF Spec, DeliveryInv

=============================================================================
