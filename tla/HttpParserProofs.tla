-------------------------- MODULE HttpParserProofs --------------------------
(***************************************************************************)
(* Proofs about the TCP buffer and the HTTP parser, for any streams, any   *)
(* initial capacity and any sizes of what recv() returns.                  *)
(*                                                                         *)
(* BufferInv: the readable part of the buffer is what was received and not *)
(* consumed.  HoldInv says so element by element, at positions that do not *)
(* move when something is consumed.  That what is consumed is a number at  *)
(* all needs ParserInv: the length of a body comes from a header.  Once    *)
(* memcpy() has destroyed the data, HoldInv is lost for good, PlaceInv and *)
(* ParserInv are not (SoundInv).                                           *)
(*                                                                         *)
(* TrackInv: the parser, which takes whole lines and bodies, is where the  *)
(* reference Decode, which reads one unit at a time, is after what was     *)
(* consumed.  Between them are the lemmas on what the reference makes of a *)
(* part of a line, a line, a part of a body and a body; they are proved by *)
(* induction over the units.                                               *)
(***************************************************************************)
EXTENDS HttpParser, NaturalsInduction, WellFoundedInduction, TLAPS

\* What an element of the buffer may be.
Cells == Units \cup {Blank}

\* Where things are in the buffer and in the stream.
PlaceInv ==
    /\ memory \in Seq(Cells)
    /\ stream \in Seq(Units)
    /\ read_offset \in Nat /\ write_offset \in Nat /\ received \in Nat
    /\ read_offset <= write_offset /\ write_offset <= Len(memory)
    /\ received <= Len(stream)
    /\ write_offset - read_offset <= received

\* The readable elements are the last ones that were received.
HoldInv ==
    \A i \in read_offset + 1 .. write_offset :
        memory[i] = stream[i + (received - write_offset)]

Requests ==
    [method : {"unsupported", "GET", "POST"},
     connection : {"none", "close", "other"},
     length : Nat,
     body : Seq(Cells)]

\* The parser's members.
ParserInv == request \in Requests /\ body_length \in Nat

BufferInv == PlaceInv /\ HoldInv /\ ParserInv

SoundInv == PlaceInv /\ ParserInv /\ (garbled \/ HoldInv)

-----------------------------------------------------------------------------
(* Numbers *)

\* The smaller and the larger of two numbers.
LEMMA MinMaxFacts ==
    ASSUME NEW m \in Nat, NEW n \in Nat
    PROVE  /\ Min({m, n}) \in Nat /\ Min({m, n}) <= m /\ Min({m, n}) <= n
           /\ Min({m, n}) = m \/ Min({m, n}) = n
           /\ Max({m, n}) \in Nat /\ Max({m, n}) >= m /\ Max({m, n}) >= n
<1>1. \E x \in {m, n} : \A y \in {m, n} : x <= y
  OBVIOUS
<1>2. Min({m, n}) \in {m, n} /\ \A y \in {m, n} : Min({m, n}) <= y
  BY <1>1 DEF Min
<1>3. \E x \in {m, n} : \A y \in {m, n} : x >= y
  OBVIOUS
<1>4. Max({m, n}) \in {m, n} /\ \A y \in {m, n} : Max({m, n}) >= y
  BY <1>3 DEF Max
<1> QED
  BY <1>2, <1>4

\* A set of numbers that is not empty has a smallest element.
LEMMA SmallestExists ==
    ASSUME NEW S, S \subseteq Nat, S # {}
    PROVE  Min(S) \in S /\ \A y \in S : Min(S) <= y
<1>1. PICK x \in S : \A y \in S : ~ (<<y, x>> \in OpToRel(<, Nat))
  BY NatLessThanWellFounded, WFMin
<1>2. \A y \in S : x <= y
  <2>1. ASSUME NEW y \in S PROVE x <= y
    <3>1. ~ (y < x)
      BY <1>1, <2>1 DEF OpToRel
    <3> QED
      BY <3>1
  <2> QED
    BY <2>1
<1> QED
  BY <1>2 DEF Min

\* One with an upper bound has a largest element.
LEMMA LargestExists ==
    ASSUME NEW S, NEW b \in Nat, S \subseteq 0 .. b, S # {}
    PROVE  Max(S) \in S
<1>t. PICK T : T = {x \in 0 .. b : b - x \in S}
  OBVIOUS
<1>1. T \subseteq Nat
  BY <1>t
<1>2. PICK x \in S : TRUE
  OBVIOUS
<1>3. \A y \in S : b - y \in 0 .. b /\ b - (b - y) = y
  OBVIOUS
<1>4. \A y \in S : b - y \in T
  BY <1>t, <1>3
<1>5. PICK m \in T : \A y \in T : m <= y
  BY <1>1, <1>2, <1>4, SmallestExists
<1>6. b - m \in S /\ m \in Nat
  BY <1>t, <1>5
<1>7. \A y \in S : b - m >= y
  <2>1. ASSUME NEW y \in S PROVE b - m >= y
    <3>1. m <= b - y /\ y \in Nat
      BY <1>4, <1>5
    <3> QED
      BY <1>6, <3>1
  <2> QED
    BY <2>1
<1> QED
  BY <1>6, <1>7 DEF Max

-----------------------------------------------------------------------------
(* The buffer *)

\* Writing data into a buffer that has room for it.
LEMMA OverwriteFacts ==
    ASSUME NEW b \in Seq(Cells), NEW o \in Nat, NEW d \in Seq(Cells),
           o + Len(d) <= Len(b)
    PROVE  /\ Overwrite(b, o, d) \in Seq(Cells)
           /\ Len(Overwrite(b, o, d)) = Len(b)
           /\ \A i \in 1 .. Len(b) :
                 /\ i \in o + 1 .. o + Len(d) =>
                       Overwrite(b, o, d)[i] = d[i - o]
                 /\ i \notin o + 1 .. o + Len(d) =>
                       Overwrite(b, o, d)[i] = b[i]
<1>0. /\ Len(b) \in Nat /\ Len(d) \in Nat
      /\ DOMAIN b = 1 .. Len(b) /\ DOMAIN d = 1 .. Len(d)
  OBVIOUS
<1>p. PICK w : w = Overwrite(b, o, d)
  OBVIOUS
<1>1. w = [i \in 1 .. Len(b) |->
             IF i - o \in 1 .. Len(d) THEN d[i - o] ELSE b[i]]
  BY <1>0, <1>p DEF Overwrite
<1>2. \A i \in 1 .. Len(b) :
          i - o \in 1 .. Len(d) <=> i \in o + 1 .. o + Len(d)
  BY <1>0
<1>3. \A i \in 1 .. Len(b) :
          (IF i - o \in 1 .. Len(d) THEN d[i - o] ELSE b[i]) \in Cells
  BY <1>0
<1>4. w \in [1 .. Len(b) -> Cells]
  BY <1>1, <1>3
<1>5. w \in Seq(Cells) /\ Len(w) = Len(b)
  BY <1>0, <1>4, SMTT(40)
<1>6. \A i \in 1 .. Len(b) :
          /\ i \in o + 1 .. o + Len(d) => w[i] = d[i - o]
          /\ i \notin o + 1 .. o + Len(d) => w[i] = b[i]
  BY <1>1, <1>2
<1> QED
  BY <1>p, <1>5, <1>6

\* A part of a sequence.
LEMMA PartFacts ==
    ASSUME NEW S, NEW s \in Seq(S), NEW m \in Nat, NEW n \in Nat,
           m <= n, n <= Len(s)
    PROVE  /\ SubSeq(s, m + 1, n) \in Seq(S)
           /\ Len(SubSeq(s, m + 1, n)) = n - m
           /\ \A i \in 1 .. n - m : SubSeq(s, m + 1, n)[i] = s[m + i]
<1>1. \A i \in m + 1 .. n : s[i] \in S
  OBVIOUS
<1>2. SubSeq(s, m + 1, n) \in Seq(S)
  BY <1>1
<1>3. Len(SubSeq(s, m + 1, n)) = n - m
  OBVIOUS
<1>4. \A i \in 1 .. n - m : SubSeq(s, m + 1, n)[i] = s[m + i]
  OBVIOUS
<1> QED
  BY <1>2, <1>3, <1>4

\* Two sequences, one after the other.
LEMMA JoinFacts ==
    ASSUME NEW s \in Seq(Cells), NEW t \in Seq(Cells)
    PROVE  /\ s \o t \in Seq(Cells)
           /\ Len(s \o t) = Len(s) + Len(t)
           /\ \A i \in 1 .. Len(s) : (s \o t)[i] = s[i]
<1>1. s \o t \in Seq(Cells) /\ Len(s \o t) = Len(s) + Len(t)
  OBVIOUS
<1>2. ASSUME NEW i \in 1 .. Len(s) PROVE (s \o t)[i] = s[i]
  OBVIOUS
<1> QED
  BY <1>1, <1>2

-----------------------------------------------------------------------------
(* append() *)

\* What arrives follows what is readable, wherever both are put: the readable
\* part starts at r now, and what arrived at w.
LEMMA AppendKeeps ==
    ASSUME PlaceInv, NEW size \in Nat, NEW data \in Seq(Units),
           NEW r \in Nat, NEW w \in Nat, w - r = write_offset - read_offset,
           received + size <= Len(stream), Len(data) = size,
           \A j \in 1 .. size : data[j] = stream[received + j],
           read_offset' = r, write_offset' = w + size,
           received' = received + size, stream' = stream,
           memory' \in Seq(Cells), w + size <= Len(memory'),
           \A j \in 1 .. w - r : memory'[r + j] = memory[read_offset + j],
           \A j \in 1 .. size : memory'[w + j] = data[j]
    PROVE  PlaceInv' /\ (HoldInv => HoldInv')
<1>0. /\ read_offset \in Nat /\ write_offset \in Nat /\ received \in Nat
      /\ read_offset <= write_offset /\ stream \in Seq(Units)
      /\ write_offset - read_offset <= received
  BY DEF PlaceInv
<1>1. PlaceInv'
  <2>1. /\ r <= w + size /\ w + size \in Nat /\ received + size \in Nat
        /\ (w + size) - r <= received + size
    BY <1>0
  <2> QED
    BY <1>0, <2>1 DEF PlaceInv
<1>2. ASSUME HoldInv, NEW i \in r + 1 .. w + size
      PROVE  memory'[i] = stream[i + ((received + size) - (w + size))]
  <2>1. CASE i <= w
    <3>j. PICK j : j = i - r
      OBVIOUS
    <3>1. j \in 1 .. w - r /\ i = r + j
      BY <1>2, <2>1, <3>j
    <3>2. /\ read_offset + j \in read_offset + 1 .. write_offset
          /\ (read_offset + j) + (received - write_offset)
                = i + ((received + size) - (w + size))
      BY <1>0, <1>2, <3>1
    <3>3. memory[read_offset + j]
            = stream[(read_offset + j) + (received - write_offset)]
      BY <1>2, <3>2 DEF HoldInv
    <3> QED
      BY <3>1, <3>2, <3>3
  <2>2. CASE i > w
    <3>j. PICK j : j = i - w
      OBVIOUS
    <3>1. j \in 1 .. size /\ i = w + j
      BY <1>2, <2>2, <3>j
    <3>2. received + j = i + ((received + size) - (w + size))
      BY <1>0, <1>2, <3>1
    <3> QED
      BY <3>1, <3>2
  <2> QED
    BY <1>2, <2>1, <2>2
<1>3. HoldInv => HoldInv'
  BY <1>2 DEF HoldInv
<1> QED
  BY <1>1, <1>3

\* A copy from the end leaves elements of the buffer in all of its places.
LEMMA CopiedFacts ==
    ASSUME PlaceInv, read_offset # 0
    PROVE  /\ CopiedFromTheEnd \in Seq(Cells)
           /\ Len(CopiedFromTheEnd) = Len(memory)
<1>0. /\ memory \in Seq(Cells) /\ Len(memory) \in Nat
      /\ DOMAIN memory = 1 .. Len(memory)
      /\ read_offset \in Nat /\ write_offset \in Nat
      /\ read_offset <= write_offset /\ write_offset <= Len(memory)
  BY DEF PlaceInv
<1>1. ASSUME NEW i \in 1 .. Len(memory), i <= readable_size
      PROVE  Max({j \in i .. write_offset : (j - i) % read_offset = 0})
                \in 1 .. Len(memory)
  <2>s. PICK S : S = {j \in i .. write_offset : (j - i) % read_offset = 0}
    OBVIOUS
  <2>1. i \in i .. write_offset
    BY <1>0, <1>1 DEF readable_size
  <2>2. (i - i) % read_offset = 0
    <3>1. i - i = 0
      OBVIOUS
    <3>2. 0 % read_offset = 0
      BY <1>0
    <3> QED
      BY <3>1, <3>2
  <2>3. i \in S
    BY <2>s, <2>1, <2>2
  <2>4. S \subseteq 0 .. write_offset /\ S \subseteq 1 .. Len(memory)
    BY <1>0, <2>s
  <2>5. Max(S) \in S
    BY <1>0, <2>3, <2>4, LargestExists
  <2> QED
    BY <2>s, <2>4, <2>5
<1>c. PICK copied : copied = CopiedFromTheEnd
  OBVIOUS
<1>2. /\ DOMAIN copied = 1 .. Len(memory)
      /\ copied = [i \in DOMAIN copied |-> copied[i]]
      /\ \A i \in 1 .. Len(memory) :
            \/ copied[i] = memory[i]
            \/ /\ i <= readable_size
               /\ copied[i] = memory[Max({j \in i .. write_offset :
                                             (j - i) % read_offset = 0})]
  BY <1>0, <1>c DEF CopiedFromTheEnd
<1>3. \A i \in 1 .. Len(memory) : memory[i] \in Cells
  BY <1>0
<1>4. \A i \in 1 .. Len(memory) : copied[i] \in Cells
  BY <1>1, <1>2, <1>3
<1>5. copied \in [1 .. Len(memory) -> Cells]
  BY <1>2, <1>4
<1> QED
  BY <1>0, <1>5, <1>c, SMTT(40)

\* What arrives is the next part of the stream; append() finds room at the
\* end, by compaction or in a larger string.
LEMMA ReceiveKeeps ==
    ASSUME PlaceInv, NEW size \in 1 .. Len(stream), Receive(size)
    PROVE  PlaceInv' /\ (HoldInv /\ ~ garbled' => HoldInv')
<1>0. /\ memory \in Seq(Cells) /\ stream \in Seq(Units)
      /\ read_offset \in Nat /\ write_offset \in Nat /\ received \in Nat
      /\ read_offset <= write_offset /\ write_offset <= Len(memory)
      /\ received <= Len(stream)
      /\ Len(memory) \in Nat /\ Len(stream) \in Nat
  BY DEF PlaceInv
<1>d. PICK data : data = SubSeq(stream, received + 1, received + size)
  OBVIOUS
<1>1. /\ size \in Nat /\ received + size <= Len(stream)
      /\ received' = received + size /\ stream' = stream
      /\ AppendData(data)
  <2>1. size \in 1 .. Len(stream) - received
    BY DEF Receive
  <2>2. size \in Nat /\ received + size <= Len(stream)
    BY <1>0, <2>1
  <2> QED
    BY <1>d, <2>2 DEF Receive
<1>2. /\ data \in Seq(Units) /\ Len(data) = size
      /\ \A j \in 1 .. size : data[j] = stream[received + j]
  <2>1. /\ received + size \in Nat /\ received <= received + size
        /\ (received + size) - received = size
    BY <1>0, <1>1
  <2> QED
    BY <1>0, <1>1, <1>d, <2>1, PartFacts, SMTT(40)
<1>3. data \in Seq(Cells)
  BY <1>2 DEF Cells
<1>4. CASE Extend(data)
  <2>1. /\ size <= Len(memory) - write_offset
        /\ memory' = Overwrite(memory, write_offset, data)
        /\ write_offset' = write_offset + size
        /\ read_offset' = read_offset
    BY <1>2, <1>4 DEF Extend, capacity
  <2>2. write_offset + Len(data) <= Len(memory)
    BY <1>0, <1>1, <1>2, <2>1, SMTT(40)
  <2>3. /\ memory' \in Seq(Cells) /\ Len(memory') = Len(memory)
        /\ \A i \in 1 .. Len(memory) :
              /\ i \in write_offset + 1 .. write_offset + size =>
                    memory'[i] = data[i - write_offset]
              /\ i \notin write_offset + 1 .. write_offset + size =>
                    memory'[i] = memory[i]
    <3>1. /\ Overwrite(memory, write_offset, data) \in Seq(Cells)
          /\ Len(Overwrite(memory, write_offset, data)) = Len(memory)
          /\ \A i \in 1 .. Len(memory) :
                /\ i \in write_offset + 1 .. write_offset + Len(data) =>
                      Overwrite(memory, write_offset, data)[i]
                        = data[i - write_offset]
                /\ i \notin write_offset + 1 .. write_offset + Len(data) =>
                      Overwrite(memory, write_offset, data)[i] = memory[i]
      BY <1>0, <1>3, <2>2, OverwriteFacts
    <3> QED
      BY <1>2, <2>1, <3>1
  <2>4. \A j \in 1 .. write_offset - read_offset :
            memory'[read_offset + j] = memory[read_offset + j]
    <3>1. \A j \in 1 .. write_offset - read_offset :
              /\ read_offset + j \in 1 .. Len(memory)
              /\ read_offset + j \notin write_offset + 1 .. write_offset + size
      BY <1>0, <1>1
    <3> QED
      BY <2>3, <3>1
  <2>5. \A j \in 1 .. size : memory'[write_offset + j] = data[j]
    <3>1. \A j \in 1 .. size :
              /\ write_offset + j \in 1 .. Len(memory)
              /\ write_offset + j \in write_offset + 1 .. write_offset + size
              /\ (write_offset + j) - write_offset = j
      <4>1. /\ write_offset \in Nat /\ size \in Nat /\ Len(memory) \in Nat
            /\ write_offset + size <= Len(memory)
        BY <1>0, <1>1, <1>2, <2>2
      <4> QED
        BY ONLY <4>1
    <3> QED
      BY <2>3, <3>1
  <2> QED
    BY <1>0, <1>1, <1>2, <2>1, <2>2, <2>3, <2>4, <2>5, AppendKeeps
<1>5. CASE Compact(data)
  <2>n. PICK n : n = write_offset - read_offset
    OBVIOUS
  <2>r. PICK kept : kept = SubSeq(memory, read_offset + 1, write_offset)
    OBVIOUS
  <2>f. PICK front : front = Overwrite(memory, 0, kept)
    OBVIOUS
  <2>1. /\ size <= (Len(memory) - write_offset) + read_offset
        /\ memory' = Overwrite(front, n, data)
        /\ write_offset' = n + size
        /\ read_offset' = 0
    BY <1>2, <1>5, <2>n, <2>r, <2>f
       DEF Compact, capacity, Readable, readable_size
  <2>2. n \in Nat /\ n + size <= Len(memory) /\ n <= Len(memory)
    BY <1>0, <1>1, <2>n, <2>1
  <2>3. /\ kept \in Seq(Cells) /\ Len(kept) = n
        /\ \A j \in 1 .. n : kept[j] = memory[read_offset + j]
    BY <1>0, <2>n, <2>r, PartFacts
  <2>4. 0 \in Nat /\ 0 + Len(kept) <= Len(memory)
    BY <2>2, <2>3
  <2>5. /\ front \in Seq(Cells) /\ Len(front) = Len(memory)
        /\ \A i \in 1 .. Len(memory) :
              i \in 0 + 1 .. 0 + Len(kept) => front[i] = kept[i - 0]
    BY <1>0, <2>3, <2>4, <2>f, OverwriteFacts, SMTT(40)
  <2>6. \A j \in 1 .. n : front[j] = memory[read_offset + j]
    <3>1. \A j \in 1 .. n : /\ j \in 1 .. Len(memory) /\ j - 0 = j
                            /\ j \in 0 + 1 .. 0 + Len(kept)
      BY <1>0, <2>2, <2>3
    <3> QED
      BY <2>3, <2>5, <3>1
  <2>7. n + Len(data) <= Len(front)
    BY <1>2, <2>2, <2>5
  <2>8. /\ memory' \in Seq(Cells) /\ Len(memory') = Len(memory)
        /\ \A i \in 1 .. Len(memory) :
              /\ i \in n + 1 .. n + size => memory'[i] = data[i - n]
              /\ i \notin n + 1 .. n + size => memory'[i] = front[i]
    BY <1>2, <1>3, <2>1, <2>2, <2>5, <2>7, OverwriteFacts, SMTT(40)
  <2>9. \A j \in 1 .. n - 0 : memory'[0 + j] = memory[read_offset + j]
    <3>1. \A j \in 1 .. n - 0 : /\ j \in 1 .. n /\ 0 + j = j
                                /\ j \in 1 .. Len(memory)
                                /\ j \notin n + 1 .. n + size
      BY <1>0, <1>1, <2>2
    <3> QED
      BY <2>6, <2>8, <3>1
  <2>10. \A j \in 1 .. size : memory'[n + j] = data[j]
    <3>1. \A j \in 1 .. size : /\ n + j \in 1 .. Len(memory)
                               /\ n + j \in n + 1 .. n + size
                               /\ (n + j) - n = j
      BY <1>0, <1>1, <2>2
    <3> QED
      BY <2>8, <3>1
  <2>11. n - 0 = write_offset - read_offset /\ n + size <= Len(memory')
    BY <2>2, <2>8, <2>n
  <2> QED
    BY <1>1, <1>2, <2>1, <2>2, <2>4, <2>8, <2>9, <2>10, <2>11, AppendKeeps
<1>6. CASE Reallocate(data)
  <2>g. PICK grown : grown = Max({2 * Len(memory), write_offset + size})
    OBVIOUS
  <2>h. PICK kept : kept = SubSeq(memory, 1, write_offset)
    OBVIOUS
  <2>b. PICK blanks : blanks = [i \in 1 .. grown - write_offset |-> Blank]
    OBVIOUS
  <2>c. PICK copy : copy = kept \o blanks
    OBVIOUS
  <2>1. /\ memory' = Overwrite(copy, write_offset, data)
        /\ write_offset' = write_offset + size
        /\ read_offset' = read_offset
    BY <1>2, <1>6, <2>g, <2>h, <2>b, <2>c DEF Reallocate, capacity
  <2>2. /\ grown \in Nat /\ write_offset + size <= grown
        /\ grown - write_offset \in Nat
    <3>1. 2 * Len(memory) \in Nat /\ write_offset + size \in Nat
      BY <1>0, <1>1
    <3>2. grown \in Nat /\ grown >= write_offset + size
      BY <2>g, <3>1, MinMaxFacts
    <3> QED
      BY <1>0, <1>1, <3>2
  <2>3. /\ kept \in Seq(Cells) /\ Len(kept) = write_offset
        /\ \A i \in 1 .. write_offset : kept[i] = memory[i]
    <3>1. 0 \in Nat /\ 0 <= write_offset /\ 0 + 1 = 1
          /\ write_offset - 0 = write_offset
      BY <1>0
    <3>2. /\ kept \in Seq(Cells) /\ Len(kept) = write_offset
          /\ \A i \in 1 .. write_offset : kept[i] = memory[0 + i]
      BY <1>0, <2>h, <3>1, PartFacts
    <3>3. \A i \in 1 .. write_offset : 0 + i = i
      OBVIOUS
    <3> QED
      BY <3>2, <3>3
  <2>4. blanks \in Seq(Cells) /\ Len(blanks) = grown - write_offset
    BY <2>b, <2>2 DEF Cells
  <2>5. /\ copy \in Seq(Cells) /\ Len(copy) = grown
        /\ \A i \in 1 .. write_offset : copy[i] = memory[i]
    <3>1. /\ copy \in Seq(Cells) /\ Len(copy) = Len(kept) + Len(blanks)
          /\ \A i \in 1 .. Len(kept) : copy[i] = kept[i]
      BY <2>3, <2>4, <2>c, JoinFacts
    <3>2. write_offset + (grown - write_offset) = grown
      BY <1>0, <2>2
    <3>3. Len(copy) = grown
      BY <2>3, <2>4, <3>1, <3>2
    <3>4. \A i \in 1 .. write_offset : copy[i] = memory[i]
      BY <2>3, <3>1
    <3> QED
      BY <3>1, <3>3, <3>4
  <2>6. write_offset + Len(data) <= Len(copy)
    BY <1>2, <2>2, <2>5
  <2>7. /\ memory' \in Seq(Cells) /\ Len(memory') = grown
        /\ \A i \in 1 .. grown :
              /\ i \in write_offset + 1 .. write_offset + size =>
                    memory'[i] = data[i - write_offset]
              /\ i \notin write_offset + 1 .. write_offset + size =>
                    memory'[i] = copy[i]
    <3>1. /\ Overwrite(copy, write_offset, data) \in Seq(Cells)
          /\ Len(Overwrite(copy, write_offset, data)) = Len(copy)
          /\ \A i \in 1 .. Len(copy) :
                /\ i \in write_offset + 1 .. write_offset + Len(data) =>
                      Overwrite(copy, write_offset, data)[i]
                        = data[i - write_offset]
                /\ i \notin write_offset + 1 .. write_offset + Len(data) =>
                      Overwrite(copy, write_offset, data)[i] = copy[i]
      BY <1>0, <1>3, <2>5, <2>6, OverwriteFacts, ZenonT(60)
    <3> QED
      BY <1>2, <2>1, <2>5, <3>1
  <2>8. \A j \in 1 .. write_offset - read_offset :
            memory'[read_offset + j] = memory[read_offset + j]
    <3>1. \A j \in 1 .. write_offset - read_offset :
              /\ read_offset + j \in 1 .. grown
              /\ read_offset + j \in 1 .. write_offset
              /\ read_offset + j \notin write_offset + 1 .. write_offset + size
      BY <1>0, <1>1, <2>2
    <3> QED
      BY <2>5, <2>7, <3>1
  <2>9. \A j \in 1 .. size : memory'[write_offset + j] = data[j]
    <3>1. \A j \in 1 .. size :
              /\ write_offset + j \in 1 .. grown
              /\ write_offset + j \in write_offset + 1 .. write_offset + size
              /\ (write_offset + j) - write_offset = j
      BY <1>0, <1>1, <2>2
    <3> QED
      BY <2>7, <3>1
  <2>10. write_offset + size <= Len(memory')
    BY <2>2, <2>7
  <2> QED
    BY <1>0, <1>1, <1>2, <2>1, <2>7, <2>8, <2>9, <2>10, AppendKeeps
<1>7. ASSUME CompactDescending(data)
      PROVE  PlaceInv' /\ garbled'
  <2>n. PICK n : n = write_offset - read_offset
    OBVIOUS
  <2>f. PICK front : front = CopiedFromTheEnd
    OBVIOUS
  <2>1. /\ size > Len(memory) - write_offset
        /\ size <= (Len(memory) - write_offset) + read_offset
        /\ memory' = Overwrite(front, n, data)
        /\ write_offset' = n + size
        /\ read_offset' = 0 /\ garbled'
    BY <1>2, <1>7, <2>n, <2>f DEF CompactDescending, capacity, readable_size
  <2>2. n \in Nat /\ n + size <= Len(memory) /\ read_offset # 0
    BY <1>0, <1>1, <2>n, <2>1
  <2>3. front \in Seq(Cells) /\ Len(front) = Len(memory)
    BY <2>2, <2>f, CopiedFacts
  <2>4. memory' \in Seq(Cells) /\ Len(memory') = Len(memory)
    <3>1. n \in Nat /\ n + Len(data) <= Len(front)
      BY <1>2, <2>2, <2>3
    <3>2. /\ Overwrite(front, n, data) \in Seq(Cells)
          /\ Len(Overwrite(front, n, data)) = Len(front)
      BY ONLY <1>3, <2>3, <3>1, OverwriteFacts
    <3> QED
      BY ONLY <2>1, <2>3, <3>2
  <2>5. /\ 0 <= n + size /\ n + size \in Nat /\ received + size \in Nat
        /\ (n + size) - 0 <= received + size
    <3>1. n <= received
      BY <2>n DEF PlaceInv
    <3> QED
      BY <1>0, <1>1, <2>2, <3>1
  <2> QED
    BY <1>0, <1>1, <2>1, <2>2, <2>4, <2>5 DEF PlaceInv
<1> QED
  BY <1>1, <1>4, <1>5, <1>6, <1>7 DEF AppendData

-----------------------------------------------------------------------------
(* forward_read_position() and the parser *)

\* What is consumed is the first part of what is readable.
LEMMA ForwardKeeps ==
    ASSUME PlaceInv, NEW size \in Nat, ForwardReadPosition(size),
           UNCHANGED <<stream, received>>
    PROVE  PlaceInv' /\ (garbled \/ HoldInv => garbled' \/ HoldInv')
<1>0. /\ read_offset \in Nat /\ write_offset \in Nat /\ received \in Nat
      /\ read_offset <= write_offset
      /\ write_offset - read_offset <= received
  BY DEF PlaceInv
<1>1. /\ read_offset' = Min({read_offset + size, write_offset})
      /\ memory' = memory /\ write_offset' = write_offset
  BY DEF ForwardReadPosition
<1>2. /\ read_offset' \in Nat /\ read_offset' <= write_offset
      /\ read_offset <= read_offset'
  <2>1. read_offset + size \in Nat /\ read_offset <= read_offset + size
    BY <1>0
  <2>2. /\ read_offset' \in Nat /\ read_offset' <= write_offset
        /\ read_offset' = read_offset + size \/ read_offset' = write_offset
    BY <1>0, <1>1, <2>1, MinMaxFacts
  <2> QED
    BY <1>0, <2>1, <2>2
<1>3. /\ write_offset - read_offset' <= received
      /\ \A i \in read_offset' + 1 .. write_offset :
            i \in read_offset + 1 .. write_offset
  <2>1. \A r, q, w, n \in Nat :
            r <= q /\ q <= w /\ w - r <= n =>
              /\ w - q <= n
              /\ \A i \in q + 1 .. w : i \in r + 1 .. w
    OBVIOUS
  <2> QED
    BY <1>0, <1>2, <2>1
<1>4. PlaceInv'
  BY <1>1, <1>2, <1>3 DEF PlaceInv
<1>5. garbled \/ HoldInv => garbled' \/ HoldInv'
  <2>1. HoldInv => HoldInv'
    BY <1>1, <1>3 DEF HoldInv
  <2>2. garbled' = garbled
    BY DEF ForwardReadPosition
  <2> QED
    BY <2>1, <2>2
<1> QED
  BY <1>4, <1>5

\* A line ends behind the position to read from; its length is a number.
LEMMA LineFacts ==
    ASSUME PlaceInv, Ends # {}
    PROVE  /\ Line \in Seq(Cells)
           /\ Len(Line) + 2 \in Nat
<1>0. /\ memory \in Seq(Cells) /\ Len(memory) \in Nat
      /\ read_offset \in Nat /\ write_offset \in Nat
      /\ write_offset <= Len(memory)
  BY DEF PlaceInv
<1>1. Ends \subseteq read_offset + 1 .. write_offset - 1
  BY DEF Ends, LineEnds
<1>2. Ends \subseteq Nat
  BY <1>0, <1>1
<1>e. PICK e : e = Min(Ends)
  OBVIOUS
<1>3. e \in read_offset + 1 .. write_offset - 1
  BY <1>1, <1>2, <1>e, SmallestExists
<1>n. PICK n : n = e - 1
  OBVIOUS
<1>4. n \in Nat /\ read_offset <= n /\ n <= Len(memory)
  BY <1>0, <1>3, <1>n
<1>5. Line = SubSeq(memory, read_offset + 1, n)
  BY <1>e, <1>n DEF Line
<1>6. Line \in Seq(Cells)
  BY <1>0, <1>4, <1>5, PartFacts
<1>7. Len(Line) + 2 \in Nat
  BY <1>6
<1> QED
  BY <1>6, <1>7

\* parse_request_line() returns a request.
LEMMA RequestLineFacts ==
    ASSUME NEW r \in Requests, NEW line
    PROVE  ParseRequestLine(line, r).request \in Requests
<1>1. CASE line \in {<<"GET">>, <<"POST">>}
  <2>1. line[1] \in {"GET", "POST"}
    BY <1>1
  <2>2. ParseRequestLine(line, r)
          = [ok |-> TRUE, request |-> [r EXCEPT !.method = line[1]]]
    BY <1>1 DEF ParseRequestLine
  <2>3. [r EXCEPT !.method = line[1]] \in Requests
    BY <2>1 DEF Requests
  <2> QED
    BY <2>2, <2>3
<1>2. CASE line \notin {<<"GET">>, <<"POST">>}
  BY <1>2 DEF ParseRequestLine
<1> QED
  BY <1>1, <1>2

\* So does parse_header_line(), with a length that is a number.
LEMMA HeaderLineFacts ==
    ASSUME NEW r \in Requests, NEW line
    PROVE  ParseHeaderLine(line, r).request \in Requests
<1>k. PICK key : key = Head(Trim(line))
  OBVIOUS
<1>a. PICK alone : alone = (Len(Trim(line)) = 1)
  OBVIOUS
<1>c. PICK c : c = IF key = "close" /\ alone THEN "close" ELSE "other"
  OBVIOUS
<1>1. [r EXCEPT !.connection = c] \in Requests
  BY <1>c DEF Requests
<1>2. key \in DOMAIN Lengths => [r EXCEPT !.length = Lengths[key]] \in Requests
  <2>1. key \in DOMAIN Lengths => Lengths[key] \in Nat
    BY DEF Lengths
  <2> QED
    BY <2>1 DEF Requests
<1>3. [r EXCEPT !.length = NoDigits] \in Requests
  BY DEF Requests, NoDigits
<1>q. PICK q : q = CASE key \in {"close", "keep_alive"} ->
                          [r EXCEPT !.connection = c]
                     [] key \in DOMAIN Lengths ->
                          [r EXCEPT !.length = Lengths[key]]
                     [] key = "length_none" -> [r EXCEPT !.length = NoDigits]
                     [] OTHER -> r
  OBVIOUS
<1>4. q \in Requests
  BY <1>1, <1>2, <1>3, <1>q
<1>5. \/ ParseHeaderLine(line, r) = [ok |-> FALSE, request |-> r]
      \/ ParseHeaderLine(line, r) = [ok |-> TRUE, request |-> q]
  BY <1>k, <1>a, <1>c, <1>q DEF ParseHeaderLine
<1> QED
  BY <1>4, <1>5

-----------------------------------------------------------------------------
(* The buffer holds the stream *)

\* The buffer is empty at the start.
LEMMA BufferInvInit == Init => BufferInv
<1> SUFFICES ASSUME Init PROVE BufferInv
  OBVIOUS
<1>1. /\ memory = [i \in 1 .. InitialCapacity |-> Blank]
      /\ read_offset = 0 /\ write_offset = 0 /\ received = 0
      /\ stream \in Streams
      /\ request = EmptyRequest /\ body_length = 0
  BY DEF Init, BufferInit
<1>2. memory \in Seq(Cells) /\ Len(memory) = InitialCapacity
  BY <1>1, StreamAssumption DEF StreamAssumption, Cells
<1>3. stream \in Seq(Units) /\ Len(stream) \in Nat
  BY <1>1, StreamAssumption DEF StreamAssumption
<1>4. PlaceInv
  BY <1>1, <1>2, <1>3, StreamAssumption DEF StreamAssumption, PlaceInv
<1>5. HoldInv
  BY <1>1 DEF HoldInv
<1>6. ParserInv
  BY <1>1 DEF ParserInv, Requests, EmptyRequest, NoLength
<1> QED
  BY <1>4, <1>5, <1>6 DEF BufferInv

\* What memcpy() has destroyed is not recovered.
LEMMA GarbledStays ==
    ASSUME NEW size, Receive(size)
    PROVE  garbled => garbled'
BY DEF Receive, AppendData, Extend, Compact, CompactDescending, Reallocate

\* Every step keeps the invariant.
LEMMA SoundInvStep == SoundInv /\ [Next]_vars => SoundInv'
<1> SUFFICES ASSUME SoundInv, [Next]_vars PROVE SoundInv'
  OBVIOUS
<1> DEFINE Held == garbled \/ HoldInv
<1>0. PlaceInv /\ Held /\ ParserInv
  BY DEF SoundInv
<1>1. UNCHANGED <<bufferVars, stream, received>> => PlaceInv' /\ Held'
  <2> SUFFICES ASSUME UNCHANGED <<bufferVars, stream, received>>
               PROVE  PlaceInv' /\ (garbled' \/ HoldInv')
    OBVIOUS
  <2>1. PlaceInv' /\ (HoldInv => HoldInv')
    BY <1>0 DEF bufferVars, PlaceInv, HoldInv
  <2>2. garbled' = garbled
    BY DEF bufferVars
  <2> QED
    BY <1>0, <2>1, <2>2
<1>2. UNCHANGED <<request, body_length>> => ParserInv'
  BY <1>0 DEF ParserInv
<1>3. ASSUME NEW size \in 1 .. Len(stream), Receive(size) PROVE SoundInv'
  <2>1. PlaceInv' /\ Held'
    <3>1. PlaceInv' /\ (HoldInv /\ ~ garbled' => HoldInv')
      BY <1>0, <1>3, ReceiveKeeps
    <3>2. garbled => garbled'
      BY <1>3, GarbledStays
    <3> QED
      BY <1>0, <3>1, <3>2
  <2> QED
    BY <1>2, <1>3, <2>1 DEF Receive, parserVars, SoundInv
<1>4. CASE MessageCallback
  BY <1>1, <1>2, <1>4 DEF MessageCallback, parserVars, SoundInv
<1>5. CASE RequestLine
  <2>1. UNCHANGED <<stream, received>> /\ Len(Line) + 2 \in Nat
    BY <1>0, <1>5, LineFacts DEF RequestLine
  <2>2. CASE Fail
    BY <1>1, <1>2, <2>1, <2>2 DEF Fail, SoundInv
  <2>3. CASE /\ request' = ParseRequestLine(Line, request).request
             /\ ForwardReadPosition(Len(Line) + 2)
             /\ UNCHANGED body_length
    <3>1. PlaceInv' /\ Held'
      BY <1>0, <2>1, <2>3, ForwardKeeps
    <3>2. ParserInv'
      BY <1>0, <2>3, RequestLineFacts DEF ParserInv
    <3> QED
      BY <3>1, <3>2 DEF SoundInv
  <2> QED
    BY <1>5, <2>2, <2>3 DEF RequestLine
<1>6. CASE HeaderLine
  <2>1. UNCHANGED <<stream, received>> /\ Len(Line) + 2 \in Nat
    BY <1>0, <1>6, LineFacts DEF HeaderLine
  <2>2. CASE Fail
    BY <1>1, <1>2, <2>1, <2>2 DEF Fail, SoundInv
  <2>3. CASE /\ request' = ParseHeaderLine(Line, request).request
             /\ ForwardReadPosition(Len(Line) + 2)
             /\ UNCHANGED body_length
    <3>1. PlaceInv' /\ Held'
      BY <1>0, <2>1, <2>3, ForwardKeeps
    <3>2. ParserInv'
      BY <1>0, <2>3, HeaderLineFacts DEF ParserInv
    <3> QED
      BY <3>1, <3>2 DEF SoundInv
  <2> QED
    BY <1>6, <2>2, <2>3 DEF HeaderLine
<1>7. CASE EndOfHeaders
  <2>1. /\ ForwardReadPosition(2) /\ UNCHANGED <<stream, received>>
        /\ request' = request
        /\ body_length' = 0 \/ body_length' = request.length
    BY <1>7 DEF EndOfHeaders
  <2>2. PlaceInv' /\ Held'
    BY <1>0, <2>1, ForwardKeeps
  <2>3. ParserInv'
    BY <1>0, <2>1 DEF ParserInv, Requests
  <2> QED
    BY <2>2, <2>3 DEF SoundInv
<1>8. CASE Body
  <2>1. /\ ForwardReadPosition(body_length)
        /\ UNCHANGED <<stream, received, body_length>>
        /\ readable_size >= body_length
        /\ request' = [request EXCEPT !.body = SubSeq(Readable, 1, body_length)]
    BY <1>8 DEF Body
  <2>2. body_length \in Nat /\ request \in Requests
    BY <1>0 DEF ParserInv
  <2>3. PlaceInv' /\ Held'
    BY <1>0, <2>1, <2>2, ForwardKeeps
  <2>n. PICK n : n = body_length
    OBVIOUS
  <2>r. PICK rest : rest = Readable
    OBVIOUS
  <2>4. rest \in Seq(Cells) /\ Len(rest) = readable_size
    BY <1>0, <2>r, PartFacts DEF PlaceInv, Readable, readable_size
  <2>5. SubSeq(rest, 1, n) \in Seq(Cells)
    <3>1. /\ 0 \in Nat /\ n \in Nat /\ 0 <= n /\ n <= Len(rest)
          /\ 0 + 1 = 1 /\ readable_size \in Int
      BY <1>0, <2>1, <2>2, <2>4, <2>n DEF PlaceInv, readable_size
    <3> QED
      BY <2>4, <3>1, PartFacts
  <2>6. ParserInv'
    BY <2>1, <2>2, <2>5, <2>n, <2>r DEF ParserInv, Requests
  <2> QED
    BY <2>3, <2>6 DEF SoundInv
<1>9. CASE Incomplete
  BY <1>1, <1>2, <1>9 DEF Incomplete, parserVars, SoundInv
<1>10. ASSUME NEW sent \in {"sent", "writing", "aborted"}, Answer(sent)
       PROVE  SoundInv'
  <2>1. UNCHANGED <<bufferVars, stream, received>>
    BY <1>10 DEF Answer
  <2>2. CASE UNCHANGED parserVars
    BY <1>1, <1>2, <2>1, <2>2 DEF parserVars, SoundInv
  <2>3. CASE request' = ResetRequest(request) /\ body_length' = 0
    <3>1. ParserInv'
      BY <2>3 DEF ParserInv, ResetRequest, Requests, EmptyRequest, NoLength
    <3> QED
      BY <1>1, <2>1, <3>1 DEF SoundInv
  <2> QED
    BY <1>10, <2>2, <2>3 DEF Answer
<1>11. CASE WriteCompletes
  BY <1>1, <1>2, <1>11 DEF WriteCompletes, parserVars, SoundInv
<1>12. CASE UNCHANGED vars
  BY <1>1, <1>2, <1>12 DEF vars, parserVars, SoundInv
<1> QED
  BY <1>3, <1>4, <1>5, <1>6, <1>7, <1>8, <1>9, <1>10, <1>11, <1>12 DEF Next

\* What is readable is the part of the stream that was received and not
\* consumed.
LEMMA BufferInvHolds ==
    BufferInv => Readable = SubSeq(stream, consumed + 1, received)
<1> SUFFICES ASSUME PlaceInv, HoldInv
             PROVE  Readable = SubSeq(stream, consumed + 1, received)
  BY DEF BufferInv
<1>0. /\ memory \in Seq(Cells) /\ stream \in Seq(Units)
      /\ read_offset \in Nat /\ write_offset \in Nat /\ received \in Nat
      /\ read_offset <= write_offset /\ write_offset <= Len(memory)
      /\ received <= Len(stream)
      /\ write_offset - read_offset <= received
  BY DEF PlaceInv
<1>c. PICK c : c = consumed
  OBVIOUS
<1>n. PICK n : n = write_offset - read_offset
  OBVIOUS
<1>1. /\ n \in Nat /\ c \in Nat /\ c <= received /\ received - c = n
      /\ c = received - n
  BY <1>0, <1>c, <1>n DEF consumed, readable_size
<1>a. PICK a : a = Readable
  OBVIOUS
<1>b. PICK b : b = SubSeq(stream, c + 1, received)
  OBVIOUS
<1>2. /\ a \in Seq(Cells) /\ Len(a) = n
      /\ \A i \in 1 .. n : a[i] = memory[read_offset + i]
  BY <1>0, <1>n, <1>a, PartFacts, SMTT(40) DEF Readable
<1>3. /\ b \in Seq(Units) /\ Len(b) = n
      /\ \A i \in 1 .. n : b[i] = stream[c + i]
  BY <1>0, <1>1, <1>b, PartFacts
<1>4. ASSUME NEW i \in 1 .. n PROVE a[i] = b[i]
  <2>1. /\ read_offset + i \in read_offset + 1 .. write_offset
        /\ (read_offset + i) + (received - write_offset) = c + i
    BY <1>0, <1>1, <1>n, <1>4
  <2>2. memory[read_offset + i]
          = stream[(read_offset + i) + (received - write_offset)]
    BY <2>1 DEF HoldInv
  <2> QED
    BY <1>2, <1>3, <2>1, <2>2
<1>5. b \in Seq(Cells)
  BY <1>3 DEF Cells
<1>6. a = b
  BY <1>2, <1>3, <1>4, <1>5
<1> QED
  BY <1>6, <1>a, <1>b, <1>c

\* The invariant holds throughout.
LEMMA SoundInvariant == Spec => []SoundInv
<1>1. Init => SoundInv
  BY BufferInvInit DEF BufferInv, SoundInv
<1> QED
  BY <1>1, SoundInvStep, PTL DEF Spec

\* Through extension, compaction and reallocation, at any sizes, the readable
\* part of the buffer stays within the capacity, and it is what was received
\* and not consumed unless memcpy() has destroyed it.
THEOREM BufferIsFaithful == Spec => []BufferHoldsStream
<1>1. SoundInv => BufferHoldsStream
  <2> SUFFICES ASSUME SoundInv PROVE BufferHoldsStream
    OBVIOUS
  <2>1. read_offset <= write_offset /\ write_offset <= capacity
    BY DEF SoundInv, PlaceInv, capacity
  <2>2. ~ garbled => Readable = SubSeq(stream, consumed + 1, received)
    BY BufferInvHolds DEF SoundInv, BufferInv
  <2> QED
    BY <2>1, <2>2 DEF BufferHoldsStream
<1> QED
  BY <1>1, SoundInvariant, PTL

-----------------------------------------------------------------------------
(* Reading the stream one unit at a time *)

\* Induction over the numbers, for a set of them.
LEMMA NumberInduction ==
    ASSUME NEW T, 0 \in T, \A n \in Nat : n \in T => n + 1 \in T
    PROVE  Nat \subseteq T
<1> DEFINE Bad == {n \in Nat : n \notin T}
<1>1. SUFFICES ASSUME Bad # {} PROVE FALSE
  OBVIOUS
<1>2. PICK n \in Bad : \A m \in Bad : ~ (<<m, n>> \in OpToRel(<, Nat))
  <2>1. Bad \subseteq Nat
    OBVIOUS
  <2> HIDE DEF Bad
  <2> QED
    BY <1>1, <2>1, NatLessThanWellFounded, WFMin
<1>3. n \in Nat /\ n \notin T /\ n # 0
  BY <1>2, Zenon
<1>4. n - 1 \in Nat /\ n - 1 < n /\ (n - 1) + 1 = n
  BY <1>3
<1>5. n - 1 \notin Bad
  BY <1>2, <1>3, <1>4 DEF OpToRel
<1>6. n - 1 \in T
  BY <1>4, <1>5
<1> QED
  BY <1>3, <1>4, <1>6

\* f is the function by which Decode(s) is defined, up to m.
IsDecoded(s, m, f) ==
    f = [n \in 0 .. m |->
           IF n = 0 THEN StartOfStream ELSE ReadUnit(f[n - 1], s[n])]

LEMMA DecodedExists ==
    ASSUME NEW s, NEW m \in Nat
    PROVE  \E f : IsDecoded(s, m, f)
<1> DEFINE T == {n \in Nat : \E f : IsDecoded(s, n, f)}
<1>1. 0 \in T
  <2> DEFINE f == [n \in 0 .. 0 |-> StartOfStream]
  <2>1. f = [n \in 0 .. 0 |->
               IF n = 0 THEN StartOfStream ELSE ReadUnit(f[n - 1], s[n])]
    OBVIOUS
  <2> HIDE DEF f
  <2> QED
    BY <2>1 DEF IsDecoded
<1>2. ASSUME NEW k \in Nat, NEW f, IsDecoded(s, k, f)
      PROVE  \E g : IsDecoded(s, k + 1, g)
  <2> DEFINE g == [n \in 0 .. k + 1 |->
                     IF n = k + 1 THEN ReadUnit(f[k], s[k + 1]) ELSE f[n]]
  <2>1. \A n \in 0 .. k :
           f[n] = IF n = 0 THEN StartOfStream ELSE ReadUnit(f[n - 1], s[n])
    BY <1>2, Zenon DEF IsDecoded
  <2>2. \A n \in 0 .. k + 1 :
           g[n] = IF n = k + 1 THEN ReadUnit(f[k], s[k + 1]) ELSE f[n]
    OBVIOUS
  <2>3. ASSUME NEW n \in 0 .. k + 1
        PROVE  g[n] = IF n = 0 THEN StartOfStream ELSE ReadUnit(g[n - 1], s[n])
    <3> HIDE DEF g
    <3>1. CASE n = k + 1
      <4>1. n # 0 /\ n - 1 = k /\ k \in 0 .. k + 1 /\ k # k + 1
        BY <3>1
      <4>2. g[k] = f[k] /\ g[n] = ReadUnit(f[k], s[k + 1])
        BY <2>2, <3>1, <4>1
      <4> QED
        BY <3>1, <4>1, <4>2, Zenon
    <3>2. CASE n # k + 1 /\ n = 0
      <4>1. n \in 0 .. k
        BY <3>2
      <4> QED
        BY <2>1, <2>2, <3>2, <4>1, Zenon
    <3>3. CASE n # k + 1 /\ n # 0
      <4>1. n \in 0 .. k /\ n - 1 \in 0 .. k + 1 /\ n - 1 # k + 1
        BY <3>3
      <4>2. g[n - 1] = f[n - 1] /\ g[n] = f[n]
        BY <2>2, <3>3, <4>1, Zenon
      <4> QED
        BY <2>1, <3>3, <4>1, <4>2, Zenon
    <3> QED
      BY <3>1, <3>2, <3>3
  <2>4. g = [n \in 0 .. k + 1 |-> g[n]]
    OBVIOUS
  <2> HIDE DEF g
  <2>5. IsDecoded(s, k + 1, g)
    BY <2>3, <2>4, Zenon DEF IsDecoded
  <2> QED
    BY <2>5
<1>3. \A n \in Nat : n \in T => n + 1 \in T
  BY <1>2
<1> HIDE DEF T
<1>4. m \in T
  BY <1>1, <1>3, NumberInduction
<1> QED
  BY <1>4 DEF T

\* Decode() starts at the start and reads one unit after the other.
LEMMA DecodeFacts ==
    ASSUME NEW s \in Seq(Units)
    PROVE  /\ Decode(s)[0] = StartOfStream
           /\ \A n \in 1 .. Len(s) :
                 Decode(s)[n] = ReadUnit(Decode(s)[n - 1], s[n])
<1>1. Decode(s) = CHOOSE f : IsDecoded(s, Len(s), f)
  BY DEF Decode, IsDecoded
<1>2. PICK f : f = CHOOSE g : IsDecoded(s, Len(s), g)
  OBVIOUS
<1>3. Len(s) \in Nat
  OBVIOUS
<1>4. IsDecoded(s, Len(s), f)
  BY <1>2, <1>3, DecodedExists
<1>5. \A n \in 0 .. Len(s) :
         f[n] = IF n = 0 THEN StartOfStream ELSE ReadUnit(f[n - 1], s[n])
  BY <1>4, Zenon DEF IsDecoded
<1>6. /\ 0 \in 0 .. Len(s)
      /\ \A n \in 1 .. Len(s) : n \in 0 .. Len(s) /\ n # 0
  BY <1>3
<1>7. f[0] = StartOfStream
  BY <1>5, <1>6, Zenon
<1>8. \A n \in 1 .. Len(s) : f[n] = ReadUnit(f[n - 1], s[n])
  BY <1>5, <1>6, Zenon
<1>9. Decode(s) = f
  BY <1>1, <1>2
<1> QED
  BY <1>7, <1>8, <1>9

\* What was read so far: the phase, the line or body so far, and the rest.
Read(ph, ln, rq, dn) == [phase |-> ph, line |-> ln, request |-> rq, done |-> dn]

LEMMA ReadFacts ==
    ASSUME NEW ph, NEW ln, NEW rq, NEW dn, NEW d, d = Read(ph, ln, rq, dn)
    PROVE  /\ d.phase = ph /\ d.line = ln /\ d.request = rq /\ d.done = dn
           /\ \A p : [d EXCEPT !.phase = p] = Read(p, ln, rq, dn)
           /\ \A l : [d EXCEPT !.line = l] = Read(ph, l, rq, dn)
           /\ \A p, r : Continue(d, p, r) = Read(p, <<>>, r, dn)
<1>1. d.phase = ph /\ d.line = ln /\ d.request = rq /\ d.done = dn
  BY DEF Read
<1>2. \A p : [d EXCEPT !.phase = p] = Read(p, ln, rq, dn)
  BY DEF Read
<1>3. \A l : [d EXCEPT !.line = l] = Read(ph, l, rq, dn)
  BY DEF Read
<1>4. \A p, r : Continue(d, p, r) = Read(p, <<>>, r, dn)
  BY <1>1 DEF Read, Continue
<1> QED
  BY <1>1, <1>2, <1>3, <1>4, Zenon

\* A unit that does not end a line is added to it.
LEMMA ReadInLine ==
    ASSUME NEW ph \in {"EXPECT_REQUEST_LINE", "EXPECT_HEADERS"},
           NEW ln \in Seq(Units), NEW rq, NEW dn, NEW u \in Units,
           ~ (Len(ln) >= 1 /\ ln[Len(ln)] = CR /\ u = LF)
    PROVE  ReadUnit(Read(ph, ln, rq, dn), u) = Read(ph, Append(ln, u), rq, dn)
<1>d. PICK d : d = Read(ph, ln, rq, dn)
  OBVIOUS
<1>l. PICK line : line = Append(ln, u)
  OBVIOUS
<1>1. /\ d.phase = ph /\ d.line = ln
      /\ [d EXCEPT !.line = line] = Read(ph, line, rq, dn)
  BY <1>d DEF Read
<1>2. ~ (Len(line) >= 2 /\ line[Len(line) - 1] = CR /\ line[Len(line)] = LF)
  <2>1. Len(line) = Len(ln) + 1 /\ line[Len(ln) + 1] = u /\ Len(ln) \in Nat
    BY <1>l
  <2>2. Len(ln) >= 1 => line[Len(ln)] = ln[Len(ln)]
    BY <1>l
  <2>3. Len(line) - 1 = Len(ln) /\ (Len(line) >= 2 => Len(ln) >= 1)
    BY <2>1
  <2> QED
    BY <2>1, <2>2, <2>3
<1>3. ReadUnit(d, u) = [d EXCEPT !.line = line]
  <2>1. d.phase \notin {"FAIL", "closed"} /\ d.phase # "EXPECT_BODY"
    BY <1>1
  <2>2. line = Append(d.line, u)
    BY <1>1, <1>l
  <2> QED
    BY <1>2, <2>1, <2>2 DEF ReadUnit
<1> QED
  BY <1>d, <1>l, <1>1, <1>3

\* LF after CR ends it.
LEMMA ReadLineEnd ==
    ASSUME NEW ph \in {"EXPECT_REQUEST_LINE", "EXPECT_HEADERS"},
           NEW ln \in Seq(Units), NEW rq, NEW dn,
           Len(ln) >= 1, ln[Len(ln)] = CR
    PROVE  ReadUnit(Read(ph, ln, rq, dn), LF)
             = Consume(Read(ph, ln, rq, dn), SubSeq(ln, 1, Len(ln) - 1))
<1>d. PICK d : d = Read(ph, ln, rq, dn)
  OBVIOUS
<1>l. PICK line : line = Append(ln, LF)
  OBVIOUS
<1>1. d.phase = ph /\ d.line = ln
  BY <1>d DEF Read
<1>0. LF \in Units
  BY DEF Units
<1>2. /\ Len(line) >= 2 /\ line[Len(line) - 1] = CR /\ line[Len(line)] = LF
      /\ Len(line) - 2 = Len(ln) - 1
  <2>1. Len(line) = Len(ln) + 1 /\ line[Len(ln) + 1] = LF /\ Len(ln) \in Nat
    BY <1>0, <1>l
  <2>2. line[Len(ln)] = ln[Len(ln)]
    BY <1>0, <1>l
  <2>3. /\ Len(line) - 1 = Len(ln) /\ Len(line) >= 2
        /\ Len(line) - 2 = Len(ln) - 1
    BY <2>1
  <2> QED
    BY <2>1, <2>2, <2>3
<1>3. SubSeq(line, 1, Len(line) - 2) = SubSeq(ln, 1, Len(ln) - 1)
  <2>1. PICK n : n = Len(ln) - 1
    OBVIOUS
  <2>2. n \in Nat /\ n < Len(ln)
    BY <2>1
  <2>3. SubSeq(Append(ln, LF), 1, n) = SubSeq(ln, 1, n)
    <3>1. \A i \in 1 .. n : Append(ln, LF)[i] = ln[i]
      BY <1>0, <2>2
    <3> QED
      BY <1>0, <2>2, <3>1
  <2> QED
    BY <1>2, <1>l, <2>1, <2>3
<1>4. ReadUnit(d, LF) = Consume(d, SubSeq(line, 1, Len(line) - 2))
  <2>1. d.phase \notin {"FAIL", "closed"} /\ d.phase # "EXPECT_BODY"
    BY <1>1
  <2>2. line = Append(d.line, LF)
    BY <1>1, <1>l
  <2> QED
    BY <1>2, <2>1, <2>2, Zenon DEF ReadUnit
<1> QED
  BY <1>d, <1>3, <1>4

\* A unit of a body is added to it; ...
LEMMA ReadInBody ==
    ASSUME NEW ln \in Seq(Units), NEW rq, NEW dn, NEW u \in Units,
           Len(ln) + 1 # rq.length
    PROVE  ReadUnit(Read("EXPECT_BODY", ln, rq, dn), u)
             = Read("EXPECT_BODY", Append(ln, u), rq, dn)
<1>d. PICK d : d = Read("EXPECT_BODY", ln, rq, dn)
  OBVIOUS
<1>l. PICK line : line = Append(ln, u)
  OBVIOUS
<1>1. /\ d.phase = "EXPECT_BODY" /\ d.line = ln /\ d.request = rq
      /\ [d EXCEPT !.line = line] = Read("EXPECT_BODY", line, rq, dn)
  BY <1>d DEF Read
<1>2. Len(line) # rq.length
  BY <1>l
<1>3. ReadUnit(d, u) = [d EXCEPT !.line = line]
  <2>1. d.phase \notin {"FAIL", "closed"} /\ d.phase = "EXPECT_BODY"
    BY <1>1
  <2>2. line = Append(d.line, u)
    BY <1>1, <1>l
  <2> QED
    BY <1>1, <1>2, <2>1, <2>2, Zenon DEF ReadUnit
<1> QED
  BY <1>d, <1>l, <1>1, <1>3, Zenon

\* ... the last one completes the request.
LEMMA ReadBodyEnd ==
    ASSUME NEW ln \in Seq(Units), NEW rq, NEW dn, NEW u \in Units,
           Len(ln) + 1 = rq.length
    PROVE  ReadUnit(Read("EXPECT_BODY", ln, rq, dn), u)
             = Complete(Read("EXPECT_BODY", ln, rq, dn),
                        [rq EXCEPT !.body = Append(ln, u)])
<1>d. PICK d : d = Read("EXPECT_BODY", ln, rq, dn)
  OBVIOUS
<1>l. PICK line : line = Append(ln, u)
  OBVIOUS
<1>1. /\ d.phase = "EXPECT_BODY" /\ d.line = ln /\ d.request = rq
      /\ [d EXCEPT !.line = line] = Read("EXPECT_BODY", line, rq, dn)
  BY <1>d DEF Read
<1>2. Len(line) = rq.length
  BY <1>l
<1>3. ReadUnit(d, u) = Complete(d, [rq EXCEPT !.body = line])
  <2>1. d.phase \notin {"FAIL", "closed"} /\ d.phase = "EXPECT_BODY"
    BY <1>1
  <2>2. line = Append(d.line, u)
    BY <1>1, <1>l
  <2> QED
    BY <1>1, <1>2, <2>1, <2>2, Zenon DEF ReadUnit
<1> QED
  BY <1>d, <1>l, <1>1, <1>3, Zenon

\* Two sequences with the same elements are equal.
LEMMA SameElements ==
    ASSUME NEW S, NEW a \in Seq(S), NEW b \in Seq(S), Len(a) = Len(b),
           \A i \in 1 .. Len(a) : a[i] = b[i]
    PROVE  a = b
OBVIOUS

LEMMA AppendFacts ==
    ASSUME NEW S, NEW b \in Seq(S), NEW e \in S
    PROVE  /\ Append(b, e) \in Seq(S) /\ Len(Append(b, e)) = Len(b) + 1
           /\ Append(b, e)[Len(b) + 1] = e
           /\ \A i \in 1 .. Len(b) : Append(b, e)[i] = b[i]
           /\ Len(b) \in Nat
OBVIOUS

\* The elements of s after the m-th, up to the n-th.
Part(s, m, n) == SubSeq(s, m + 1, n)

LEMMA PartElements ==
    ASSUME NEW S, NEW s \in Seq(S), NEW m \in Nat, NEW n \in Nat,
           m <= n, n <= Len(s)
    PROVE  /\ Part(s, m, n) \in Seq(S)
           /\ Len(Part(s, m, n)) = n - m
           /\ \A i \in 1 .. n - m : Part(s, m, n)[i] = s[m + i]
BY PartFacts DEF Part

LEMMA PartEmpty ==
    ASSUME NEW S, NEW s \in Seq(S), NEW m \in Nat
    PROVE  Part(s, m, m) = <<>>
BY DEF Part

\* The same of a stream.
LEMMA PartOfStream ==
    ASSUME NEW s \in Seq(Units), NEW m \in Nat, NEW n \in Nat,
           m <= n, n <= Len(s)
    PROVE  /\ Part(s, m, n) \in Seq(Units)
           /\ Len(Part(s, m, n)) = n - m
           /\ \A i \in 1 .. n - m : Part(s, m, n)[i] = s[m + i]
BY PartElements

\* A part grows by its next element.
LEMMA PartGrows ==
    ASSUME NEW S, NEW s \in Seq(S), NEW m \in Nat, NEW n \in Nat,
           m <= n, n + 1 <= Len(s)
    PROVE  /\ Part(s, m, n + 1) = Append(Part(s, m, n), s[n + 1])
           /\ s[n + 1] \in S
<1>a. PICK a : a = Part(s, m, n + 1)
  OBVIOUS
<1>b. PICK b : b = Part(s, m, n)
  OBVIOUS
<1>c. PICK c : c = Append(b, s[n + 1])
  OBVIOUS
<1>0. n + 1 \in Nat /\ m <= n + 1 /\ n <= Len(s) /\ s[n + 1] \in S
  OBVIOUS
<1>1. /\ a \in Seq(S) /\ Len(a) = (n + 1) - m
      /\ \A i \in 1 .. (n + 1) - m : a[i] = s[m + i]
  BY <1>0, <1>a, PartElements, ZenonT(60)
<1>2. /\ b \in Seq(S) /\ Len(b) = n - m
      /\ \A i \in 1 .. n - m : b[i] = s[m + i]
  BY <1>0, <1>b, PartElements, ZenonT(60)
<1>3. /\ c \in Seq(S) /\ Len(c) = (n - m) + 1
      /\ \A i \in 1 .. n - m : c[i] = b[i]
      /\ c[(n - m) + 1] = s[n + 1]
  <2>1. PICK e : e = s[n + 1]
    BY ONLY TRUE
  <2>2. e \in S /\ c = Append(b, e)
    BY ONLY <1>0, <1>c, <2>1
  <2>3. /\ c \in Seq(S) /\ Len(c) = Len(b) + 1
        /\ c[Len(b) + 1] = e
        /\ \A i \in 1 .. Len(b) : c[i] = b[i]
    BY ONLY <1>2, <2>2, AppendFacts
  <2>4. Len(b) = n - m
    BY ONLY <1>2
  <2> QED
    BY ONLY <2>1, <2>3, <2>4, Zenon
<1>4. (n + 1) - m = (n - m) + 1
  OBVIOUS
<1>5. ASSUME NEW i \in 1 .. (n - m) + 1 PROVE a[i] = c[i]
  <2>1. CASE i = (n - m) + 1
    <3>1. m + i = n + 1
      BY <2>1
    <3> QED
      BY <1>1, <1>3, <1>4, <2>1, <3>1
  <2>2. CASE i # (n - m) + 1
    <3>1. i \in 1 .. n - m
      BY <2>2
    <3> QED
      BY <1>1, <1>2, <1>3, <1>4, <3>1
  <2> QED
    BY <2>1, <2>2
<1>6. a = c
  BY <1>1, <1>3, <1>4, <1>5, SameElements
<1> QED
  BY <1>0, <1>6, <1>a, <1>b, <1>c

LEMMA FrontOfAppend ==
    ASSUME NEW S, NEW b \in Seq(S), NEW u \in S
    PROVE  SubSeq(Append(b, u), 1, Len(b)) = b
<1>1. \A i \in 1 .. Len(b) : Append(b, u)[i] = b[i]
  OBVIOUS
<1> QED
  BY <1>1

\* Each of m units after the c-th is added to what was read.
Adds(s, c, m, ph, rq, dn) ==
    \A j \in Nat : j < m =>
       ReadUnit(Read(ph, Part(s, c, c + j), rq, dn), s[(c + j) + 1])
         = Read(ph, Append(Part(s, c, c + j), s[(c + j) + 1]), rq, dn)

\* Then what was read is a part of the stream.
LEMMA Accumulates ==
    ASSUME NEW s \in Seq(Units), NEW c \in Nat, NEW m \in Nat, c + m <= Len(s),
           NEW ph, NEW rq, NEW dn, Decode(s)[c] = Read(ph, <<>>, rq, dn),
           Adds(s, c, m, ph, rq, dn)
    PROVE  Decode(s)[c + m] = Read(ph, Part(s, c, c + m), rq, dn)
<1> DEFINE T == {j \in Nat : j <= m =>
                   Decode(s)[c + j] = Read(ph, Part(s, c, c + j), rq, dn)}
<1>1. 0 \in T
  <2>1. Part(s, c, c) = <<>> /\ c + 0 = c
    BY PartEmpty
  <2>2. Decode(s)[c + 0] = Read(ph, Part(s, c, c + 0), rq, dn)
    BY <2>1, Zenon
  <2>3. 0 \in Nat
    OBVIOUS
  <2> QED
    BY <2>2, <2>3, Zenon
<1>2. ASSUME NEW j \in Nat, j \in T, j + 1 <= m
      PROVE  Decode(s)[c + (j + 1)] = Read(ph, Part(s, c, c + (j + 1)), rq, dn)
  <2>1. /\ j < m /\ j <= m /\ c + j \in Nat /\ c <= c + j
        /\ (c + j) + 1 <= Len(s) /\ c + (j + 1) = (c + j) + 1
        /\ (c + j) + 1 \in 1 .. Len(s) /\ ((c + j) + 1) - 1 = c + j
    BY <1>2
  <2>2. Decode(s)[c + j] = Read(ph, Part(s, c, c + j), rq, dn)
    BY <1>2, <2>1, Zenon
  <2>3. Decode(s)[(c + j) + 1] = ReadUnit(Decode(s)[c + j], s[(c + j) + 1])
    BY <2>1, DecodeFacts
  <2>4. Part(s, c, (c + j) + 1)
          = Append(Part(s, c, c + j), s[(c + j) + 1])
    BY <2>1, PartGrows, SMTT(40)
  <2> QED
    BY <2>1, <2>2, <2>3, <2>4, Zenon DEF Adds
<1>3. \A j \in Nat : j \in T => j + 1 \in T
  <2>1. \A j \in Nat : j + 1 \in Nat
    OBVIOUS
  <2> QED
    BY <1>2, <2>1, Zenon
<1>4. m \in T
  <2> HIDE DEF T
  <2> QED
    BY <1>1, <1>3, NumberInduction
<1>5. m <= m
  OBVIOUS
<1> QED
  BY <1>4, <1>5, Zenon

\* No line ends in m units after the c-th.
NoLineEnd(s, c, m) ==
    \A i \in c + 1 .. (c + m) - 1 : ~ (s[i] = CR /\ s[i + 1] = LF)

\* Reading units without a line end.
LEMMA ReadsPartOfLine ==
    ASSUME NEW s \in Seq(Units), NEW c \in Nat, NEW m \in Nat, c + m <= Len(s),
           NEW ph \in {"EXPECT_REQUEST_LINE", "EXPECT_HEADERS"}, NEW rq, NEW dn,
           Decode(s)[c] = Read(ph, <<>>, rq, dn),
           NoLineEnd(s, c, m)
    PROVE  Decode(s)[c + m] = Read(ph, Part(s, c, c + m), rq, dn)
<1>1. ASSUME NEW j \in Nat, j < m
      PROVE  ReadUnit(Read(ph, Part(s, c, c + j), rq, dn), s[(c + j) + 1])
               = Read(ph, Append(Part(s, c, c + j), s[(c + j) + 1]), rq, dn)
  <2>0. /\ c + j \in Nat /\ c <= c + j /\ c + j <= Len(s)
        /\ (c + j) - c = j /\ (c + j) + 1 \in 1 .. Len(s)
    BY <1>1
  <2>l. PICK ln : ln = Part(s, c, c + j)
    OBVIOUS
  <2>1. /\ ln \in Seq(Units) /\ Len(ln) = j
        /\ \A i \in 1 .. j : ln[i] = s[c + i]
    <3>1. /\ Part(s, c, c + j) \in Seq(Units)
          /\ Len(Part(s, c, c + j)) = (c + j) - c
          /\ \A i \in 1 .. (c + j) - c : Part(s, c, c + j)[i] = s[c + i]
      BY ONLY <2>0, s \in Seq(Units), c \in Nat, PartOfStream
    <3> QED
      BY <2>0, <2>l, <3>1, Zenon
  <2>2. s[(c + j) + 1] \in Units
    BY <2>0
  <2>3. ~ (Len(ln) >= 1 /\ ln[Len(ln)] = CR /\ s[(c + j) + 1] = LF)
    <3>1. CASE j >= 1
      <4>1. j \in 1 .. j /\ c + j \in c + 1 .. (c + m) - 1
        BY <1>1, <3>1
      <4>2. ln[Len(ln)] = s[c + j]
        BY <2>1, <4>1
      <4> QED
        BY <4>1, <4>2 DEF NoLineEnd
    <3>2. CASE ~ (j >= 1)
      BY <2>1, <3>2
    <3> QED
      BY <3>1, <3>2
  <2> QED
    BY <2>1, <2>2, <2>3, <2>l, ReadInLine
<1>2. Adds(s, c, m, ph, rq, dn)
  BY <1>1, Zenon DEF Adds
<1> QED
  BY <1>2, Accumulates

\* Reading a line to its end, at p and p + 1.
LEMMA ReadsLine ==
    ASSUME NEW s \in Seq(Units), NEW c \in Nat, NEW p \in Nat,
           c + 1 <= p, p + 1 <= Len(s),
           NEW ph \in {"EXPECT_REQUEST_LINE", "EXPECT_HEADERS"}, NEW rq, NEW dn,
           Decode(s)[c] = Read(ph, <<>>, rq, dn),
           s[p] = CR, s[p + 1] = LF,
           \A i \in c + 1 .. p - 1 : ~ (s[i] = CR /\ s[i + 1] = LF)
    PROVE  Decode(s)[p + 1] = Consume(Read(ph, Part(s, c, p), rq, dn),
                                      Part(s, c, p - 1))
<1>1. PICK m : m = p - c
  OBVIOUS
<1>2. m \in Nat /\ c + m = p /\ c + m <= Len(s) /\ m >= 1
      /\ p <= Len(s) /\ c <= p /\ p + 1 \in 1 .. Len(s) /\ (p + 1) - 1 = p
  BY <1>1
<1>l. PICK ln : ln = Part(s, c, p)
  OBVIOUS
<1>3. Decode(s)[p] = Read(ph, ln, rq, dn)
  <2>1. NoLineEnd(s, c, m)
    BY <1>2 DEF NoLineEnd
  <2>2. Decode(s)[c + m] = Read(ph, Part(s, c, c + m), rq, dn)
    BY <1>2, <2>1, ReadsPartOfLine
  <2> QED
    BY <1>2, <1>l, <2>2
<1>4. /\ ln \in Seq(Units) /\ Len(ln) = m
      /\ \A i \in 1 .. m : ln[i] = s[c + i]
  <2>1. c <= p /\ p <= Len(s) /\ p - c = m
    BY <1>1, <1>2
  <2>2. /\ Part(s, c, p) \in Seq(Units) /\ Len(Part(s, c, p)) = p - c
        /\ \A i \in 1 .. p - c : Part(s, c, p)[i] = s[c + i]
    BY ONLY <2>1, s \in Seq(Units), c \in Nat, p \in Nat, PartOfStream
  <2> QED
    BY <1>l, <2>1, <2>2, Zenon
<1>5. ln[Len(ln)] = CR /\ Len(ln) >= 1
  <2>1. m \in 1 .. m
    BY <1>2
  <2> QED
    BY <1>2, <1>4, <2>1
<1>6. SubSeq(ln, 1, Len(ln) - 1) = Part(s, c, p - 1)
  <2>1. PICK n : n = p - 1
    OBVIOUS
  <2>2. n \in Nat /\ c <= n /\ n + 1 <= Len(s) /\ n + 1 = p /\ n <= Len(s)
        /\ n - c = m - 1 /\ n - c \in Nat
    BY <1>1, <1>2, <2>1
  <2>3. PICK b : b = Part(s, c, n)
    OBVIOUS
  <2>4. b \in Seq(Units) /\ Len(b) = n - c
    <3>1. Part(s, c, n) \in Seq(Units) /\ Len(Part(s, c, n)) = n - c
      BY ONLY <2>2, s \in Seq(Units), c \in Nat, PartOfStream, ZenonT(60)
    <3> QED
      BY <2>3, <3>1
  <2>5. ln = Append(b, s[n + 1]) /\ s[n + 1] \in Units
    <3>1. Part(s, c, n + 1) = Append(Part(s, c, n), s[n + 1])
          /\ s[n + 1] \in Units
      BY <2>2, PartGrows
    <3> QED
      BY <1>l, <2>2, <2>3, <3>1, Zenon
  <2>6. \A u \in Units : SubSeq(Append(b, u), 1, Len(b)) = b
    BY <2>4, FrontOfAppend
  <2>7. Len(ln) - 1 = Len(b)
    BY <1>4, <2>2, <2>4
  <2> QED
    BY <2>1, <2>3, <2>5, <2>6, <2>7, Zenon
<1>7. ReadUnit(Read(ph, ln, rq, dn), LF)
        = Consume(Read(ph, ln, rq, dn), SubSeq(ln, 1, Len(ln) - 1))
  BY ONLY <1>4, <1>5, ph \in {"EXPECT_REQUEST_LINE", "EXPECT_HEADERS"}, ReadLineEnd, Zenon
<1>8. Decode(s)[p + 1] = ReadUnit(Decode(s)[p], s[p + 1])
  BY <1>2, DecodeFacts
<1> QED
  BY <1>3, <1>6, <1>7, <1>8, <1>l, Zenon

\* Reading units of a body, without the last one.
LEMMA ReadsPartOfBody ==
    ASSUME NEW s \in Seq(Units), NEW c \in Nat, NEW m \in Nat, c + m <= Len(s),
           NEW rq, NEW dn, Decode(s)[c] = Read("EXPECT_BODY", <<>>, rq, dn),
           rq.length \in Nat, m < rq.length
    PROVE  Decode(s)[c + m] = Read("EXPECT_BODY", Part(s, c, c + m), rq, dn)
<1>1. ASSUME NEW j \in Nat, j < m
      PROVE  ReadUnit(Read("EXPECT_BODY", Part(s, c, c + j), rq, dn),
                      s[(c + j) + 1])
               = Read("EXPECT_BODY", Append(Part(s, c, c + j), s[(c + j) + 1]),
                      rq, dn)
  <2>0. /\ c + j \in Nat /\ c <= c + j /\ c + j <= Len(s)
        /\ (c + j) - c = j /\ (c + j) + 1 \in 1 .. Len(s)
    BY <1>1
  <2>l. PICK ln : ln = Part(s, c, c + j)
    OBVIOUS
  <2>1. ln \in Seq(Units) /\ Len(ln) = j
    BY ONLY <2>0, <2>l, s \in Seq(Units), c \in Nat, PartOfStream
  <2>2. s[(c + j) + 1] \in Units
    BY <2>0
  <2>3. Len(ln) + 1 # rq.length
    BY <1>1, <2>1
  <2> QED
    <3>1. ReadUnit(Read("EXPECT_BODY", ln, rq, dn), s[(c + j) + 1])
            = Read("EXPECT_BODY", Append(ln, s[(c + j) + 1]), rq, dn)
      BY ONLY <2>1, <2>2, <2>3, ReadInBody
    <3> QED
      BY <2>l, <3>1
<1>2. Adds(s, c, m, "EXPECT_BODY", rq, dn)
  BY <1>1, Zenon DEF Adds
<1> QED
  BY <1>2, Accumulates

\* Reading a body to its end.
LEMMA ReadsBody ==
    ASSUME NEW s \in Seq(Units), NEW c \in Nat, NEW n \in Nat, n >= 1,
           c + n <= Len(s), NEW rq, NEW dn, rq.length = n,
           Decode(s)[c] = Read("EXPECT_BODY", <<>>, rq, dn)
    PROVE  \E ln : Decode(s)[c + n] = Complete(Read("EXPECT_BODY", ln, rq, dn),
                                               [rq EXCEPT !.body = Part(s, c, c + n)])
<1>m. PICK m : m = n - 1
  OBVIOUS
<1>1. /\ m \in Nat /\ c + m <= Len(s) /\ m < n /\ c + m \in Nat
      /\ c <= c + m /\ (c + m) - c = m /\ (c + m) + 1 <= Len(s)
      /\ c + n = (c + m) + 1 /\ (c + m) + 1 \in 1 .. Len(s)
      /\ ((c + m) + 1) - 1 = c + m /\ m + 1 = n
  BY <1>m
<1>l. PICK ln : ln = Part(s, c, c + m)
  OBVIOUS
<1>2. Decode(s)[c + m] = Read("EXPECT_BODY", ln, rq, dn)
  <2>1. rq.length \in Nat /\ m < rq.length
    BY <1>1
  <2>2. Decode(s)[c + m] = Read("EXPECT_BODY", Part(s, c, c + m), rq, dn)
    BY ONLY <1>1, <2>1, s \in Seq(Units), c \in Nat,
            Decode(s)[c] = Read("EXPECT_BODY", <<>>, rq, dn), ReadsPartOfBody
  <2> QED
    BY <1>l, <2>2
<1>3. ln \in Seq(Units) /\ Len(ln) = m
  BY ONLY <1>1, <1>l, s \in Seq(Units), c \in Nat, PartOfStream
<1>4. /\ s[(c + m) + 1] \in Units
      /\ Part(s, c, (c + m) + 1) = Append(ln, s[(c + m) + 1])
  BY ONLY <1>1, <1>l, s \in Seq(Units), c \in Nat, PartGrows
<1>5. Decode(s)[(c + m) + 1] = ReadUnit(Decode(s)[c + m], s[(c + m) + 1])
  BY <1>1, DecodeFacts
<1>6. Len(ln) + 1 = rq.length
  BY <1>1, <1>3
<1>7. ReadUnit(Read("EXPECT_BODY", ln, rq, dn), s[(c + m) + 1])
        = Complete(Read("EXPECT_BODY", ln, rq, dn),
                   [rq EXCEPT !.body = Append(ln, s[(c + m) + 1])])
  BY ONLY <1>3, <1>4, <1>6, ReadBodyEnd
<1> QED
  BY <1>1, <1>2, <1>4, <1>5, <1>7, Zenon

\* What cannot be read stays so.
LEMMA FailStays ==
    ASSUME NEW s \in Seq(Units), NEW c \in Nat, NEW n \in Nat, c <= n,
           n <= Len(s), Decode(s)[c].phase = "FAIL"
    PROVE  Decode(s)[n].phase = "FAIL"
<1> DEFINE T == {j \in Nat : c + j <= Len(s) => Decode(s)[c + j].phase = "FAIL"}
<1>1. 0 \in T
  <2>1. c + 0 = c /\ 0 \in Nat
    OBVIOUS
  <2> QED
    BY <2>1, Zenon
<1>2. ASSUME NEW j \in Nat, j \in T, c + (j + 1) <= Len(s)
      PROVE  Decode(s)[c + (j + 1)].phase = "FAIL"
  <2>1. /\ c + j <= Len(s) /\ c + (j + 1) \in 1 .. Len(s)
        /\ (c + (j + 1)) - 1 = c + j
    BY <1>2
  <2>2. Decode(s)[c + j].phase = "FAIL"
    BY <1>2, <2>1, Zenon
  <2>3. Decode(s)[c + (j + 1)] = ReadUnit(Decode(s)[c + j], s[c + (j + 1)])
    BY <2>1, DecodeFacts
  <2>d. PICK d : d = Decode(s)[c + j]
    OBVIOUS
  <2>4. \A u : ReadUnit(d, u) = d
    BY <2>2, <2>d DEF ReadUnit
  <2> QED
    BY <2>2, <2>3, <2>4, <2>d, Zenon
<1>3. \A j \in Nat : j \in T => j + 1 \in T
  <2>1. \A j \in Nat : j + 1 \in Nat
    OBVIOUS
  <2> QED
    BY <1>2, <2>1, Zenon
<1>j. PICK j : j = n - c
  OBVIOUS
<1>4. j \in Nat /\ c + j = n /\ c + j <= Len(s)
  BY <1>j
<1>5. j \in T
  <2> HIDE DEF T
  <2> QED
    BY <1>1, <1>3, <1>4, NumberInduction
<1> QED
  BY <1>4, <1>5, Zenon

\* What a complete line leads to.
LEMMA ConsumeRequestLine ==
    ASSUME NEW ln, NEW rq, NEW dn, NEW line
    PROVE  Consume(Read("EXPECT_REQUEST_LINE", ln, rq, dn), line)
             = IF ParseRequestLine(line, rq).ok
               THEN Read("EXPECT_HEADERS", <<>>, ParseRequestLine(line, rq).request,
                         dn)
               ELSE Read("FAIL", ln, rq, dn)
<1>d. PICK d : d = Read("EXPECT_REQUEST_LINE", ln, rq, dn)
  OBVIOUS
<1>p. PICK parsed : parsed = ParseRequestLine(line, rq)
  OBVIOUS
<1>1. /\ d.phase = "EXPECT_REQUEST_LINE" /\ d.request = rq
      /\ [d EXCEPT !.phase = "FAIL"] = Read("FAIL", ln, rq, dn)
      /\ Continue(d, "EXPECT_HEADERS", parsed.request)
           = Read("EXPECT_HEADERS", <<>>, parsed.request, dn)
  <2>1. /\ d.phase = "EXPECT_REQUEST_LINE" /\ d.request = rq
        /\ \A p : [d EXCEPT !.phase = p] = Read(p, ln, rq, dn)
        /\ \A p, r : Continue(d, p, r) = Read(p, <<>>, r, dn)
    BY <1>d, ReadFacts
  <2> QED
    BY <2>1
<1>2. Consume(d, line)
        = IF parsed.ok
          THEN Continue(d, "EXPECT_HEADERS", parsed.request)
          ELSE [d EXCEPT !.phase = "FAIL"]
  <2>1. d.phase # "EXPECT_HEADERS"
    BY <1>1
  <2> QED
    BY <1>1, <1>p, <2>1 DEF Consume
<1> QED
  BY <1>1, <1>2, <1>d, <1>p, Zenon

LEMMA ConsumeHeaderLine ==
    ASSUME NEW ln, NEW rq, NEW dn, NEW line, line # <<>>
    PROVE  Consume(Read("EXPECT_HEADERS", ln, rq, dn), line)
             = IF ParseHeaderLine(line, rq).ok
               THEN Read("EXPECT_HEADERS", <<>>, ParseHeaderLine(line, rq).request,
                         dn)
               ELSE Read("FAIL", ln, rq, dn)
<1>d. PICK d : d = Read("EXPECT_HEADERS", ln, rq, dn)
  OBVIOUS
<1>p. PICK parsed : parsed = ParseHeaderLine(line, rq)
  OBVIOUS
<1>1. /\ d.phase = "EXPECT_HEADERS" /\ d.phase # "EXPECT_REQUEST_LINE"
      /\ d.request = rq
      /\ [d EXCEPT !.phase = "FAIL"] = Read("FAIL", ln, rq, dn)
      /\ Continue(d, "EXPECT_HEADERS", parsed.request)
           = Read("EXPECT_HEADERS", <<>>, parsed.request, dn)
  <2>1. /\ d.phase = "EXPECT_HEADERS" /\ d.request = rq
        /\ \A p : [d EXCEPT !.phase = p] = Read(p, ln, rq, dn)
        /\ \A p, r : Continue(d, p, r) = Read(p, <<>>, r, dn)
    BY <1>d, ReadFacts
  <2> QED
    BY <2>1
<1>2. Consume(d, line)
        = IF parsed.ok
          THEN Continue(d, "EXPECT_HEADERS", parsed.request)
          ELSE [d EXCEPT !.phase = "FAIL"]
  BY <1>1, <1>p DEF Consume
<1> QED
  BY <1>1, <1>2, <1>d, <1>p, Zenon

\* The empty line: a complete request, a length that is none, or a body.
LEMMA ConsumeEmptyLine ==
    ASSUME NEW ln, NEW rq \in Requests, NEW dn,
           NEW body, body = IF rq.method = "POST" THEN rq.length ELSE NoLength,
           NEW d, d = Read("EXPECT_HEADERS", ln, rq, dn)
    PROVE  /\ body \in {0, NoLength} => Consume(d, <<>>) = Complete(d, rq)
           /\ body = NoDigits => Consume(d, <<>>) = Read("FAIL", ln, rq, dn)
           /\ body \notin {0, NoLength, NoDigits} =>
                Consume(d, <<>>) = Read("EXPECT_BODY", <<>>, rq, dn)
<1>1. /\ d.phase = "EXPECT_HEADERS" /\ d.request = rq
      /\ [d EXCEPT !.phase = "FAIL"] = Read("FAIL", ln, rq, dn)
      /\ Continue(d, "EXPECT_BODY", rq)
           = Read("EXPECT_BODY", <<>>, rq, dn)
  <2>1. /\ d.phase = "EXPECT_HEADERS" /\ d.request = rq
        /\ \A p : [d EXCEPT !.phase = p] = Read(p, ln, rq, dn)
        /\ \A p, r : Continue(d, p, r) = Read(p, <<>>, r, dn)
    BY ReadFacts
  <2> QED
    BY <2>1
<1>0. body = IF d.request.method = "POST" THEN d.request.length ELSE NoLength
  BY <1>1
<1>p. d.phase = "EXPECT_HEADERS"
  BY <1>1
<1>2. Consume(d, <<>>)
        = CASE body \in {0, NoLength} -> Complete(d, d.request)
            [] body = NoDigits -> [d EXCEPT !.phase = "FAIL"]
            [] OTHER -> Continue(d, "EXPECT_BODY", d.request)
  <2>1. Consume(d, <<>>) = NoMoreHeaders(d)
    BY <1>p DEF Consume
  <2> QED
    BY <1>0, <2>1, Zenon DEF NoMoreHeaders
<1>3. NoDigits # NoLength /\ NoDigits # 0
  BY DEF NoDigits, NoLength
<1> QED
  BY <1>1, <1>2, <1>3

-----------------------------------------------------------------------------
(* The parser and the reference *)

\* The number of units that were consumed.
LEMMA ConsumedFacts ==
    ASSUME PlaceInv
    PROVE  /\ consumed \in Nat /\ consumed <= received /\ received <= Len(stream)
           /\ received \in Nat /\ stream \in Seq(Units)
           /\ readable_size \in Nat /\ received - consumed = readable_size
           /\ consumed = received - readable_size
BY DEF PlaceInv, consumed, readable_size

\* append() consumes nothing.
LEMMA ReceiveConsumed ==
    ASSUME PlaceInv, NEW size \in 1 .. Len(stream), Receive(size)
    PROVE  consumed' = consumed
<1>0. /\ stream \in Seq(Units) /\ Len(stream) \in Nat
      /\ read_offset \in Nat /\ write_offset \in Nat /\ received \in Nat
      /\ received <= Len(stream) /\ size \in Nat
  BY DEF PlaceInv
<1>d. PICK data : data = SubSeq(stream, received + 1, received + size)
  OBVIOUS
<1>1. received' = received + size /\ AppendData(data)
  BY <1>d DEF Receive
<1>2. Len(data) = size
  <2>1. size \in 1 .. Len(stream) - received
    BY DEF Receive
  <2>2. /\ received + size \in Nat /\ received <= received + size
        /\ (received + size) - received = size /\ received + size <= Len(stream)
    BY <1>0, <2>1
  <2> QED
    BY <1>0, <1>d, <2>2, PartFacts
<1>3. \/ write_offset' = write_offset + size /\ read_offset' = read_offset
      \/ write_offset' = (write_offset - read_offset) + size /\ read_offset' = 0
  BY <1>1, <1>2
     DEF AppendData, Extend, Compact, CompactDescending, Reallocate,
         readable_size
<1>4. \A r, w, n, k \in Nat :
         /\ (n + k) - ((w + k) - r) = n - (w - r)
         /\ (n + k) - (((w - r) + k) - 0) = n - (w - r)
  OBVIOUS
<1> QED
  BY <1>0, <1>1, <1>3, <1>4 DEF consumed, readable_size

\* forward_read_position() consumes what it is told to.
LEMMA ForwardConsumed ==
    ASSUME PlaceInv, NEW size \in Nat, size <= readable_size,
           ForwardReadPosition(size), received' = received
    PROVE  consumed' = consumed + size
<1>0. /\ read_offset \in Nat /\ write_offset \in Nat /\ received \in Nat
      /\ read_offset + size \in Nat /\ read_offset + size <= write_offset
  BY DEF PlaceInv, readable_size
<1>1. /\ read_offset' = Min({read_offset + size, write_offset})
      /\ write_offset' = write_offset
  BY DEF ForwardReadPosition
<1>2. read_offset' = read_offset + size
  BY <1>0, <1>1, MinMaxFacts
<1>3. \A r, w, n, k \in Nat : n - (w - (r + k)) = (n - (w - r)) + k
  OBVIOUS
<1> QED
  BY <1>0, <1>1, <1>2, <1>3 DEF consumed, readable_size

\* Where a readable element is in the stream.
LEMMA PlaceInStream ==
    ASSUME PlaceInv, HoldInv, NEW i \in Nat, read_offset < i, i <= write_offset
    PROVE  /\ memory[i] = stream[consumed + (i - read_offset)]
           /\ consumed + (i - read_offset) \in consumed + 1 .. received
<1>0. read_offset \in Nat /\ write_offset \in Nat /\ received \in Nat
  BY DEF PlaceInv
<1>1. /\ i \in read_offset + 1 .. write_offset
      /\ i + (received - write_offset)
           = (received - (write_offset - read_offset)) + (i - read_offset)
      /\ i + (received - write_offset) <= received
      /\ (received - (write_offset - read_offset)) + 1
           <= i + (received - write_offset)
  BY <1>0
<1>2. i + (received - write_offset) = consumed + (i - read_offset)
  BY <1>1 DEF consumed, readable_size
<1>3. memory[i] = stream[i + (received - write_offset)]
  BY <1>1 DEF HoldInv
<1>4. consumed + (i - read_offset) \in consumed + 1 .. received
  BY <1>0, <1>1, <1>2, ConsumedFacts DEF consumed, readable_size
<1> QED
  BY <1>2, <1>3, <1>4

\* get_next_crlf_position() finds the first line end of the stream that was
\* not consumed, and the line is what precedes it.
LEMMA LineInStream ==
    ASSUME PlaceInv, HoldInv, Ends # {}
    PROVE  \E p \in Nat :
              /\ consumed + 1 <= p /\ p + 1 <= received
              /\ stream[p] = CR /\ stream[p + 1] = LF
              /\ \A i \in consumed + 1 .. p - 1 :
                    ~ (stream[i] = CR /\ stream[i + 1] = LF)
              /\ Line = Part(stream, consumed, p - 1)
              /\ Len(Line) + 2 \in Nat /\ Len(Line) + 2 <= readable_size
              /\ consumed + (Len(Line) + 2) = p + 1
<1>0. /\ memory \in Seq(Cells) /\ Len(memory) \in Nat
      /\ read_offset \in Nat /\ write_offset \in Nat /\ received \in Nat
      /\ write_offset <= Len(memory) /\ stream \in Seq(Units)
      /\ received <= Len(stream)
  BY DEF PlaceInv
<1>c. PICK c : c = consumed
  OBVIOUS
<1>1. /\ c \in Nat /\ received - c = write_offset - read_offset
      /\ c = received - (write_offset - read_offset)
  BY <1>c, ConsumedFacts DEF readable_size
<1>2. Ends \subseteq read_offset + 1 .. write_offset - 1 /\ Ends \subseteq Nat
  BY <1>0 DEF Ends, LineEnds
<1>e. PICK e : e = Min(Ends)
  OBVIOUS
<1>3. e \in Ends /\ \A y \in Ends : e <= y
  BY <1>2, <1>e, SmallestExists
<1>4. /\ e \in Nat /\ read_offset + 1 <= e /\ e + 1 <= write_offset
      /\ memory[e] = CR /\ memory[e + 1] = LF
  BY <1>0, <1>2, <1>3 DEF Ends, LineEnds
<1>p. PICK p : p = c + (e - read_offset)
  OBVIOUS
<1>5. /\ p \in Nat /\ c + 1 <= p /\ p + 1 <= received
      /\ p + 1 = c + ((e + 1) - read_offset)
  BY <1>0, <1>1, <1>4, <1>p
<1>6. stream[p] = CR /\ stream[p + 1] = LF
  <2>1. /\ e + 1 \in Nat /\ read_offset < e /\ e <= write_offset
        /\ read_offset < e + 1
    BY <1>0, <1>4
  <2>2. memory[e] = stream[c + (e - read_offset)]
    BY <1>4, <1>c, <2>1, PlaceInStream
  <2>3. memory[e + 1] = stream[c + ((e + 1) - read_offset)]
    BY <1>4, <1>c, <2>1, PlaceInStream
  <2> QED
    BY <1>4, <1>5, <1>p, <2>2, <2>3
<1>7. ASSUME NEW i \in c + 1 .. p - 1, stream[i] = CR, stream[i + 1] = LF
      PROVE  FALSE
  <2>k. PICK k : k = (i - c) + read_offset
    OBVIOUS
  <2>1. /\ k \in Nat /\ read_offset < k /\ k <= write_offset /\ k < e
        /\ k + 1 \in Nat /\ read_offset < k + 1 /\ k + 1 <= write_offset
        /\ c + (k - read_offset) = i /\ c + ((k + 1) - read_offset) = i + 1
        /\ k \in read_offset + 1 .. write_offset - 1
    BY <1>0, <1>1, <1>4, <1>7, <1>p, <2>k
  <2>2. memory[k] = stream[c + (k - read_offset)]
    BY <1>c, <2>1, PlaceInStream
  <2>3. memory[k + 1] = stream[c + ((k + 1) - read_offset)]
    BY <1>c, <2>1, PlaceInStream
  <2>4. k \in Ends
    BY <1>7, <2>1, <2>2, <2>3 DEF Ends, LineEnds
  <2>5. e <= k
    BY <1>3, <2>4
  <2> QED
    BY <1>4, <2>1, <2>5
<1>n. PICK n : n = e - 1
  OBVIOUS
<1>8. /\ n \in Nat /\ read_offset <= n /\ n <= Len(memory)
      /\ p - 1 \in Nat /\ c <= p - 1 /\ p - 1 <= Len(stream)
      /\ (p - 1) - c = n - read_offset
  BY <1>0, <1>1, <1>4, <1>5, <1>p, <1>n
<1>l. PICK l : l = Line
  OBVIOUS
<1>9. l = SubSeq(memory, read_offset + 1, n)
  BY <1>e, <1>l, <1>n DEF Line
<1>10. /\ l \in Seq(Cells) /\ Len(l) = n - read_offset
       /\ \A i \in 1 .. n - read_offset : l[i] = memory[read_offset + i]
  BY <1>0, <1>8, <1>9, PartFacts, SMTT(40)
<1>q. PICK q : q = Part(stream, c, p - 1)
  OBVIOUS
<1>11. /\ q \in Seq(Units) /\ Len(q) = (p - 1) - c
       /\ \A i \in 1 .. (p - 1) - c : q[i] = stream[c + i]
  <2>k. PICK k : k = p - 1
    OBVIOUS
  <2>1. k \in Nat /\ c <= k /\ k <= Len(stream)
    BY <1>8, <2>k
  <2>2. stream \in Seq(Units) /\ c \in Nat
    BY <1>0, <1>1
  <2>3. /\ Part(stream, c, k) \in Seq(Units) /\ Len(Part(stream, c, k)) = k - c
        /\ \A i \in 1 .. k - c : Part(stream, c, k)[i] = stream[c + i]
    BY ONLY <2>1, <2>2, PartOfStream
  <2> QED
    BY <1>q, <2>k, <2>3, Zenon
<1>12. l = q
  <2>1. q \in Seq(Cells)
    BY <1>11 DEF Cells
  <2>2. ASSUME NEW i \in 1 .. n - read_offset PROVE l[i] = q[i]
    <3>1. /\ read_offset + i \in Nat /\ read_offset < read_offset + i
          /\ read_offset + i <= write_offset
          /\ c + ((read_offset + i) - read_offset) = c + i
      BY <1>0, <1>1, <1>4, <1>8, <1>n, <2>2
    <3>2. memory[read_offset + i] = stream[c + ((read_offset + i) - read_offset)]
      BY <1>c, <3>1, PlaceInStream
    <3> QED
      BY <1>8, <1>10, <1>11, <3>1, <3>2
  <2>3. Len(l) = Len(q) /\ \A i \in 1 .. Len(l) : l[i] = q[i]
    BY <1>8, <1>10, <1>11, <2>2
  <2> QED
    BY <1>10, <2>1, <2>3, SameElements
<1>13. /\ Len(l) + 2 \in Nat /\ Len(l) + 2 <= write_offset - read_offset
       /\ c + (Len(l) + 2) = p + 1
  BY <1>0, <1>1, <1>4, <1>8, <1>10, <1>n, <1>p
<1>14. readable_size = write_offset - read_offset
  BY DEF readable_size
<1> QED
  BY <1>5, <1>6, <1>7, <1>12, <1>13, <1>14, <1>c, <1>l, <1>q

\* Nothing but a part of a line is left when no line end is found.
LEMMA NoLineInStream ==
    ASSUME PlaceInv, HoldInv, Ends = {}
    PROVE  NoLineEnd(stream, consumed, readable_size)
<1>0. read_offset \in Nat /\ write_offset \in Nat /\ received \in Nat
  BY DEF PlaceInv
<1>c. PICK c : c = consumed
  OBVIOUS
<1>1. /\ c \in Nat /\ c = received - (write_offset - read_offset)
      /\ c + readable_size = received
  BY <1>0, <1>c, ConsumedFacts DEF readable_size
<1>2. ASSUME NEW i \in c + 1 .. received - 1, stream[i] = CR, stream[i + 1] = LF
      PROVE  FALSE
  <2>k. PICK k : k = (i - c) + read_offset
    OBVIOUS
  <2>1. /\ k \in Nat /\ read_offset < k /\ k <= write_offset
        /\ k + 1 \in Nat /\ read_offset < k + 1 /\ k + 1 <= write_offset
        /\ c + (k - read_offset) = i /\ c + ((k + 1) - read_offset) = i + 1
        /\ k \in read_offset + 1 .. write_offset - 1
    BY <1>0, <1>1, <1>2, <2>k
  <2>2. memory[k] = stream[c + (k - read_offset)]
    BY <1>c, <2>1, PlaceInStream
  <2>3. memory[k + 1] = stream[c + ((k + 1) - read_offset)]
    BY <1>c, <2>1, PlaceInStream
  <2>4. k \in Ends
    BY <1>2, <2>1, <2>2, <2>3 DEF Ends, LineEnds
  <2> QED
    BY <2>4
<1> QED
  BY <1>1, <1>2, <1>c DEF NoLineEnd

\* Where the reference is after what was consumed, and after all that was
\* received.
Decoded == Decode(stream)[consumed]
DecodedAll == Decode(stream)[received]

ReadingStates == {"EXPECT_REQUEST_LINE", "EXPECT_HEADERS", "EXPECT_BODY"}

\* Between two elements of a request the parser and the reference agree, and
\* the callback runs on an open connection only.  A request that is complete
\* and not yet answered is the last one the reference has read; the parser's
\* members are kept when the connection is closed after it.  When parse()
\* fails, the line it fails on may or may not be consumed.
TrackInv ==
    /\ state \in ReadingStates \cup {"SUCCESS", "FAIL"}
    /\ state \in ReadingStates =>
          status = "open" /\ Decoded = Read(state, <<>>, request, answered)
    /\ state = "EXPECT_BODY" => body_length = request.length /\ body_length >= 1
    /\ state = "SUCCESS" /\ calling =>
          /\ status = "open"
          /\ \E d : d.done = answered /\ Decoded = Complete(d, request)
    /\ state = "SUCCESS" /\ ~ calling =>
          status \notin {"open", "aborted"} /\ Decoded.done = answered
    /\ state = "FAIL" =>
          /\ ~ calling /\ status = "aborted" /\ Decoded.done = answered
          /\ DecodedAll.phase = "FAIL"
    /\ calling \in BOOLEAN

\* A line that is found is the one the reference reads.
LEMMA TakesLine ==
    ASSUME PlaceInv, HoldInv, Ends # {},
           state \in {"EXPECT_REQUEST_LINE", "EXPECT_HEADERS"},
           Decoded = Read(state, <<>>, request, answered)
    PROVE  \E p, ln :
              /\ p \in Nat
              /\ p <= received
              /\ Decode(stream)[p] = Consume(Read(state, ln, request, answered), Line)
              /\ Len(Line) + 2 \in Nat /\ Len(Line) + 2 <= readable_size
              /\ consumed + (Len(Line) + 2) = p
<1>1. PICK p \in Nat :
         /\ consumed + 1 <= p /\ p + 1 <= received
         /\ stream[p] = CR /\ stream[p + 1] = LF
         /\ \A i \in consumed + 1 .. p - 1 :
               ~ (stream[i] = CR /\ stream[i + 1] = LF)
         /\ Line = Part(stream, consumed, p - 1)
         /\ Len(Line) + 2 \in Nat /\ Len(Line) + 2 <= readable_size
         /\ consumed + (Len(Line) + 2) = p + 1
  BY LineInStream
<1>2. /\ stream \in Seq(Units) /\ consumed \in Nat /\ received \in Nat
      /\ received <= Len(stream)
  BY ConsumedFacts
<1>3. p + 1 <= Len(stream) /\ p + 1 \in Nat
  BY <1>1, <1>2
<1>4. Decode(stream)[consumed] = Read(state, <<>>, request, answered)
  BY DEF Decoded
<1>5. Decode(stream)[p + 1]
        = Consume(Read(state, Part(stream, consumed, p), request, answered),
                  Part(stream, consumed, p - 1))
  BY ONLY <1>1, <1>2, <1>3, <1>4,
          state \in {"EXPECT_REQUEST_LINE", "EXPECT_HEADERS"}, ReadsLine
<1> QED
  BY <1>1, <1>3, <1>5, Zenon

\* What makes parse() fail makes the reference fail on all that was received.
LEMMA FailsAtLast ==
    ASSUME PlaceInv, NEW p \in Nat, p <= received,
           Decode(stream)[p].phase = "FAIL"
    PROVE  DecodedAll.phase = "FAIL"
<1>1. stream \in Seq(Units) /\ received \in Nat /\ received <= Len(stream)
  BY ConsumedFacts
<1> QED
  BY ONLY <1>1, p \in Nat, p <= received, Decode(stream)[p].phase = "FAIL",
          FailStays DEF DecodedAll

\* A failing line is not consumed.
LEMMA TrackFails ==
    ASSUME TrackInv, Fail, UNCHANGED <<stream, received, history>>,
           state \in ReadingStates, DecodedAll.phase = "FAIL"
    PROVE  TrackInv'
<1>1. Decoded' = Decoded /\ DecodedAll' = DecodedAll
  BY DEF Fail, bufferVars, Decoded, DecodedAll, consumed, readable_size
<1>2. Decoded.done = answered
  BY DEF TrackInv, Read
<1>3. /\ state' = "FAIL" /\ calling' = FALSE /\ status' = "aborted"
      /\ answered' = answered
  BY DEF Fail, history
<1> QED
  BY <1>1, <1>2, <1>3 DEF TrackInv, ReadingStates

\* One or more elements are consumed: the parser's new state is the reference's.
LEMMA TrackReads ==
    ASSUME TrackInv, state' \in ReadingStates, status' = "open", calling' \in BOOLEAN,
           Decoded' = Read(state', <<>>, request', answered'),
           state' = "EXPECT_BODY" =>
              body_length' = request'.length /\ body_length' >= 1
    PROVE  TrackInv'
BY DEF TrackInv, ReadingStates

LEMMA TrackInvInit == Init => TrackInv
<1> SUFFICES ASSUME Init PROVE TrackInv
  OBVIOUS
<1>1. BufferInv
  BY BufferInvInit
<1>2. /\ stream \in Seq(Units) /\ consumed = 0
  <2>1. read_offset = 0 /\ write_offset = 0 /\ received = 0
    BY DEF Init, BufferInit
  <2> QED
    BY <1>1, <2>1 DEF BufferInv, PlaceInv, consumed, readable_size
<1>3. Decoded = StartOfStream
  BY <1>2, DecodeFacts DEF Decoded
<1>4. StartOfStream = Read("EXPECT_REQUEST_LINE", <<>>, EmptyRequest, <<>>)
  BY DEF StartOfStream, Read
<1>5. /\ state = "EXPECT_REQUEST_LINE" /\ request = EmptyRequest
      /\ answered = <<>> /\ status = "open" /\ calling = FALSE
  BY DEF Init
<1>6. Decoded = Read(state, <<>>, request, answered)
  BY <1>3, <1>4, <1>5
<1> QED
  BY <1>5, <1>6 DEF TrackInv, ReadingStates

\* recv() changes neither side.
LEMMA TrackReceive ==
    ASSUME BufferInv, TrackInv, NEW size \in 1 .. Len(stream), Receive(size)
    PROVE  TrackInv'
<1>1. consumed' = consumed
  BY ReceiveConsumed DEF BufferInv
<1>2. /\ status \in {"open", "closing"} /\ ~ calling
      /\ UNCHANGED <<stream, state, body_length, request, calling, answered, status>>
  BY DEF Receive, parserVars, history
<1>3. Decoded' = Decoded
  BY <1>1, <1>2 DEF Decoded
<1> QED
  BY <1>2, <1>3 DEF TrackInv, ReadingStates

\* Steps that change neither the buffer nor the parser.
LEMMA SameDecoded ==
    ASSUME UNCHANGED <<bufferVars, stream, received>>
    PROVE  Decoded' = Decoded /\ DecodedAll' = DecodedAll
BY DEF bufferVars, Decoded, DecodedAll, consumed, readable_size

LEMMA TrackMessageCallback ==
    ASSUME TrackInv, MessageCallback
    PROVE  TrackInv'
<1>1. Decoded' = Decoded /\ DecodedAll' = DecodedAll
  BY SameDecoded DEF MessageCallback
<1>2. /\ status \in {"open", "closing"} /\ ~ calling
      /\ UNCHANGED <<state, body_length, request, answered>>
      /\ \/ state = "SUCCESS" /\ status' = "fatal" /\ calling' = calling
         \/ state # "SUCCESS" /\ status' = status /\ calling' = TRUE
  BY DEF MessageCallback, parserVars
<1>3. CASE state = "SUCCESS"
  <2>1. status' = "fatal" /\ ~ calling' /\ calling' \in BOOLEAN
    BY <1>2, <1>3 DEF TrackInv
  <2>2. Decoded.done = answered
    BY <1>2, <1>3 DEF TrackInv
  <2> QED
    BY <1>1, <1>2, <1>3, <2>1, <2>2 DEF TrackInv, ReadingStates
<1>4. CASE state # "SUCCESS"
  <2>1. state \in ReadingStates
    BY <1>2, <1>4 DEF TrackInv
  <2>2. status' = status /\ calling' = TRUE
    BY <1>2, <1>4
  <2> QED
    BY <1>1, <1>2, <2>1, <2>2, TrackReads DEF TrackInv
<1> QED
  BY <1>3, <1>4

LEMMA TrackIncomplete ==
    ASSUME TrackInv, Incomplete
    PROVE  TrackInv'
<1>1. Decoded' = Decoded /\ DecodedAll' = DecodedAll
  BY SameDecoded DEF Incomplete
<1>2. /\ calling /\ state # "SUCCESS" /\ calling' = FALSE
      /\ UNCHANGED <<state, body_length, request, answered, status>>
  BY DEF Incomplete, parserVars, history
<1> QED
  BY <1>1, <1>2 DEF TrackInv, ReadingStates

LEMMA TrackWriteCompletes ==
    ASSUME TrackInv, WriteCompletes
    PROVE  TrackInv'
<1>1. Decoded' = Decoded /\ DecodedAll' = DecodedAll
  BY SameDecoded DEF WriteCompletes
<1>2. /\ status = "closing" /\ status' = "closed"
      /\ UNCHANGED <<state, body_length, request, answered, calling>>
  BY DEF WriteCompletes, parserVars, history
<1> QED
  BY <1>1, <1>2 DEF TrackInv, ReadingStates

LEMMA TrackRequestLine ==
    ASSUME BufferInv, TrackInv, RequestLine
    PROVE  TrackInv'
<1>0. PlaceInv /\ HoldInv
  BY DEF BufferInv
<1>1. /\ calling /\ state = "EXPECT_REQUEST_LINE" /\ Ends # {}
      /\ UNCHANGED <<stream, received, answered>>
      /\ UNCHANGED <<stream, received, history>>
  BY DEF RequestLine, history
<1>2. Decoded = Read(state, <<>>, request, answered) /\ status = "open"
      /\ state \in ReadingStates
      /\ state \in {"EXPECT_REQUEST_LINE", "EXPECT_HEADERS"}
  BY <1>1 DEF TrackInv, ReadingStates
<1>3. PICK p, ln :
         /\ p \in Nat
         /\ p <= received
         /\ Decode(stream)[p] = Consume(Read(state, ln, request, answered), Line)
         /\ Len(Line) + 2 \in Nat /\ Len(Line) + 2 <= readable_size
         /\ consumed + (Len(Line) + 2) = p
  BY <1>0, <1>1, <1>2, TakesLine
<1>p. PICK parsed : parsed = ParseRequestLine(Line, request)
  OBVIOUS
<1>4. Decode(stream)[p] = IF parsed.ok
                          THEN Read("EXPECT_HEADERS", <<>>, parsed.request, answered)
                          ELSE Read("FAIL", ln, request, answered)
  BY <1>1, <1>3, <1>p, ConsumeRequestLine, Zenon
<1>5. CASE parsed.ok
  <2>1. /\ request' = parsed.request /\ ForwardReadPosition(Len(Line) + 2)
        /\ state' = "EXPECT_HEADERS" /\ UNCHANGED <<body_length, calling, status>>
    BY <1>5, <1>p DEF RequestLine
  <2>2. consumed' = p
    BY <1>0, <1>1, <1>3, <2>1, ForwardConsumed
  <2>3. Decoded' = Read(state', <<>>, request', answered')
    <3>1. Decoded' = Decode(stream)[p]
      BY <1>1, <2>2 DEF Decoded
    <3> QED
      BY <1>1, <1>4, <1>5, <2>1, <3>1, Zenon
  <2> QED
    BY <1>1, <1>2, <2>1, <2>3, TrackReads DEF TrackInv, ReadingStates
<1>6. CASE ~ parsed.ok
  <2>1. Fail
    BY <1>6, <1>p DEF RequestLine
  <2>2. Decode(stream)[p].phase = "FAIL"
    BY <1>4, <1>6 DEF Read
  <2>3. DecodedAll.phase = "FAIL"
    BY <1>0, <1>3, <2>2, FailsAtLast
  <2> QED
    BY <1>1, <1>2, <2>1, <2>3, TrackFails
<1> QED
  BY <1>5, <1>6

LEMMA TrackHeaderLine ==
    ASSUME BufferInv, TrackInv, HeaderLine
    PROVE  TrackInv'
<1>0. PlaceInv /\ HoldInv
  BY DEF BufferInv
<1>1. /\ calling /\ state = "EXPECT_HEADERS" /\ Ends # {} /\ Line # <<>>
      /\ UNCHANGED <<stream, received, answered>>
      /\ UNCHANGED <<stream, received, history>>
  BY DEF HeaderLine, history
<1>2. Decoded = Read(state, <<>>, request, answered) /\ status = "open"
      /\ state \in ReadingStates
      /\ state \in {"EXPECT_REQUEST_LINE", "EXPECT_HEADERS"}
  BY <1>1 DEF TrackInv, ReadingStates
<1>3. PICK p, ln :
         /\ p \in Nat
         /\ p <= received
         /\ Decode(stream)[p] = Consume(Read(state, ln, request, answered), Line)
         /\ Len(Line) + 2 \in Nat /\ Len(Line) + 2 <= readable_size
         /\ consumed + (Len(Line) + 2) = p
  BY <1>0, <1>1, <1>2, TakesLine
<1>p. PICK parsed : parsed = ParseHeaderLine(Line, request)
  OBVIOUS
<1>4. Decode(stream)[p] = IF parsed.ok
                          THEN Read("EXPECT_HEADERS", <<>>, parsed.request, answered)
                          ELSE Read("FAIL", ln, request, answered)
  BY <1>1, <1>3, <1>p, ConsumeHeaderLine, Zenon
<1>5. CASE parsed.ok
  <2>1. /\ request' = parsed.request /\ ForwardReadPosition(Len(Line) + 2)
        /\ UNCHANGED <<state, body_length, calling, status>>
    BY <1>5, <1>p DEF HeaderLine
  <2>2. consumed' = p
    BY <1>0, <1>1, <1>3, <2>1, ForwardConsumed
  <2>3. Decoded' = Read(state', <<>>, request', answered')
    <3>1. Decoded' = Decode(stream)[p]
      BY <1>1, <2>2 DEF Decoded
    <3> QED
      BY <1>1, <1>4, <1>5, <2>1, <3>1, Zenon
  <2> QED
    BY <1>1, <1>2, <2>1, <2>3, TrackReads DEF TrackInv, ReadingStates
<1>6. CASE ~ parsed.ok
  <2>1. Fail
    BY <1>6, <1>p DEF HeaderLine
  <2>2. Decode(stream)[p].phase = "FAIL"
    BY <1>4, <1>6 DEF Read
  <2>3. DecodedAll.phase = "FAIL"
    BY <1>0, <1>3, <2>2, FailsAtLast
  <2> QED
    BY <1>1, <1>2, <2>1, <2>3, TrackFails
<1> QED
  BY <1>5, <1>6

LEMMA TrackEndOfHeaders ==
    ASSUME BufferInv, TrackInv, EndOfHeaders
    PROVE  TrackInv'
<1>0. PlaceInv /\ HoldInv /\ request \in Requests
  BY DEF BufferInv, ParserInv
<1>1. /\ calling /\ state = "EXPECT_HEADERS" /\ Ends # {} /\ Line = <<>>
      /\ ForwardReadPosition(2)
      /\ UNCHANGED <<stream, received, answered, request>>
  BY DEF EndOfHeaders, history
<1>2. Decoded = Read(state, <<>>, request, answered) /\ status = "open"
      /\ state \in {"EXPECT_REQUEST_LINE", "EXPECT_HEADERS"}
  BY <1>1 DEF TrackInv, ReadingStates
<1>3. PICK p, ln :
         /\ p \in Nat
         /\ p <= received
         /\ Decode(stream)[p] = Consume(Read(state, ln, request, answered), Line)
         /\ Len(Line) + 2 \in Nat /\ Len(Line) + 2 <= readable_size
         /\ consumed + (Len(Line) + 2) = p
  BY <1>0, <1>1, <1>2, TakesLine
<1>4. consumed' = p
  <2>1. Len(Line) + 2 = 2
    BY <1>1
  <2> QED
    BY <1>0, <1>1, <1>3, <2>1, ForwardConsumed
<1>d. PICK d : d = Read("EXPECT_HEADERS", ln, request, answered)
  OBVIOUS
<1>5. Decoded' = Consume(d, <<>>)
  <2>1. Decoded' = Decode(stream)[p]
    BY <1>1, <1>4 DEF Decoded
  <2> QED
    BY <1>1, <1>3, <1>d, <2>1, Zenon
<1>b. PICK body : body = IF request.method = "POST" THEN request.length ELSE NoLength
  OBVIOUS
<1>6. /\ body \in {0, NoLength} => Decoded' = Complete(d, request)
      /\ body = NoDigits => Decoded' = Read("FAIL", ln, request, answered)
      /\ body \notin {0, NoLength, NoDigits} =>
            Decoded' = Read("EXPECT_BODY", <<>>, request, answered)
  <2>1. /\ body \in {0, NoLength} => Consume(d, <<>>) = Complete(d, request)
        /\ body = NoDigits => Consume(d, <<>>) = Read("FAIL", ln, request, answered)
        /\ body \notin {0, NoLength, NoDigits} =>
             Consume(d, <<>>) = Read("EXPECT_BODY", <<>>, request, answered)
    BY ONLY <1>0, <1>b, <1>d, ConsumeEmptyLine
  <2> QED
    BY <1>5, <2>1, Zenon
<1>7. d.done = answered
  BY <1>d DEF Read
<1>h. PICK has_length : has_length = (request.method = "POST" /\ request.length # NoLength)
  OBVIOUS
<1>8. request.length \in Nat /\ NoDigits # NoLength /\ NoDigits # 0 /\ body \in Nat
  BY <1>0, <1>b DEF Requests, NoDigits, NoLength
<1>9. CASE body = NoDigits
  <2>1. request.method = "POST" /\ request.length = NoDigits
    BY <1>8, <1>9, <1>b
  <2>2. state' = "FAIL" /\ calling' = FALSE /\ status' = "aborted"
    BY <1>8, <2>1 DEF EndOfHeaders
  <2>3. Decoded' = Read("FAIL", ln, request, answered)
    BY <1>6, <1>9
  <2>4. Decoded'.done = answered' /\ Decode(stream)[p].phase = "FAIL"
    <3>1. Decoded' = Decode(stream)[p]
      BY <1>1, <1>4 DEF Decoded
    <3> QED
      BY <1>1, <2>3, <3>1 DEF Read
  <2>5. DecodedAll.phase = "FAIL"
    BY <1>0, <1>3, <2>4, FailsAtLast
  <2>6. DecodedAll' = DecodedAll
    BY <1>1 DEF DecodedAll
  <2> QED
    BY <2>2, <2>4, <2>5, <2>6 DEF TrackInv, ReadingStates
<1>10. CASE body \in {0, NoLength}
  <2>1. /\ request.method = "POST" /\ request.length # NoLength => request.length = 0
    BY <1>10, <1>b, <1>8
  <2>2. /\ state' = "SUCCESS" /\ calling' = calling /\ status' = status
    BY <1>8, <2>1 DEF EndOfHeaders
  <2>3. Decoded' = Complete(d, request') /\ d.done = answered'
    BY <1>1, <1>6, <1>7, <1>10
  <2> QED
    BY <1>1, <1>2, <2>2, <2>3 DEF TrackInv, ReadingStates
<1>11. CASE body \notin {0, NoLength, NoDigits}
  <2>1. /\ request.method = "POST" /\ request.length = body
        /\ request.length \notin {0, NoLength, NoDigits}
    BY <1>11, <1>b
  <2>2. /\ state' = "EXPECT_BODY" /\ calling' = calling /\ status' = status
        /\ body_length' = request.length
    BY <2>1 DEF EndOfHeaders
  <2>3. Decoded' = Read(state', <<>>, request', answered')
    BY <1>1, <1>6, <1>11, <2>2
  <2>4. body_length' = request'.length /\ body_length' >= 1
    BY <1>1, <1>8, <2>1, <2>2
  <2> QED
    BY <1>1, <1>2, <2>2, <2>3, <2>4, TrackReads DEF TrackInv, ReadingStates
<1> QED
  BY <1>9, <1>10, <1>11

\* The first elements of a part.
LEMMA FrontOfPart ==
    ASSUME NEW s \in Seq(Units), NEW c \in Nat, NEW r \in Nat, NEW n \in Nat,
           c + n <= r, r <= Len(s)
    PROVE  SubSeq(Part(s, c, r), 1, n) = Part(s, c, c + n)
<1>0. /\ c <= r /\ c + n \in Nat /\ c <= c + n /\ c + n <= Len(s)
      /\ (c + n) - c = n /\ n <= r - c /\ 0 <= n /\ 0 \in Nat /\ 0 + 1 = 1
      /\ n - 0 = n
  OBVIOUS
<1>w. PICK w : w = Part(s, c, r)
  OBVIOUS
<1>1. /\ w \in Seq(Units) /\ Len(w) = r - c
      /\ \A i \in 1 .. r - c : w[i] = s[c + i]
  <2>1. /\ Part(s, c, r) \in Seq(Units) /\ Len(Part(s, c, r)) = r - c
        /\ \A i \in 1 .. r - c : Part(s, c, r)[i] = s[c + i]
    <3>1. c <= r
      BY <1>0
    <3> QED
      BY ONLY <3>1, s \in Seq(Units), c \in Nat, r \in Nat, r <= Len(s), PartOfStream
  <2> QED
    BY <1>w, <2>1, Zenon
<1>a. PICK a : a = SubSeq(w, 0 + 1, n)
  OBVIOUS
<1>2. /\ a \in Seq(Units) /\ Len(a) = n
      /\ \A i \in 1 .. n : a[i] = w[i]
  <2>1. n <= Len(w)
    BY <1>0, <1>1
  <2>2. /\ SubSeq(w, 0 + 1, n) \in Seq(Units) /\ Len(SubSeq(w, 0 + 1, n)) = n - 0
        /\ \A i \in 1 .. n - 0 : SubSeq(w, 0 + 1, n)[i] = w[0 + i]
    BY ONLY <1>0, <1>1, <2>1, n \in Nat, PartFacts, SMTT(40)
  <2>3. \A i \in 1 .. n : 0 + i = i
    OBVIOUS
  <2> QED
    BY <1>0, <1>a, <2>2, <2>3, Zenon
<1>b. PICK b : b = Part(s, c, c + n)
  OBVIOUS
<1>3. /\ b \in Seq(Units) /\ Len(b) = n
      /\ \A i \in 1 .. n : b[i] = s[c + i]
  <2>1. /\ Part(s, c, c + n) \in Seq(Units) /\ Len(Part(s, c, c + n)) = (c + n) - c
        /\ \A i \in 1 .. (c + n) - c : Part(s, c, c + n)[i] = s[c + i]
    <3>k. PICK k : k = c + n
      OBVIOUS
    <3>1. c <= k /\ k \in Nat /\ k <= Len(s)
      BY <1>0, <3>k
    <3>2. /\ Part(s, c, k) \in Seq(Units) /\ Len(Part(s, c, k)) = k - c
          /\ \A i \in 1 .. k - c : Part(s, c, k)[i] = s[c + i]
      BY ONLY <3>1, s \in Seq(Units), c \in Nat, PartOfStream
    <3> QED
      BY <3>k, <3>2, Zenon
  <2> QED
    BY <1>0, <1>b, <2>1, Zenon
<1>4. \A i \in 1 .. n : i \in 1 .. r - c
  BY <1>0
<1>5. Len(a) = Len(b) /\ \A i \in 1 .. Len(a) : a[i] = b[i]
  BY <1>1, <1>2, <1>3, <1>4, Zenon
<1>6. a = b
  BY ONLY <1>2, <1>3, <1>5, SameElements
<1> QED
  BY <1>0, <1>6, <1>a, <1>b, <1>w, Zenon

\* The body is the next part of the stream, line ends included.
LEMMA TrackBody ==
    ASSUME BufferInv, TrackInv, Body
    PROVE  TrackInv'
<1>0. PlaceInv /\ HoldInv /\ body_length \in Nat
  BY DEF BufferInv, ParserInv
<1>1. /\ calling /\ state = "EXPECT_BODY" /\ readable_size >= body_length
      /\ request' = [request EXCEPT !.body = SubSeq(Readable, 1, body_length)]
      /\ ForwardReadPosition(body_length) /\ state' = "SUCCESS"
      /\ UNCHANGED <<stream, received, answered, calling, status>>
  BY DEF Body, history
<1>2. /\ Decoded = Read("EXPECT_BODY", <<>>, request, answered)
      /\ status = "open" /\ body_length = request.length /\ body_length >= 1
  BY <1>1 DEF TrackInv, ReadingStates
<1>c. PICK c : c = consumed
  OBVIOUS
<1>n. PICK n : n = body_length
  OBVIOUS
<1>3. /\ stream \in Seq(Units) /\ c \in Nat /\ received \in Nat
      /\ received <= Len(stream) /\ received - c = readable_size
      /\ readable_size \in Nat
  BY <1>0, <1>c, ConsumedFacts
<1>4. n \in Nat /\ n >= 1 /\ c + n <= received /\ c + n <= Len(stream)
      /\ request.length = n
  BY <1>0, <1>1, <1>2, <1>3, <1>n
<1>5. consumed' = c + n
  BY <1>0, <1>1, <1>3, <1>c, <1>n, ForwardConsumed
<1>6. SubSeq(Readable, 1, body_length) = Part(stream, c, c + n)
  <2>1. Readable = Part(stream, c, received)
    BY <1>c, BufferInvHolds DEF Part
  <2>2. SubSeq(Part(stream, c, received), 1, n) = Part(stream, c, c + n)
    BY ONLY <1>3, <1>4, FrontOfPart
  <2> QED
    BY <1>n, <2>1, <2>2
<1>7. Decode(stream)[c] = Read("EXPECT_BODY", <<>>, request, answered)
  BY <1>2, <1>c DEF Decoded
<1>8. PICK ln : Decode(stream)[c + n]
                  = Complete(Read("EXPECT_BODY", ln, request, answered),
                             [request EXCEPT !.body = Part(stream, c, c + n)])
  BY ONLY <1>3, <1>4, <1>7, ReadsBody, SMTT(40)
<1>9. Decoded' = Complete(Read("EXPECT_BODY", ln, request, answered), request')
  <2>1. Decoded' = Decode(stream)[c + n]
    BY <1>1, <1>5 DEF Decoded
  <2> QED
    BY <1>1, <1>6, <1>8, <2>1, Zenon
<1>10. Read("EXPECT_BODY", ln, request, answered).done = answered'
  BY <1>1 DEF Read
<1> QED
  BY <1>1, <1>2, <1>9, <1>10 DEF TrackInv, ReadingStates

\* The request that is answered is the last one of the reference.
LEMMA TrackAnswer ==
    ASSUME TrackInv, NEW sent \in {"sent", "writing", "aborted"}, Answer(sent)
    PROVE  TrackInv'
<1>1. Decoded' = Decoded /\ DecodedAll' = DecodedAll
  BY SameDecoded DEF Answer
<1>2. /\ calling /\ state = "SUCCESS" /\ calling' = FALSE
      /\ answered' = Append(answered, request)
  BY DEF Answer
<1>3. PICK d : d.done = answered /\ Decoded = Complete(d, request)
  BY <1>2 DEF TrackInv
<1>4. status = "open"
  BY <1>2 DEF TrackInv
<1>5. Decoded = Read(IF request.connection = "close" THEN "closed"
                                                     ELSE "EXPECT_REQUEST_LINE",
                     <<>>, EmptyRequest, answered')
  BY <1>2, <1>3 DEF Complete, Read
<1>6. CASE sent = "aborted" \/ request.connection = "close"
  <2>1. state' = state /\ status' \notin {"open", "aborted"}
    BY <1>6 DEF Answer, parserVars
  <2>2. Decoded'.done = answered'
    BY <1>1, <1>5 DEF Read
  <2> QED
    BY <1>2, <2>1, <2>2 DEF TrackInv, ReadingStates
<1>7. CASE ~ (sent = "aborted" \/ request.connection = "close")
  <2>1. /\ state' = "EXPECT_REQUEST_LINE" /\ request' = EmptyRequest
        /\ status' = status
    BY <1>7 DEF Answer, ResetRequest
  <2>2. Decoded' = Read(state', <<>>, request', answered')
    BY <1>1, <1>5, <1>7, <2>1, Zenon
  <2> QED
    BY <1>2, <1>4, <2>1, <2>2, TrackReads DEF ReadingStates
<1> QED
  BY <1>6, <1>7

LEMMA TrackInvStep == BufferInv /\ TrackInv /\ [Next]_vars => TrackInv'
<1> SUFFICES ASSUME BufferInv, TrackInv, [Next]_vars PROVE TrackInv'
  OBVIOUS
<1>1. CASE UNCHANGED vars
  <2>1. Decoded' = Decoded /\ DecodedAll' = DecodedAll
    BY <1>1, SameDecoded DEF vars
  <2>2. UNCHANGED <<state, status, request, answered, body_length, calling>>
    BY <1>1 DEF vars, parserVars, history
  <2> QED
    BY <2>1, <2>2 DEF TrackInv
<1>2. ASSUME NEW size \in 1 .. Len(stream), Receive(size) PROVE TrackInv'
  BY <1>2, TrackReceive
<1>3. ASSUME NEW sent \in {"sent", "writing", "aborted"}, Answer(sent)
      PROVE  TrackInv'
  BY <1>3, TrackAnswer
<1> QED
  BY <1>1, <1>2, <1>3, TrackMessageCallback, TrackRequestLine, TrackHeaderLine,
     TrackEndOfHeaders, TrackBody, TrackIncomplete, TrackWriteCompletes DEF Next

LEMMA TrackInvDecodes == TrackInv => DecodesStream
<1> SUFFICES ASSUME TrackInv PROVE DecodesStream
  OBVIOUS
<1>1. ~ calling => answered = Decoded.done
  BY DEF TrackInv, ReadingStates, Read
<1>2. ~ calling /\ status = "open" =>
         state = Decoded.phase /\ request = Decoded.request /\ Decoded.line = <<>>
  BY DEF TrackInv, ReadingStates, Read
<1>3. status = "aborted" => DecodedAll.phase = "FAIL"
  BY DEF TrackInv, ReadingStates
<1> QED
  BY <1>1, <1>2, <1>3 DEF DecodesStream, Decoded, DecodedAll

\* Every step of the buffer leaves destroyed data destroyed.
LEMMA GarbledForGood == garbled /\ [Next]_vars => garbled'
<1> SUFFICES ASSUME garbled, [Next]_vars PROVE garbled'
  OBVIOUS
<1>1. UNCHANGED bufferVars => garbled'
  BY DEF bufferVars
<1>2. ASSUME NEW size, ForwardReadPosition(size) PROVE garbled'
  BY <1>2 DEF ForwardReadPosition
<1>3. ASSUME NEW size, Receive(size) PROVE garbled'
  BY <1>3, GarbledStays
<1>4. CASE RequestLine
  BY <1>1, <1>2, <1>4 DEF RequestLine, Fail
<1>5. CASE HeaderLine
  BY <1>1, <1>2, <1>5 DEF HeaderLine, Fail
<1>6. CASE EndOfHeaders
  BY <1>2, <1>6 DEF EndOfHeaders
<1>7. CASE Body
  BY <1>2, <1>7 DEF Body
<1>8. CASE MessageCallback \/ Incomplete \/ WriteCompletes \/ UNCHANGED vars
  BY <1>1, <1>8 DEF MessageCallback, Incomplete, WriteCompletes, vars
<1>9. ASSUME NEW sent, Answer(sent) PROVE garbled'
  BY <1>1, <1>9 DEF Answer
<1> QED
  BY <1>3, <1>4, <1>5, <1>6, <1>7, <1>8, <1>9 DEF Next

\* The parser follows the reference as long as the data is sound.
TrackSound == SoundInv /\ (garbled \/ TrackInv)

LEMMA TrackSoundStep == TrackSound /\ [Next]_vars => TrackSound'
<1> SUFFICES ASSUME TrackSound, [Next]_vars PROVE TrackSound'
  OBVIOUS
<1>1. SoundInv'
  BY SoundInvStep DEF TrackSound
<1>2. garbled => garbled'
  BY GarbledForGood
<1>3. ~ garbled => TrackInv'
  BY TrackInvStep DEF TrackSound, SoundInv, BufferInv
<1> QED
  BY <1>1, <1>2, <1>3 DEF TrackSound

\* The requests that are answered, and what the parser has of the next one, are
\* those of the stream that was consumed, read one unit at a time, wherever
\* recv() cut the stream; parse() fails on a stream that is no sequence of
\* requests only.  All of this as long as memcpy() has not destroyed the data.
THEOREM RequestsAreTheStreams == Spec => []DecodesStream
<1>1. Init => TrackSound
  BY BufferInvInit, TrackInvInit DEF TrackSound, SoundInv, BufferInv
<1>2. TrackSound => DecodesStream
  BY TrackInvDecodes DEF TrackSound, DecodesStream
<1> QED
  BY <1>1, <1>2, TrackSoundStep, PTL DEF Spec

-----------------------------------------------------------------------------
(* Nothing is left that could be taken *)

\* Between callbacks the parser waits for something that has not arrived,
\* unless more was received or the last callback ended with an answer.
WaitInv ==
    ~ calling /\ status = "open" /\ ~ fresh /\ ~ just_answered =>
       ~ ElementIsComplete

LEMMA WaitInvInit == Init => WaitInv
<1> SUFFICES ASSUME Init PROVE ~ ElementIsComplete
  BY DEF WaitInv
<1>1. state = "EXPECT_REQUEST_LINE" /\ write_offset = 0 /\ read_offset = 0
  BY DEF Init, BufferInit
<1>2. Ends = {}
  <2>1. read_offset + 1 .. write_offset - 1 = {}
    BY <1>1
  <2> QED
    BY <2>1 DEF Ends, LineEnds
<1> QED
  BY <1>1, <1>2 DEF ElementIsComplete

LEMMA WaitInvStep == WaitInv /\ [Next]_vars => WaitInv'
<1> SUFFICES ASSUME WaitInv, [Next]_vars PROVE WaitInv'
  OBVIOUS
<1>0. UNCHANGED <<bufferVars, parserVars>> =>
         ElementIsComplete' = ElementIsComplete
  BY DEF bufferVars, parserVars, ElementIsComplete, Ends, LineEnds, readable_size
<1>1. ASSUME NEW size \in 1 .. Len(stream), Receive(size) PROVE WaitInv'
  BY <1>1 DEF Receive, WaitInv
<1>2. CASE MessageCallback
  BY <1>2 DEF MessageCallback, WaitInv
<1>3. CASE RequestLine
  BY <1>3 DEF RequestLine, Fail, WaitInv
<1>4. CASE HeaderLine
  BY <1>4 DEF HeaderLine, Fail, WaitInv
<1>5. CASE EndOfHeaders
  BY <1>5 DEF EndOfHeaders, WaitInv
<1>6. CASE Body
  BY <1>6 DEF Body, WaitInv
<1>7. CASE Incomplete
  <2>1. ~ ElementIsComplete /\ UNCHANGED <<bufferVars, parserVars>>
    BY <1>7 DEF Incomplete
  <2>2. ~ ElementIsComplete'
    BY <1>0, <2>1
  <2> QED
    BY <2>2 DEF WaitInv
<1>8. ASSUME NEW sent \in {"sent", "writing", "aborted"}, Answer(sent)
      PROVE  WaitInv'
  BY <1>8 DEF Answer, WaitInv
<1>9. CASE WriteCompletes
  BY <1>9 DEF WriteCompletes, WaitInv
<1>10. CASE UNCHANGED vars
  <2>1. /\ UNCHANGED <<bufferVars, parserVars>>
        /\ UNCHANGED <<calling, status, fresh, just_answered>>
    BY <1>10 DEF vars, history
  <2>2. ElementIsComplete' = ElementIsComplete
    BY <1>0, <2>1
  <2> QED
    BY <2>1, <2>2 DEF WaitInv
<1> QED
  BY <1>1, <1>2, <1>3, <1>4, <1>5, <1>6, <1>7, <1>8, <1>9, <1>10 DEF Next

\* What was received and not consumed is a part of a line or of a body.
LEMMA WaitInvOverlooks == BufferInv /\ TrackInv /\ WaitInv => NothingOverlooked
<1> SUFFICES ASSUME BufferInv, TrackInv, ~ ElementIsComplete, ~ calling,
                    status = "open"
             PROVE  \E ln : DecodedAll = Read(state, ln, request, answered)
  <2>1. ASSUME NEW ln, DecodedAll = Read(state, ln, request, answered)
        PROVE  /\ answered = DecodedAll.done /\ state = DecodedAll.phase
               /\ request = DecodedAll.request
    BY <2>1 DEF Read
  <2> QED
    BY <2>1, Zenon DEF WaitInv, NothingOverlooked, DecodedAll
<1>0. PlaceInv /\ HoldInv /\ request \in Requests /\ body_length \in Nat
  BY DEF BufferInv, ParserInv
<1>1. /\ state \in ReadingStates
      /\ Decoded = Read(state, <<>>, request, answered)
      /\ state = "EXPECT_BODY" => body_length = request.length
  BY DEF TrackInv
<1>c. PICK c : c = consumed
  OBVIOUS
<1>m. PICK m : m = readable_size
  OBVIOUS
<1>2. /\ stream \in Seq(Units) /\ c \in Nat /\ m \in Nat /\ received = c + m
      /\ c + m <= Len(stream)
  BY <1>0, <1>c, <1>m, ConsumedFacts
<1>3. Decode(stream)[c] = Read(state, <<>>, request, answered)
  BY <1>1, <1>c DEF Decoded
<1>4. DecodedAll = Decode(stream)[c + m]
  BY <1>2 DEF DecodedAll
<1>5. CASE state \in {"EXPECT_REQUEST_LINE", "EXPECT_HEADERS"}
  <2>1. Ends = {}
    BY <1>5 DEF ElementIsComplete
  <2>2. NoLineEnd(stream, c, m)
    BY <1>0, <1>c, <1>m, <2>1, NoLineInStream
  <2>3. Decode(stream)[c + m] = Read(state, Part(stream, c, c + m), request, answered)
    BY ONLY <1>2, <1>3, <1>5, <2>2, ReadsPartOfLine
  <2> QED
    BY <1>4, <2>3, Zenon
<1>6. CASE state = "EXPECT_BODY"
  <2>1. request.length \in Nat /\ m < request.length
    BY <1>0, <1>1, <1>2, <1>6, <1>m DEF ElementIsComplete
  <2>2. Decode(stream)[c] = Read("EXPECT_BODY", <<>>, request, answered)
    BY <1>3, <1>6
  <2>3. Decode(stream)[c + m]
          = Read("EXPECT_BODY", Part(stream, c, c + m), request, answered)
    BY ONLY <1>2, <2>1, <2>2, ReadsPartOfBody
  <2> QED
    BY <1>4, <1>6, <2>3, Zenon
<1> QED
  BY <1>1, <1>5, <1>6 DEF ReadingStates

\* parse() leaves nothing for later that it could have taken: when the message
\* callback returns without an answer, the parser is where reading all that was
\* received leads, unless memcpy() has destroyed the data.
THEOREM NothingIsOverlooked == Spec => []NothingOverlooked
<1>1. Init => TrackSound /\ WaitInv
  BY BufferInvInit, TrackInvInit, WaitInvInit
     DEF TrackSound, SoundInv, BufferInv
<1>2. TrackSound /\ WaitInv /\ [Next]_vars => (TrackSound /\ WaitInv)'
  BY TrackSoundStep, WaitInvStep
<1>3. TrackSound /\ WaitInv => NothingOverlooked
  <2>1. garbled => NothingOverlooked
    BY DEF NothingOverlooked
  <2> QED
    BY <2>1, WaitInvOverlooks DEF TrackSound, SoundInv, BufferInv
<1> QED
  BY <1>1, <1>2, <1>3, PTL DEF Spec

=============================================================================
