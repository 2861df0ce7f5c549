------------------------- MODULE ChunkWriterProofs -------------------------
(***************************************************************************)
(* However the callers of one DefaultWriter interleave, the peer keeps its *)
(* place among the bytes and reads the messages whole and in order.        *)
(***************************************************************************)
EXTENDS ChunkWriter, ChunkCodecProofs, SequenceTheorems

-----------------------------------------------------------------------------
(* Headers and the peer's view of them.                                    *)

\* A header that a job has is one of those of the codec's theorem.
LEMMA HeaderIsHeader ==
    ASSUME NEW h, IsHeader(h)
    PROVE  /\ h \in Headers
           /\ h.bfmt \in 0..3 /\ h.mfmt \in 0..3 /\ h.id \in Nat /\ h.ts \in Nat
           /\ h.len \in Nat /\ h.type \in 0..255 /\ h.msid \in Nat /\ h.ext \in Nat
  <1>1. /\ h \in [bfmt : 0..3, mfmt : 0..3, id : Nat, ts : Nat, len : Nat, type : 0..255,
                  msid : Nat, ext : Nat]
        /\ h.msid \div 16777216 < 256 /\ h.ext \div 16777216 < 256
    BY SMT DEF IsHeader
  <1>2. /\ h.bfmt \in 0..3 /\ h.mfmt \in 0..3 /\ h.id \in Nat /\ h.ts \in Nat
        /\ h.len \in Nat /\ h.type \in 0..255 /\ h.msid \in Nat /\ h.ext \in Nat
    BY <1>1, SMT
  <1>3. h \in Fields
    BY <1>1, SMT DEF Fields
  <1>4. ASSUME NEW n \in Nat, n \div 16777216 < 256
        PROVE  n <= 4294967295
    BY <1>4, Z3
  <1>5. h.msid <= Max32 /\ h.ext <= Max32
    BY <1>1, <1>2, <1>4, SMT DEF Max32
  <1>6. h.bfmt < 4 /\ h.mfmt < 4
    BY <1>2, SMT
  <1> QED
    BY <1>2, <1>3, <1>5, <1>6, Zenon DEF Headers

\* Bytes are naturals.
LEMMA NatBytes ==
    ASSUME NEW s \in Seq(0..255)
    PROVE  s \in Seq(Nat)
  <1>1. 0..255 \subseteq Nat
    BY SMT
  <1> QED
    BY <1>1, SeqMonotonic, Zenon

\* A byte is at most 255.
LEMMA ByteRange ==
    ASSUME NEW v \in 0..255
    PROVE  v \in Nat /\ v <= 255
  BY SMT

\* The bytes of two sequences of bytes are those of one after the other.
LEMMA JoinBytes ==
    ASSUME NEW s \in Seq(0..255), NEW t \in Seq(0..255)
    PROVE  s \o t \in Seq(0..255)
  OBVIOUS

\* What the Put functions write are bytes.
LEMMA PutBytes ==
    ASSUME NEW n \in Nat
    PROVE  /\ PutUint16(n) \in Seq(0..255)
           /\ PutUint24(n) \in Seq(0..255)
           /\ PutUint32(n) \in Seq(0..255)
           /\ LittleEndianPutUint32(n) \in Seq(0..255)
  <1>1. /\ n % 256 \in 0..255 /\ (n \div 256) % 256 \in 0..255
        /\ (n \div 65536) % 256 \in 0..255 /\ (n \div 16777216) % 256 \in 0..255
    BY Z3
  <1> QED
    BY <1>1, SMT DEF PutUint16, PutUint24, PutUint32, LittleEndianPutUint32

\* Header.Write writes bytes, whatever the header.
LEMMA HeaderBytes ==
    ASSUME NEW h, IsHeader(h)
    PROVE  HeaderWrite(h) \in Seq(0..255) /\ HeaderWrite(h) \in Seq(Nat)
  <1>0. /\ h.bfmt \in 0..3 /\ h.mfmt \in 0..3 /\ h.id \in Nat /\ h.ts \in Nat
        /\ h.len \in Nat /\ h.type \in 0..255 /\ h.msid \in Nat /\ h.ext \in Nat
    BY HeaderIsHeader, ZenonT(60)
  <1>1. BasicWrite(h) \in Seq(0..255)
    <2>1. CASE h.id < 64
      <3>1. h.bfmt * 64 + h.id \in 0..255
        BY <1>0, <2>1, SMT
      <3>2. BasicWrite(h) = <<h.bfmt * 64 + h.id>>
        BY <1>0, <2>1, SMT DEF BasicWrite
      <3> QED
        BY <3>1, <3>2, SMT
    <2>2. CASE h.id >= 64 /\ h.id < 320
      <3>1. h.bfmt * 64 \in 0..255 /\ (h.id - 64) % 256 \in 0..255
        BY <1>0, <2>2, Z3
      <3>2. BasicWrite(h) = <<h.bfmt * 64, (h.id - 64) % 256>>
        BY <1>0, <2>2, SMT DEF BasicWrite
      <3> QED
        BY <3>1, <3>2, SMT
    <2>3. CASE h.id >= 320
      <3>1. h.bfmt * 64 + 63 \in 0..255 /\ h.id - 64 \in Nat
        BY <1>0, <2>3, SMT
      <3>2. BasicWrite(h) = <<h.bfmt * 64 + 63>> \o PutUint16(h.id - 64)
        BY <1>0, <2>3, SMT DEF BasicWrite
      <3>3. PutUint16(h.id - 64) \in Seq(0..255) /\ <<h.bfmt * 64 + 63>> \in Seq(0..255)
        BY <3>1, PutBytes, SMT
      <3> QED
        BY <3>2, <3>3, JoinBytes, ZenonT(60)
    <2> QED
      BY <1>0, <2>1, <2>2, <2>3, SMT
  <1>2. MessageWrite(h) \in Seq(0..255)
    <2>1. /\ PutUint24(h.ts) \in Seq(0..255) /\ PutUint24(h.len) \in Seq(0..255)
          /\ LittleEndianPutUint32(h.msid) \in Seq(0..255) /\ <<h.type>> \in Seq(0..255)
          /\ <<>> \in Seq(0..255)
      <3>1. <<h.type>> \in Seq(0..255) /\ <<>> \in Seq(0..255)
        BY <1>0, SMT
      <3> QED
        BY <3>1, <1>0, PutBytes, ZenonT(60)
    <2>2. /\ PutUint24(h.ts) \o PutUint24(h.len) \o <<h.type>> \in Seq(0..255)
          /\ PutUint24(h.ts) \o PutUint24(h.len) \o <<h.type>>
               \o LittleEndianPutUint32(h.msid) \in Seq(0..255)
      BY <2>1, JoinBytes, Zenon
    <2> QED
      BY <2>1, <2>2, Zenon DEF MessageWrite
  <1>3. (IF HasExtended(h.ts) THEN PutUint32(h.ext) ELSE <<>>) \in Seq(0..255)
    <2>1. PutUint32(h.ext) \in Seq(0..255) /\ <<>> \in Seq(0..255)
      BY <1>0, PutBytes, SMT
    <2> QED
      BY <2>1, Zenon
  <1>4. HeaderWrite(h) \in Seq(0..255)
    BY <1>1, <1>2, <1>3, JoinBytes, Zenon DEF HeaderWrite
  <1> QED
    BY <1>4, NatBytes, Zenon

-----------------------------------------------------------------------------
(* Chunks in a sequence of bytes.                                          *)

\* The header of the chunk whose payload begins after x bytes of a message, and the
\* payload bytes it has with chunk size z.
Lead(h, x) == IF x = 0 THEN HeaderWrite(h) ELSE Separator(h)
Span(h, x, z) == Min(h.len - x, z)
Past(h, x, z, p) == p + Len(Lead(h, x)) + Span(h, x, z)

\* b begins with what e has after its first q bytes, as far as both go.
Shows(b, e, q) == \A j \in 1..Len(b) : q + j <= Len(e) => b[j] = e[q + j]

\* A separator is a byte.
LEMMA SeparatorByte ==
    ASSUME NEW h, IsHeader(h)
    PROVE  /\ Separator(h) \in Seq(0..255) /\ Separator(h) \in Seq(Nat)
           /\ Len(Separator(h)) = 1
           /\ h.id < 64 => Separator(h)[1] = 192 + h.id
  <1>1. h.id \in Nat
    BY HeaderIsHeader, Zenon
  <1>2. 3 * 64 + (h.id % 64) \in 0..255 /\ (h.id < 64 => 3 * 64 + (h.id % 64) = 192 + h.id)
    BY <1>1, Z3
  <1>3. Separator(h) \in Seq(0..255)
    BY <1>2, SMT DEF Separator
  <1>4. Len(Separator(h)) = 1 /\ Separator(h)[1] = 3 * 64 + (h.id % 64)
    BY SMT DEF Separator
  <1> QED
    BY <1>2, <1>3, <1>4, NatBytes, Zenon

\* A header has at least one byte, and all are bytes.
LEMMA LeadBytes ==
    ASSUME NEW h, IsHeader(h), NEW x \in Nat
    PROVE  Lead(h, x) \in Seq(0..255) /\ Lead(h, x) \in Seq(Nat) /\ Len(Lead(h, x)) \in Nat
  <1>1. Lead(h, x) \in Seq(0..255) /\ Lead(h, x) \in Seq(Nat)
    BY HeaderBytes, SeparatorByte, Zenon DEF Lead
  <1> QED
    BY <1>1, LenProperties, Zenon

\* A header that Write can express: RTMP has the id in one or two bytes.
RtmpHeader(h) == Fitting(h) /\ h.mfmt = 0 /\ 2 <= h.id /\ h.id < 320

\* The basic header of such a header is what RTMP says.
LEMMA RtmpReads ==
    ASSUME NEW h, IsHeader(h), RtmpHeader(h)
    PROVE  /\ BasicWrite(h) \in Seq(Nat) /\ Len(BasicWrite(h)) \in {1, 2}
           /\ \A b \in Seq(Nat) : At(BasicWrite(h), b, 0) =>
                 /\ RtmpLen(b) = Len(BasicWrite(h))
                 /\ BasicFormat(b) = 0 /\ h.bfmt = 0
                 /\ RtmpId(b) = h.id
  <1>0. h.id \in Nat /\ h.bfmt = 0 /\ 2 <= h.id /\ h.id < 320
    BY HeaderIsHeader, SMT DEF RtmpHeader, Fitting
  <1>1. CASE h.id < 64
    <2>1. BasicWrite(h) = <<h.id>>
      BY <1>0, <1>1, SMT DEF BasicWrite
    <2>2. BasicWrite(h) \in Seq(Nat) /\ Len(BasicWrite(h)) = 1 /\ BasicWrite(h)[1] = h.id
      BY <1>0, <2>1, SMT
    <2> SUFFICES ASSUME NEW b \in Seq(Nat), At(BasicWrite(h), b, 0)
                 PROVE  RtmpLen(b) = 1 /\ BasicFormat(b) = 0 /\ RtmpId(b) = h.id
      BY <1>0, <2>2, Zenon
    <2>3. b[1] = h.id
      BY <2>2, SMT DEF At
    <2>4. b[1] % 64 = h.id /\ b[1] \div 64 = 0 /\ h.id # 0 /\ h.id # 1
      BY <1>0, <1>1, <2>3, Z3
    <2> QED
      BY <2>4, SMT DEF RtmpLen, BasicFormat, RtmpId
  <1>2. CASE h.id >= 64
    <2>1. BasicWrite(h) = <<0, h.id - 64>>
      <3>1. (h.id - 64) % 256 = h.id - 64
        BY <1>0, <1>2, Z3
      <3> QED
        BY <3>1, <1>0, <1>2, SMT DEF BasicWrite
    <2>2. /\ BasicWrite(h) \in Seq(Nat) /\ Len(BasicWrite(h)) = 2
          /\ BasicWrite(h)[1] = 0 /\ BasicWrite(h)[2] = h.id - 64
      BY <1>0, <1>2, <2>1, SMT
    <2> SUFFICES ASSUME NEW b \in Seq(Nat), At(BasicWrite(h), b, 0)
                 PROVE  RtmpLen(b) = 2 /\ BasicFormat(b) = 0 /\ RtmpId(b) = h.id
      BY <1>0, <2>2, Zenon
    <2>3. b[1] = 0 /\ b[2] = h.id - 64
      BY <2>2, SMT DEF At
    <2>4. b[1] % 64 = 0 /\ b[1] \div 64 = 0
      BY <2>3, Z3
    <2> QED
      BY <1>0, <2>3, <2>4, SMT DEF RtmpLen, BasicFormat, RtmpId, Uint8
  <1> QED
    BY <1>0, <1>1, <1>2, SMT

\* b is read as the header h, or ends too early.
HeaderFound(b, h) ==
    /\ b # <<>> => b[1] <= 255
    /\ Len(HeaderWrite(h)) > 0
    /\ b # <<>> /\ ~EndsEarly(b, RtmpLen(b)) =>
          /\ Len(HeaderWrite(h)) <= Len(b)
          /\ HeaderEnd(b, RtmpLen(b)) = Len(HeaderWrite(h))
          /\ BasicFormat(b) = 0 /\ RtmpId(b) = h.id
          /\ RtmpRead(b) = Carried(h)
          /\ \A i \in 1..Len(HeaderWrite(h)) : b[i] <= 255

\* What begins with the bytes of a header that Write can express is read as that
\* header, and ends before the end of it only if a read would, too.
LEMMA HeaderSeen ==
    ASSUME NEW h, IsHeader(h), RtmpHeader(h), NEW b \in Seq(Nat),
           NEW e \in Seq(Nat), At(HeaderWrite(h), e, 0), Shows(b, e, 0)
    PROVE  HeaderFound(b, h)
  <1> DEFINE w == HeaderWrite(h)
             n == Len(BasicWrite(h))
  <1>0. /\ w \in Seq(Nat) /\ h \in Headers /\ Len(w) \in Nat
        /\ Len(b) \in Nat /\ \A i \in 1..Len(w) : w[i] \in Nat /\ w[i] <= 255
    <2>1. w \in Seq(Nat) /\ w \in Seq(0..255) /\ h \in Headers
      BY HeaderBytes, HeaderIsHeader, Zenon
    <2> HIDE DEF w
    <2>2. ASSUME NEW i \in 1..Len(w)
          PROVE  w[i] \in Nat /\ w[i] <= 255
      <3>1. w[i] \in 0..255
        BY <2>1, ElementOfSeq, ZenonT(60)
      <3> QED
        BY <3>1, ByteRange, Zenon
    <2>3. Len(w) \in Nat /\ Len(b) \in Nat
      BY <2>1, LenProperties, Zenon
    <2> QED
      BY <2>1, <2>2, <2>3, Zenon
  <1>1. Fitting(h) /\ BasicWrite(h) \in Seq(Nat) /\ n \in {1, 2} /\ At(BasicWrite(h), w, 0)
    <2>1. Fitting(h)
      BY DEF RtmpHeader
    <2> QED
      BY <2>1, <1>0, RtmpReads, BasicFirst, Zenon
  <1>2. RtmpLen(w) = n /\ BasicFormat(w) = 0 /\ h.bfmt = 0
    BY <1>0, <1>1, RtmpReads, Zenon
  <1>3. At(w, w, 0)
    <2> HIDE DEF w
    <2> QED
      BY <1>0, SMT DEF At
  <1>4. ~EndsEarly(w, n) /\ HeaderEnd(w, n) = Len(w)
    BY <1>0, <1>1, <1>2, <1>3, FieldsRead, Zenon
  <1> HIDE DEF w
  <1>6. \A i \in 1..Len(b) : i <= Len(w) => b[i] = w[i]
    BY <1>0, SMT DEF Shows, At, w
  <1>7. ExtendedAt(w, n) = n + 11 /\ n + 11 <= Len(w) /\ n \in Nat /\ Len(w) >= 1
    <2>1. MessageLen(BasicFormat(w)) = 11
      BY <1>2, Zenon DEF MessageLen
    <2>2. ExtendedAt(w, n) = n + 11
      BY <2>1, Zenon DEF ExtendedAt
    <2> HIDE DEF n
    <2> QED
      BY <1>0, <1>1, <1>4, <2>2, SMT DEF EndsEarly
  <1>8. ASSUME b # <<>>, ~EndsEarly(b, RtmpLen(b))
        PROVE  Len(w) <= Len(b) /\ RtmpLen(b) = n /\ BasicFormat(b) = 0
    <2>1. b[1] = w[1]
      <3>1. 1 \in 1..Len(b) /\ 1 <= Len(w)
        BY <1>0, <1>7, <1>8, EmptySeq, SMT
      <3> QED
        BY <3>1, <1>6, Zenon
    <2>2. RtmpLen(b) = n /\ BasicFormat(b) = 0
      BY <2>1, <1>2, Zenon DEF RtmpLen, BasicFormat
    <2>3. ExtendedAt(b, n) = n + 11
      BY <2>2, <1>2, <1>7, Zenon DEF ExtendedAt
    <2>4. n + 11 <= Len(b)
      <3> HIDE DEF n
      <3> QED
        BY <1>0, <1>7, <1>8, <2>2, <2>3, SMT DEF EndsEarly
    <2>5. b[n + 1] = w[n + 1] /\ b[n + 2] = w[n + 2] /\ b[n + 3] = w[n + 3]
      <3> HIDE DEF n
      <3>1. \A k \in 1..3 : n + k \in 1..Len(b) /\ n + k <= Len(w)
        BY <1>0, <1>7, <2>4, SMT
      <3>2. 1 \in 1..3 /\ 2 \in 1..3 /\ 3 \in 1..3
        BY SMT
      <3> QED
        BY <1>6, <3>1, <3>2, Zenon
    <2>6. TimestampAt(b, n) = TimestampAt(w, n)
      <3> HIDE DEF n
      <3>1. Uint24(b, n) = Uint24(w, n)
        BY <2>5, SMT DEF Uint24
      <3> QED
        BY <1>2, <2>2, <3>1, Zenon DEF TimestampAt
    <2>7. HeaderEnd(b, n) = HeaderEnd(w, n)
      BY <2>3, <2>6, <1>7, Zenon DEF HeaderEnd
    <2>8. ~(Len(b) < Len(w))
      BY <1>4, <1>8, <2>2, <2>7, Zenon DEF EndsEarly
    <2> QED
      BY <1>0, <2>2, <2>8, SMT
  <1>9. ASSUME Len(w) <= Len(b), RtmpLen(b) = n, BasicFormat(b) = 0
        PROVE  /\ HeaderEnd(b, n) = Len(w) /\ RtmpId(b) = h.id /\ RtmpRead(b) = Carried(h)
               /\ \A i \in 1..Len(w) : b[i] <= 255
    <2>1. \A i \in 1..Len(w) : b[i] = w[i] /\ b[0 + i] = w[i]
      <3>1. ASSUME NEW i \in 1..Len(w)
            PROVE  i \in 1..Len(b) /\ i <= Len(w) /\ 0 + i = i
        BY <1>0, <1>9, SMT
      <3> QED
        BY <3>1, <1>6, Zenon
    <2>2. At(w, b, 0)
      <3>1. 0 + Len(w) <= Len(b)
        BY <1>0, <1>9, SMT
      <3> QED
        BY <2>1, <3>1, Zenon DEF At
    <2>3. /\ HeaderEnd(b, n) = Len(w) /\ FieldsOf(b, n, h.id) = Carried(h)
          /\ At(BasicWrite(h), b, 0)
      BY <1>0, <1>1, <1>2, <1>9, <2>2, FieldsRead, Zenon DEF w
    <2>4. RtmpId(b) = h.id
      BY <2>3, RtmpReads, Zenon
    <2>5. RtmpRead(b) = Carried(h)
      BY <2>3, <2>4, <1>9, Zenon DEF RtmpRead
    <2> QED
      BY <2>1, <2>3, <2>4, <2>5, <1>0, Zenon
  <1>10. ASSUME b # <<>>
         PROVE  b[1] <= 255
    <2>1. 1 \in 1..Len(b) /\ 1 <= Len(w) /\ 1 \in 1..Len(w)
      BY <1>0, <1>7, <1>10, EmptySeq, SMT
    <2> QED
      BY <2>1, <1>0, <1>6, Zenon
  <1>11. Len(w) > 0
    BY <1>0, <1>7, SMT
  <1> QED
    BY <1>8, <1>9, <1>10, <1>11, Zenon DEF w, HeaderFound

\* The parts of the byte of a separator.
LEMMA SeparatorParts ==
    ASSUME NEW x \in Nat, x < 64
    PROVE  (192 + x) % 64 = x /\ (192 + x) \div 64 = 3 /\ 192 + x <= 255
  BY Z3T(30)

\* A separator is read as format 3 and the id of its chunk stream.
LEMMA SeparatorSeen ==
    ASSUME NEW h, IsHeader(h), RtmpHeader(h), h.id < 64, NEW b \in Seq(Nat), b # <<>>,
           b[1] = Separator(h)[1]
    PROVE  /\ b[1] <= 255 /\ ~EndsEarly(b, RtmpLen(b)) /\ HeaderEnd(b, RtmpLen(b)) = 1
           /\ BasicFormat(b) = 3 /\ RtmpId(b) = h.id
           /\ RtmpRead(b).bfmt = 3 /\ RtmpRead(b).id = h.id
  <1>1. h.id \in Nat /\ b[1] = 192 + h.id
    BY HeaderIsHeader, SeparatorByte, Zenon
  <1>2. 2 <= h.id /\ h.id < 64
    BY SMT DEF RtmpHeader
  <1>3. b[1] % 64 = h.id /\ b[1] \div 64 = 3 /\ b[1] <= 255
    <2>1. (192 + h.id) % 64 = h.id /\ (192 + h.id) \div 64 = 3 /\ 192 + h.id <= 255
      BY <1>1, <1>2, SeparatorParts, ZenonT(60)
    <2> QED
      BY <2>1, <1>1, Zenon
  <1>4. RtmpLen(b) = 1 /\ BasicFormat(b) = 3 /\ RtmpId(b) = h.id
    BY <1>1, <1>2, <1>3, SMTT(30) DEF RtmpLen, BasicFormat, RtmpId
  <1>5. TimestampAt(b, 1) = 0 /\ ~HasExtended(0)
    BY <1>4, SMT DEF TimestampAt, HasExtended, Max24
  <1>6. ExtendedAt(b, 1) = 1
    BY <1>4, SMT DEF ExtendedAt, MessageLen
  <1>7. HeaderEnd(b, 1) = 1
    BY <1>5, <1>6, SMT DEF HeaderEnd
  <1>8. Len(b) >= 1
    BY EmptySeq, SMT
  <1>9. ~EndsEarly(b, 1)
    BY <1>6, <1>7, <1>8, SMT DEF EndsEarly
  <1>10. RtmpRead(b).bfmt = BasicFormat(b) /\ RtmpRead(b).id = RtmpId(b)
    BY Zenon DEF RtmpRead, FieldsOf
  <1> QED
    BY <1>3, <1>4, <1>7, <1>9, <1>10, Zenon

-----------------------------------------------------------------------------
(* A message as Write puts it into its buffer: e are the bytes, and P has, *)
(* for each place x of the payload where a chunk begins, the number of the *)
(* bytes before that chunk.  The payload is of the messages Y, cut by z.   *)

\* After p bytes of e is the chunk whose payload begins after x bytes.
ChunkAt(e, p, h, Y, x, z) ==
    /\ At(Lead(h, x), e, p)
    /\ Past(h, x, z, p) <= Len(e)
    /\ \A i \in 1..Span(h, x, z) : \E y \in Y : e[p + Len(Lead(h, x)) + i] = Byte(y, x + i)

\* The chunk at x is in its place and the next one follows it, or the end.
Linked(e, P, h, Y, z, x) ==
    /\ ChunkAt(e, P[x], h, Y, x, z)
    /\ x + Span(h, x, z) < h.len =>
          x + Span(h, x, z) \in DOMAIN P /\ P[x + Span(h, x, z)] = Past(h, x, z, P[x])
    /\ x + Span(h, x, z) = h.len => Len(e) = Past(h, x, z, P[x])

Placed(P, h) ==
    /\ 0 \in DOMAIN P /\ P[0] = 0
    /\ \A x \in DOMAIN P : x \in Nat /\ P[x] \in Nat /\ (x = 0 \/ x < h.len)

\* e is the whole message.
Encoded(e, P, h, Y, z) ==
    e \in Seq(Nat) /\ Placed(P, h) /\ \A x \in DOMAIN P : Linked(e, P, h, Y, z, x)

\* e is the message up to the header of the chunk at p.
Begun(e, P, h, Y, z, p) ==
    /\ e \in Seq(Nat) /\ Placed(P, h)
    /\ p \in DOMAIN P /\ At(Lead(h, p), e, P[p]) /\ P[p] + Len(Lead(h, p)) = Len(e)
    /\ \A x \in DOMAIN P : x # p => /\ x < p /\ Linked(e, P, h, Y, z, x)
                                    /\ x + Span(h, x, z) < h.len

\* e is what Write has in its buffer when it has copied p bytes of the payload.
Made(e, P, h, Y, z, p) == IF p < h.len THEN Begun(e, P, h, Y, z, p) ELSE Encoded(e, P, h, Y, z)

\* The payload of a chunk is what is left or the chunk size, and not nothing unless
\* nothing is left.
LEMMA SpanIs ==
    ASSUME NEW h, IsHeader(h), NEW x \in Nat, x = 0 \/ x < h.len, NEW z \in Nat \ {0}
    PROVE  /\ h.len \in Nat /\ Span(h, x, z) \in Nat /\ Span(h, x, z) <= z
           /\ x + Span(h, x, z) <= h.len
           /\ Span(h, x, z) = 0 => h.len = 0
           /\ x + Span(h, x, z) < h.len => Span(h, x, z) = z
           /\ h.len <= z => Span(h, x, z) = h.len - x
  <1>1. h.len \in Nat
    BY HeaderIsHeader, Zenon
  <1>2. Span(h, x, z) = IF h.len - x < z THEN h.len - x ELSE z
    BY Zenon DEF Span, Min
  <1> QED
    BY <1>1, <1>2, SMT

\* Bytes that are added after a chunk leave it as it was.
LEMMA ChunkLonger ==
    ASSUME NEW e \in Seq(Nat), NEW s \in Seq(Nat), NEW p \in Nat, NEW h, IsHeader(h), NEW Y,
           NEW x \in Nat, x = 0 \/ x < h.len, NEW z \in Nat \ {0}, ChunkAt(e, p, h, Y, x, z)
    PROVE  ChunkAt(e \o s, p, h, Y, x, z)
  <1> DEFINE l == Len(Lead(h, x))
             n == Span(h, x, z)
             f == e \o s
  <1>1. l \in Nat /\ n \in Nat /\ Len(e) \in Nat /\ Len(s) \in Nat
    BY LeadBytes, SpanIs, LenProperties, Zenon
  <1>2. /\ f \in Seq(Nat) /\ Len(f) = Len(e) + Len(s)
        /\ \A i \in 1..Len(e) : f[i] = e[i]
    BY SMT
  <1>3. p + l <= Len(e) /\ p + l + n <= Len(e)
    BY Zenon DEF ChunkAt, At, Past
  <1>4. (\A i \in 1..l : p + i \in 1..Len(e)) /\ (\A i \in 1..n : p + l + i \in 1..Len(e))
        /\ p + l <= Len(e) + Len(s) /\ p + l + n <= Len(e) + Len(s)
    <2> HIDE DEF l, n
    <2> QED
      BY <1>1, <1>3, SMT
  <1>5. At(Lead(h, x), f, p)
    <2>1. \A i \in 1..l : f[p + i] = Lead(h, x)[i]
      BY <1>2, <1>4, Zenon DEF ChunkAt, At
    <2> QED
      BY <2>1, <1>2, <1>4, Zenon DEF At
  <1>6. \A i \in 1..n : \E y \in Y : f[p + l + i] = Byte(y, x + i)
    BY <1>2, <1>4, Zenon DEF ChunkAt
  <1>7. Past(h, x, z, p) <= Len(f)
    BY <1>2, <1>4, Zenon DEF Past
  <1> QED
    BY <1>5, <1>6, <1>7, Zenon DEF ChunkAt

\* The payload of a chunk may be of more messages.
LEMMA LinkedMore ==
    ASSUME NEW e, NEW P, NEW h, NEW Y, NEW Y2, Y \subseteq Y2, NEW z, NEW x,
           Linked(e, P, h, Y, z, x)
    PROVE  Linked(e, P, h, Y2, z, x)
  <1>1. ChunkAt(e, P[x], h, Y2, x, z)
    BY Zenon DEF Linked, ChunkAt
  <1> QED
    BY <1>1, Zenon DEF Linked

\* ... and so may that of a message.
LEMMA MadeMore ==
    ASSUME NEW e, NEW P, NEW h, NEW Y, NEW Y2, Y \subseteq Y2, NEW z, NEW p
    PROVE  /\ Encoded(e, P, h, Y, z) => Encoded(e, P, h, Y2, z)
           /\ Made(e, P, h, Y, z, p) => Made(e, P, h, Y2, z, p)
  <1>1. Encoded(e, P, h, Y, z) => Encoded(e, P, h, Y2, z)
    BY LinkedMore, Zenon DEF Encoded
  <1>2. Begun(e, P, h, Y, z, p) => Begun(e, P, h, Y2, z, p)
    BY LinkedMore, Zenon DEF Begun
  <1> QED
    BY <1>1, <1>2, Zenon DEF Made

\* Write begins with the header.
LEMMA MadeFirst ==
    ASSUME NEW h, IsHeader(h), NEW Y, NEW z \in Nat \ {0}
    PROVE  \E P : Made(HeaderWrite(h), P, h, Y, z, 0)
  <1> DEFINE P == [x \in {0} |-> 0]
             e == HeaderWrite(h)
  <1>1. e \in Seq(Nat) /\ Len(e) \in Nat /\ h.len \in Nat
    BY HeaderBytes, HeaderIsHeader, LenProperties, Zenon
  <1>2. Placed(P, h) /\ DOMAIN P = {0} /\ P[0] = 0
    BY SMT DEF Placed
  <1>3. Lead(h, 0) = e
    BY Zenon DEF Lead
  <1> HIDE DEF e, P
  <1>4. At(e, e, 0) /\ 0 + Len(e) = Len(e)
    BY <1>1, SMT DEF At
  <1>5. CASE 0 < h.len
    <2>1. Begun(e, P, h, Y, z, 0)
      BY <1>1, <1>2, <1>3, <1>4, Zenon DEF Begun
    <2> QED
      BY <1>5, <2>1, Zenon DEF Made, e
  <1>6. CASE ~(0 < h.len)
    <2>1. h.len = 0
      BY <1>1, <1>6, SMT
    <2>2. Span(h, 0, z) = 0 /\ 0 + Span(h, 0, z) = 0 /\ 1..Span(h, 0, z) = {}
      <3>1. Span(h, 0, z) \in Nat /\ 0 + Span(h, 0, z) <= h.len
        BY SpanIs, 0 \in Nat, Zenon
      <3> QED
        BY <3>1, <2>1, SMT
    <2>3. Past(h, 0, z, 0) = Len(e)
      <3>1. Past(h, 0, z, 0) = 0 + Len(e) + 0
        BY <2>2, <1>3, Zenon DEF Past
      <3> QED
        BY <3>1, <1>1, SMT
    <2>4. ChunkAt(e, 0, h, Y, 0, z)
      <3>1. Past(h, 0, z, 0) <= Len(e)
        BY <2>3, <1>1, SMT
      <3> QED
        BY <3>1, <2>2, <1>3, <1>4, Zenon DEF ChunkAt
    <2>5. ~(0 + Span(h, 0, z) < h.len)
      BY <2>1, <2>2, SMT
    <2>6. Linked(e, P, h, Y, z, 0)
      BY <2>3, <2>4, <2>5, <1>2, Zenon DEF Linked
    <2>7. Encoded(e, P, h, Y, z)
      BY <2>6, <1>1, <1>2, Zenon DEF Encoded
    <2> QED
      BY <1>6, <2>7, Zenon DEF Made, e
  <1> QED
    BY <1>5, <1>6, Zenon

\* s is the payload of the chunk at p, and e ends with the header of that chunk.
Fills(s, h, Y, p, z) ==
    /\ s \in Seq(Nat) /\ Len(s) = Span(h, p, z)
    /\ \A i \in 1..Len(s) : \E y \in Y : s[i] = Byte(y, p + i)
EndsWithLead(e, q, h, p) ==
    /\ e \in Seq(Nat) /\ At(Lead(h, p), e, q) /\ q + Len(Lead(h, p)) = Len(e)
    /\ q \in Nat /\ p \in Nat /\ p < h.len

\* What is added after the header of the chunk at p makes that chunk complete.
LEMMA ChunkDone ==
    ASSUME NEW h, IsHeader(h), NEW Y, NEW z \in Nat \ {0}, NEW p, NEW e, NEW q,
           EndsWithLead(e, q, h, p), NEW s, Fills(s, h, Y, p, z)
    PROVE  ChunkAt(e \o s, q, h, Y, p, z)
  <1> DEFINE l == Len(Lead(h, p))
             n == Span(h, p, z)
             f == e \o s
  <1>0. /\ e \in Seq(Nat) /\ At(Lead(h, p), e, q) /\ q + l = Len(e)
        /\ s \in Seq(Nat) /\ Len(s) = n /\ q \in Nat /\ p \in Nat /\ p < h.len
        /\ \A i \in 1..Len(s) : \E y \in Y : s[i] = Byte(y, p + i)
    BY Zenon DEF Fills, EndsWithLead
  <1>1. l \in Nat /\ n \in Nat /\ Len(e) \in Nat /\ n = Len(s)
    BY <1>0, LeadBytes, SpanIs, LenProperties, Zenon
  <1>2. /\ f \in Seq(Nat) /\ Len(f) = Len(e) + Len(s)
        /\ \A i \in 1..Len(e) : f[i] = e[i]
        /\ \A i \in 1..Len(s) : f[Len(e) + i] = s[i]
    <2>1. f \in Seq(Nat) /\ Len(f) = Len(e) + Len(s) /\ At(e, f, 0) /\ At(s, f, Len(e))
      BY <1>0, TwoPlaces, Zenon
    <2>2. \A i \in 1..Len(e) : 0 + i = i
      BY <1>1, SMT
    <2> QED
      BY <2>1, <2>2, Zenon DEF At
  <1>3. q + l = Len(e) /\ Past(h, p, z, q) = Len(f)
    BY <1>0, <1>1, <1>2, Zenon DEF Past
  <1>4. \A i \in 1..l : q + i \in 1..Len(e)
    <2> HIDE DEF l
    <2> QED
      BY <1>0, <1>1, <1>3, SMT
  <1>5. At(Lead(h, p), f, q)
    <2>1. \A i \in 1..l : f[q + i] = Lead(h, p)[i]
      BY <1>0, <1>2, <1>4, Zenon DEF At
    <2>2. q + l <= Len(f)
      <3> HIDE DEF l, f
      <3> QED
        BY <1>0, <1>1, <1>2, <1>3, SMT
    <2> QED
      BY <2>1, <2>2, Zenon DEF At
  <1>6. \A i \in 1..n : \E y \in Y : f[q + l + i] = Byte(y, p + i)
    BY <1>0, <1>1, <1>2, <1>3, Zenon
  <1>7. Past(h, p, z, q) <= Len(f)
    <2> HIDE DEF f
    <2> QED
      BY <1>1, <1>2, <1>3, SMT
  <1> QED
    BY <1>3, <1>5, <1>6, <1>7, Zenon DEF ChunkAt

\* One turn of the loop of Write: a part of the payload, and a separator if more is
\* to follow.
LEMMA MadeOn ==
    ASSUME NEW h, IsHeader(h), NEW Y, NEW z \in Nat \ {0}, NEW p \in Nat, p < h.len,
           NEW e, NEW P, Made(e, P, h, Y, z, p), NEW s, Fills(s, h, Y, p, z)
    PROVE  \E Q : Made(e \o s \o (IF Len(s) < h.len - p THEN Separator(h) ELSE <<>>),
                       Q, h, Y, z, p + Len(s))
  <1> DEFINE n == Span(h, p, z)
             f == e \o s
             g == f \o Separator(h)
  <1>0. s \in Seq(Nat) /\ Len(s) = n
    BY Zenon DEF Fills
  <1>1. Begun(e, P, h, Y, z, p)
    BY Zenon DEF Made
  <1>2. /\ e \in Seq(Nat) /\ Placed(P, h) /\ p \in DOMAIN P /\ At(Lead(h, p), e, P[p])
        /\ P[p] + Len(Lead(h, p)) = Len(e) /\ P[p] \in Nat
        /\ \A x \in DOMAIN P : x # p => /\ x < p /\ Linked(e, P, h, Y, z, x)
                                        /\ x + Span(h, x, z) < h.len
    BY <1>1, Zenon DEF Begun, Placed
  <1>3. /\ n \in Nat /\ n <= z /\ p + n <= h.len /\ n # 0 /\ h.len \in Nat
        /\ (p + n < h.len => n = z)
    <2>1. h.len # 0
      BY HeaderIsHeader, SMT
    <2> QED
      BY <2>1, SpanIs, Zenon
  <1>4. f \in Seq(Nat) /\ ChunkAt(f, P[p], h, Y, p, z) /\ Past(h, p, z, P[p]) = Len(f)
    <2>1. f \in Seq(Nat) /\ Len(f) = Len(e) + Len(s)
      BY <1>0, <1>2, TwoPlaces, Zenon
    <2>2. EndsWithLead(e, P[p], h, p)
      BY <1>2, Zenon DEF EndsWithLead
    <2>3. ChunkAt(f, P[p], h, Y, p, z)
      BY <2>2, ChunkDone, Zenon
    <2>4. Past(h, p, z, P[p]) = Len(f)
      BY <2>1, <1>0, <1>2, Zenon DEF Past
    <2> QED
      BY <2>1, <2>3, <2>4, Zenon
  <1>5. \A x \in DOMAIN P : x \in Nat /\ P[x] \in Nat /\ (x = 0 \/ x < h.len)
    BY <1>2, Zenon DEF Placed
  <1>6. \A x \in DOMAIN P : ChunkAt(f, P[x], h, Y, x, z)
    <2> SUFFICES ASSUME NEW x \in DOMAIN P, x # p
                 PROVE  ChunkAt(f, P[x], h, Y, x, z)
      BY <1>4, Zenon
    <2>1. ChunkAt(e, P[x], h, Y, x, z)
      BY <1>2, Zenon DEF Linked
    <2> QED
      BY <1>0, <2>1, <1>2, <1>5, ChunkLonger, Zenon
  <1>7. CASE p + n = h.len
    <2>1. ~(Len(s) < h.len - p) /\ ~(p + n < h.len)
      BY <1>0, <1>3, <1>7, SMT
    <2>2. f \o <<>> = f
      BY <1>4, ConcatEmptySeq, Zenon
    <2>3. \A x \in DOMAIN P : Linked(f, P, h, Y, z, x)
      <3>1. Linked(f, P, h, Y, z, p)
        BY <1>6, <1>2, <1>4, <2>1, Zenon DEF Linked
      <3>2. ASSUME NEW x \in DOMAIN P, x # p
            PROVE  Linked(f, P, h, Y, z, x)
        <4>1. ~(x + Span(h, x, z) = h.len)
          <5>1. x + Span(h, x, z) < h.len /\ x \in Nat /\ (x = 0 \/ x < h.len)
            BY <1>2, <1>5, <3>2, Zenon
          <5>2. Span(h, x, z) \in Nat
            BY <5>1, SpanIs, Zenon
          <5> QED
            BY <5>1, <5>2, <1>3, SMT
        <4> QED
          BY <4>1, <3>2, <1>2, <1>6, Zenon DEF Linked
      <3> QED
        BY <3>1, <3>2, Zenon
    <2>4. Encoded(f, P, h, Y, z)
      BY <2>3, <1>2, <1>4, Zenon DEF Encoded
    <2>5. ~(p + Len(s) < h.len)
      BY <1>0, <2>1, Zenon
    <2> QED
      BY <2>1, <2>2, <2>4, <2>5, Zenon DEF Made
  <1>8. CASE p + n < h.len
    <2>1. Len(s) < h.len - p /\ p + Len(s) < h.len
      BY <1>0, <1>3, <1>8, SMT
    <2> DEFINE k == p + n
               Q == [x \in DOMAIN P \cup {k} |-> IF x = k THEN Len(f) ELSE P[x]]
    <2>2. /\ k \in Nat /\ k # 0 /\ k > p /\ k # p
      BY <1>3, SMT
    <2>3. \A x \in DOMAIN P : x # k /\ x < k /\ x <= p
      <3> SUFFICES ASSUME NEW x \in DOMAIN P
                   PROVE  x # k /\ x < k /\ x <= p
        OBVIOUS
      <3>1. x \in Nat /\ (x # p => x < p)
        BY <1>2, <1>5, Zenon
      <3> QED
        BY <3>1, <2>2, SMT
    <2> HIDE DEF k
    <2>4. /\ DOMAIN Q = DOMAIN P \cup {k} /\ Q[k] = Len(f)
          /\ \A x \in DOMAIN P : Q[x] = P[x]
      BY <2>3, Zenon
    <2> HIDE DEF Q
    <2>5. Len(f) \in Nat
      BY <1>4, LenProperties, Zenon
    <2>6. Placed(Q, h)
      <3>1. 0 \in DOMAIN Q /\ Q[0] = 0
        BY <2>4, <1>2, Zenon DEF Placed
      <3>2. ASSUME NEW x \in DOMAIN Q
            PROVE  x \in Nat /\ Q[x] \in Nat /\ (x = 0 \/ x < h.len)
        BY <2>2, <2>4, <2>5, <1>5, <1>8, Zenon DEF k
      <3> QED
        BY <3>1, <3>2, Zenon DEF Placed
    <2>7. Separator(h) \in Seq(Nat) /\ Len(Separator(h)) = 1 /\ Lead(h, k) = Separator(h)
      BY <2>2, SeparatorByte, Zenon DEF Lead
    <2>8. g \in Seq(Nat) /\ Len(g) = Len(f) + 1 /\ At(Separator(h), g, Len(f))
      BY <2>7, <1>4, TwoPlaces, Zenon
    <2>9. \A x \in DOMAIN P : ChunkAt(g, Q[x], h, Y, x, z)
      BY <1>4, <1>5, <1>6, <2>4, <2>7, ChunkLonger, Zenon
    <2>10. ASSUME NEW x \in DOMAIN Q, x # k
           PROVE  x < k /\ Linked(g, Q, h, Y, z, x) /\ x + Span(h, x, z) < h.len
      <3>0. x \in DOMAIN P /\ x \in Nat /\ (x = 0 \/ x < h.len)
        BY <2>10, <2>4, <1>5, Zenon
      <3>1. x + Span(h, x, z) < h.len
        BY <3>0, <1>2, <1>8, Zenon
      <3>2. ~(x + Span(h, x, z) = h.len)
        BY <3>0, <3>1, <1>3, SpanIs, SMT
      <3>3. /\ x + Span(h, x, z) \in DOMAIN Q
            /\ Q[x + Span(h, x, z)] = Past(h, x, z, Q[x])
        <4>1. CASE x = p
          <5>1. x + Span(h, x, z) = k /\ Past(h, x, z, Q[x]) = Len(f)
            BY <4>1, <3>0, <1>4, <2>4, Zenon DEF k
          <5> QED
            BY <5>1, <2>4, Zenon
        <4>2. CASE x # p
          <5>1. x + Span(h, x, z) \in DOMAIN P /\ P[x + Span(h, x, z)] = Past(h, x, z, P[x])
            BY <4>2, <3>0, <3>1, <1>2, Zenon DEF Linked
          <5> QED
            BY <5>1, <3>0, <2>4, Zenon
        <4> QED
          BY <4>1, <4>2, Zenon
      <3>4. Linked(g, Q, h, Y, z, x)
        BY <3>0, <3>2, <3>3, <2>9, Zenon DEF Linked
      <3> QED
        BY <3>0, <3>1, <3>4, <2>3, Zenon
    <2>11. Begun(g, Q, h, Y, z, k)
      BY <2>4, <2>6, <2>7, <2>8, <2>10, Zenon DEF Begun
    <2>12. Made(g, Q, h, Y, z, p + Len(s))
      BY <1>0, <2>1, <2>11, Zenon DEF Made, k
    <2> QED
      BY <2>1, <2>12, Zenon
  <1>9. p + n = h.len \/ p + n < h.len
    <2> HIDE DEF n
    <2> QED
      BY <1>3, SMT
  <1> QED
    BY <1>7, <1>8, <1>9, Zenon

-----------------------------------------------------------------------------
(* The peer at the beginning of a chunk.                                   *)

\* The header is one that the bytes can express, and if the message is cut at a,
\* one that a separator stands for.
Cuttable(h, a) ==
    /\ IsHeader(h) /\ RtmpHeader(h)
    /\ a # 0 => h.id < 64 /\ ~HasExtended(h.ts)

\* The peer has chunk size z and a bytes of the message with header h.
PeerAt(h, a, z) ==
    /\ h.id \in PeerIds /\ peerSize = z
    /\ part[h.id] \in Seq(Nat) /\ Len(part[h.id]) = a
    /\ a # 0 => prev[h.id] = Carried(h)

\* b begins where the chunk at a of the message begins.
ChunkNext(b, e, P, h, Y, z, a) ==
    /\ b \in Seq(Nat) /\ z \in Nat \ {0} /\ Y \subseteq Nat
    /\ Encoded(e, P, h, Y, z) /\ a \in DOMAIN P /\ Shows(b, e, P[a])

\* What a written header carries of a full one.
LEMMA CarriedFull ==
    ASSUME NEW h, IsHeader(h), RtmpHeader(h)
    PROVE  /\ Carried(h).id = h.id /\ Carried(h).len = h.len /\ Carried(h).type = h.type
           /\ Carried(h).ts = h.ts /\ Carried(h).bfmt = 0 /\ Carried(h) # None
  <1>1. h.bfmt = 0 /\ h.id # 0 /\ h.mfmt = 0
    BY HeaderIsHeader, SMT DEF RtmpHeader, Fitting
  <1>2. /\ Carried(h).id = h.id /\ Carried(h).len = h.len /\ Carried(h).type = h.type
        /\ Carried(h).ts = h.ts /\ Carried(h).bfmt = h.bfmt
    BY <1>1, SMT DEF Carried
  <1>3. None.id = 0
    BY Zenon DEF None
  <1> QED
    BY <1>1, <1>2, <1>3, Zenon

\* The peer sees b as the header of the chunk at a, or not enough of it.
LeadFound(b, h, a) ==
    /\ b # <<>> => b[1] <= 255
    /\ Complete(b) =>
          /\ PeerHeaderLen(b) = Len(Lead(h, a)) /\ Len(Lead(h, a)) <= Len(b)
          /\ Len(Lead(h, a)) > 0
          /\ \A i \in 1..Len(Lead(h, a)) : b[i] <= 255
          /\ RtmpRead(b).id = h.id /\ Completed(RtmpRead(b)) = Carried(h)
          /\ IF a = 0 THEN RtmpRead(b).bfmt = 0
             ELSE RtmpRead(b).bfmt = 3 /\ prev[h.id] # None

\* The header of the next chunk is seen as what it is.
LEMMA LeadSeen ==
    ASSUME NEW h, NEW a, Cuttable(h, a), NEW z, PeerAt(h, a, z), NEW b, NEW e, NEW P, NEW Y,
           ChunkNext(b, e, P, h, Y, z, a)
    PROVE  LeadFound(b, h, a)
  <1>0. /\ IsHeader(h) /\ RtmpHeader(h)
        /\ b \in Seq(Nat) /\ z \in Nat \ {0} /\ e \in Seq(Nat) /\ Placed(P, h)
        /\ a \in DOMAIN P /\ Shows(b, e, P[a]) /\ Linked(e, P, h, Y, z, a)
        /\ a \in Nat /\ P[a] \in Nat /\ P[0] = 0 /\ At(Lead(h, a), e, P[a])
        /\ Len(e) \in Nat /\ Len(b) \in Nat
    <2>1. /\ IsHeader(h) /\ RtmpHeader(h)
          /\ b \in Seq(Nat) /\ z \in Nat \ {0} /\ e \in Seq(Nat) /\ Placed(P, h)
          /\ a \in DOMAIN P /\ Shows(b, e, P[a]) /\ Linked(e, P, h, Y, z, a)
      BY Zenon DEF Cuttable, ChunkNext, Encoded
    <2>2. a \in Nat /\ P[a] \in Nat /\ P[0] = 0
      BY <2>1, Zenon DEF Placed
    <2>3. At(Lead(h, a), e, P[a])
      BY <2>1, Zenon DEF Linked, ChunkAt
    <2>4. Len(e) \in Nat /\ Len(b) \in Nat
      BY <2>1, LenProperties, Zenon
    <2> QED
      BY <2>1, <2>2, <2>3, <2>4, Zenon
  <1>1. /\ Carried(h).id = h.id /\ Carried(h).ts = h.ts /\ Carried(h).bfmt = 0
        /\ Carried(h) # None
    BY <1>0, CarriedFull, Zenon
  <1>3. Complete(b) => b # <<>> /\ ~EndsEarly(b, RtmpLen(b))
    BY Zenon DEF Complete
  <1>4. CASE a = 0
    <2> DEFINE w == HeaderWrite(h)
    <2>1. Lead(h, a) = w /\ At(w, e, 0) /\ Shows(b, e, 0)
      BY <1>0, <1>4, Zenon DEF Lead
    <2>2. /\ b # <<>> => b[1] <= 255
          /\ Len(w) > 0
          /\ b # <<>> /\ ~EndsEarly(b, RtmpLen(b)) =>
                /\ Len(w) <= Len(b) /\ HeaderEnd(b, RtmpLen(b)) = Len(w)
                /\ BasicFormat(b) = 0 /\ RtmpId(b) = h.id /\ RtmpRead(b) = Carried(h)
                /\ \A i \in 1..Len(w) : b[i] <= 255
      <3>1. HeaderFound(b, h)
        BY <1>0, <2>1, HeaderSeen, Zenon
      <3> QED
        BY <3>1, Zenon DEF HeaderFound
    <2> SUFFICES ASSUME Complete(b)
                 PROVE  /\ PeerHeaderLen(b) = Len(w) /\ RtmpRead(b).id = h.id
                        /\ Completed(RtmpRead(b)) = Carried(h) /\ RtmpRead(b).bfmt = 0
      BY <1>3, <1>4, <2>1, <2>2, Zenon DEF LeadFound
    <2>3. PeerHeaderLen(b) = Len(w) + 0
      BY <1>3, <2>2, SMT DEF PeerHeaderLen
    <2>4. Len(w) \in Nat
      BY <1>0, HeaderBytes, LenProperties, Zenon
    <2>5. PeerHeaderLen(b) = Len(w)
      <3> HIDE DEF w
      <3> QED
        BY <2>3, <2>4, SMT
    <2>6. Completed(RtmpRead(b)) = RtmpRead(b)
      <3>1. RtmpRead(b).bfmt = 0
        BY <1>1, <1>3, <2>2, Zenon
      <3> QED
        BY <3>1, SMT DEF Completed
    <2> QED
      BY <1>1, <1>3, <2>2, <2>5, <2>6, Zenon
  <1>5. CASE a # 0
    <2>1. Lead(h, a) = Separator(h) /\ Len(Separator(h)) = 1 /\ h.id < 64
      BY <1>0, <1>5, SeparatorByte, Zenon DEF Lead, Cuttable
    <2>2. e[P[a] + 1] = Separator(h)[1] /\ P[a] + 1 <= Len(e)
      <3>1. 1 \in 1..1
        BY SMT
      <3> QED
        BY <1>0, <2>1, <3>1, Zenon DEF At
    <2>3. ASSUME b # <<>>
          PROVE  b[1] = Separator(h)[1]
      <3>1. 1 \in 1..Len(b)
        BY <1>0, <2>3, EmptySeq, SMT
      <3> QED
        BY <1>0, <2>2, <3>1, Zenon DEF Shows
    <2>4. b # <<>> =>
             /\ b[1] <= 255 /\ HeaderEnd(b, RtmpLen(b)) = 1
             /\ BasicFormat(b) = 3 /\ RtmpId(b) = h.id
             /\ RtmpRead(b).bfmt = 3 /\ RtmpRead(b).id = h.id
      BY <1>0, <2>1, <2>3, SeparatorSeen, ZenonT(60)
    <2>5. ASSUME Complete(b)
          PROVE  b # <<>> /\ 1 <= Len(b)
      <3>1. b # <<>>
        BY <1>3, <2>5, Zenon
      <3> QED
        BY <1>0, <3>1, EmptySeq, SMT
    <2> SUFFICES ASSUME Complete(b)
                 PROVE  /\ PeerHeaderLen(b) = 1 /\ prev[h.id] # None
                        /\ Completed(RtmpRead(b)) = Carried(h)
      <3>1. 1 > 0 /\ \A i \in 1..1 : i = 1
        BY SMT
      <3> QED
        BY <1>5, <2>1, <2>4, <2>5, <3>1, Zenon DEF LeadFound
    <2>6. prev[h.id] = Carried(h) /\ ~HasExtended(prev[h.id].ts)
      BY <1>1, <1>5, Zenon DEF PeerAt, Cuttable
    <2>7. PeerHeaderLen(b) = 1 + 0
      BY <2>4, <2>5, <2>6, Zenon DEF PeerHeaderLen
    <2>8. Completed(RtmpRead(b)) = prev[h.id]
      <3>1. RtmpRead(b).bfmt = 3 /\ RtmpRead(b).id = h.id
        BY <2>4, <2>5, Zenon
      <3> QED
        BY <3>1, SMT DEF Completed
    <2> QED
      BY <1>1, <2>6, <2>7, <2>8, SMT
  <1> QED
    BY <1>4, <1>5, Zenon

\* The peer sees b as the chunk at a, or not enough of it.
ChunkFound(b, h, a, z) ==
    /\ HeaderOk(b) /\ ChunkOk(b)
    /\ Complete(b) =>
          /\ PeerHeaderLen(b) = Len(Lead(h, a)) /\ Len(Lead(h, a)) <= Len(b)
          /\ Len(Lead(h, a)) > 0
          /\ RtmpRead(b).id = h.id /\ Completed(RtmpRead(b)) = Carried(h)
          /\ PayloadWanted(RtmpRead(b)) = Span(h, a, z)

\* The next chunk is a chunk, and the peer knows how much payload it has.
LEMMA ChunkSeen ==
    ASSUME NEW h, NEW a, Cuttable(h, a), NEW z, PeerAt(h, a, z), NEW b, NEW e, NEW P, NEW Y,
           ChunkNext(b, e, P, h, Y, z, a)
    PROVE  ChunkFound(b, h, a, z)
  <1> DEFINE l == Len(Lead(h, a))
             n == Span(h, a, z)
  <1>0. /\ IsHeader(h) /\ RtmpHeader(h)
        /\ b \in Seq(Nat) /\ z \in Nat \ {0} /\ Y \subseteq Nat /\ e \in Seq(Nat)
        /\ a \in Nat /\ P[a] \in Nat /\ (a = 0 \/ a < h.len)
        /\ Shows(b, e, P[a]) /\ ChunkAt(e, P[a], h, Y, a, z)
    BY Zenon DEF Cuttable, ChunkNext, Encoded, Linked, Placed
  <1>1. /\ l \in Nat /\ n \in Nat /\ Len(b) \in Nat /\ Len(e) \in Nat
    BY <1>0, LeadBytes, SpanIs, LenProperties, Zenon
  <1>2. /\ b # <<>> => b[1] <= 255
        /\ Complete(b) =>
              /\ PeerHeaderLen(b) = l /\ l <= Len(b) /\ l > 0
              /\ \A i \in 1..l : b[i] <= 255
              /\ RtmpRead(b).id = h.id /\ Completed(RtmpRead(b)) = Carried(h)
              /\ IF a = 0 THEN RtmpRead(b).bfmt = 0
                 ELSE RtmpRead(b).bfmt = 3 /\ prev[h.id] # None
    <2>1. LeadFound(b, h, a)
      BY LeadSeen, Zenon
    <2> QED
      BY <2>1, Zenon DEF LeadFound
  <1>3. \A i \in 1..Len(b) : b[i] <= 255 => ~IsPayload(b[i])
    <2> SUFFICES ASSUME NEW i \in 1..Len(b), b[i] <= 255
                 PROVE  ~(b[i] > 255)
      BY Zenon DEF IsPayload
    <2>1. b[i] \in Nat
      BY <1>0, ElementOfSeq, Zenon
    <2> QED
      BY <2>1, SMT
  <1>4. HeaderOk(b)
    <2>1. b # <<>> => 1 \in 1..Len(b)
      BY <1>0, <1>1, EmptySeq, SMT
    <2>2. Complete(b) => \A i \in 1..l : i \in 1..Len(b)
      <3> HIDE DEF l
      <3> QED
        BY <1>1, <1>2, SMT
    <2> QED
      BY <1>2, <1>3, <2>1, <2>2, Zenon DEF HeaderOk
  <1>5. ASSUME Complete(b)
        PROVE  PayloadWanted(RtmpRead(b)) = n
    <2>1. Carried(h).len = h.len
      BY <1>0, CarriedFull, Zenon
    <2> QED
      BY <2>1, <1>2, <1>5, Zenon DEF PayloadWanted, Span, PeerAt
  <1>6. ASSUME NEW i \in 1..n, l + i <= Len(b)
        PROVE  IsPayload(b[l + i])
    <2>1. /\ l + i \in 1..Len(b) /\ P[a] + (l + i) = P[a] + l + i /\ P[a] + (l + i) <= Len(e)
          /\ i \in Nat
      <3>1. P[a] + l + n <= Len(e)
        BY <1>0, Zenon DEF ChunkAt, Past
      <3> HIDE DEF l, n
      <3> QED
        BY <3>1, <1>0, <1>1, <1>6, SMTT(30)
    <2>2. b[l + i] = e[P[a] + l + i]
      BY <2>1, <1>0, Zenon DEF Shows
    <2>3. PICK y \in Y : e[P[a] + l + i] = Byte(y, a + i)
      BY <1>0, Zenon DEF ChunkAt
    <2>4. Byte(y, a + i) > 255
      <3>1. y \in Nat
        BY <1>0, Zenon
      <3> QED
        BY <3>1, <2>1, <1>0, SMT DEF Byte
    <2> QED
      BY <2>2, <2>3, <2>4, Zenon DEF IsPayload
  <1>7. ChunkOk(b)
    <2> SUFFICES ASSUME Complete(b)
                 PROVE  \A g \in {RtmpRead(b)}, from \in {PeerHeaderLen(b)} :
                           /\ g.id \in PeerIds
                           /\ g.bfmt = 0 \/ prev[g.id] # None
                           /\ g.bfmt = 3 \/ part[g.id] = <<>>
                           /\ \A i \in 1..PayloadWanted(g) :
                                 from + i <= Len(b) => IsPayload(b[from + i])
      BY Zenon DEF ChunkOk
    <2>1. a = 0 => part[h.id] = <<>>
      <3>1. part[h.id] \in Seq(Nat) /\ Len(part[h.id]) = a
        BY Zenon DEF PeerAt
      <3> QED
        BY <3>1, EmptySeq, SMT
    <2>2. h.id \in PeerIds
      BY Zenon DEF PeerAt
    <2> QED
      BY <1>2, <1>5, <1>6, <2>1, <2>2, Zenon
  <1> QED
    BY <1>2, <1>4, <1>5, <1>7, Zenon DEF ChunkFound

-----------------------------------------------------------------------------
(* The invariant.                                                          *)

Lists ==
    /\ msgs \in Seq(Jobs) /\ Len(result) = Len(msgs) /\ Len(bodies) = Len(msgs)
    /\ result \in Seq({"pending", "nil", "err"}) /\ bodies \in Seq(SUBSET Nat)
    /\ Len(pieces) = Len(msgs) /\ \E S : pieces \in Seq(SUBSET S)
    /\ cur \in [Callers -> Nat] /\ pos \in [Callers -> Nat] /\ out \in [Callers -> Seq(Nat)]
    /\ \A c \in Callers : cur[c] <= Len(msgs)
    /\ writeSize \in Sizes /\ broken \in BOOLEAN /\ lost \in BOOLEAN
    /\ written \in Seq(Nat) /\ \A i \in 1..Len(written) : written[i] \in 1..Len(msgs)
    /\ \E S : read \in Seq(S)

\* Every caller has a message of its own.
Calls ==
    \A c \in Callers :
        /\ cur[c] = 0 => out[c] = <<>>
        /\ cur[c] # 0 => Pending(cur[c]) /\ pos[c] <= msgs[cur[c]].dlen
        /\ \A d \in Callers : cur[c] # 0 /\ cur[c] = cur[d] => c = d

\* A payload is that of its message, and only a shared one that of others.
Owners ==
    \A m \in 1..Len(msgs) : m \in bodies[m] /\ (~msgs[m].alias => bodies[m] = {m})

\* No message is copied any more when it is on the wire.
Ended == \A i \in 1..Len(written) : result[written[i]] # "pending"

\* Each message may change the chunk size for the next one.
Sized ==
    /\ sizes \in Seq(Sizes) /\ Len(sizes) = Len(written) + 1
    /\ \A i \in 1..Len(written) :
          sizes[i + 1] = IF msgs[written[i]].size # 0 THEN msgs[written[i]].size ELSE sizes[i]

\* A buffer has the message it is for, as far as it is copied, for a peer with any
\* chunk size that it has been cut to.
Suits(m, z) == msgs[m].hdr.len = msgs[m].dlen /\ WellCut(m, z)
Buffers ==
    \A c \in Callers : cur[c] # 0 => \A z \in Sizes : Suits(cur[c], z) =>
        \E P : Made(out[c], P, msgs[cur[c]].hdr, bodies[cur[c]], z, pos[c])

\* The i-th message of the wire can be expressed and is cut to the chunk size of the
\* peer.
Clean(i) == Expressible(msgs[written[i]], sizes[i]) /\ WellCut(written[i], sizes[i])

\* E[i] are the bytes of the i-th message of the wire and, if it is clean, P[i] the
\* places of its chunks.
BytesAre(E, P) ==
    \A i \in 1..Len(written) :
        /\ E[i] \in Seq(Nat)
        /\ Clean(i) => Encoded(E[i], P[i], msgs[written[i]].hdr, bodies[written[i]], sizes[i])

\* at[i] bytes were written for the first i messages, fewer if the last write failed,
\* and base of them were read; the others are on the wire.
WireIs(E, at, base) ==
    /\ wire \in Seq(Nat) /\ base \in Nat
    /\ \A i \in 0..Len(written) : at[i] \in Nat /\ at[i] <= at[Len(written)]
    /\ \A i \in 1..Len(written) : at[i] = at[i - 1] + Len(E[i])
    /\ base + Len(wire) <= at[Len(written)]
    /\ ~broken => base + Len(wire) = at[Len(written)]
    /\ \A i \in 1..Len(written) : \A j \in 1..Len(E[i]), k \in 1..Len(wire) :
          at[i - 1] + j = base + k => wire[k] = E[i][j]

\* The peer has a bytes of message m.
PartIs(k, m, a) ==
    /\ Len(part[k]) = a
    /\ \A i \in 1..a : \E y \in bodies[m] : part[k][i] = Byte(y, i)
    /\ a # 0 => prev[k] = Carried(msgs[m].hdr)

\* The peer is at a chunk of the message that it reads next, and has the payload
\* before that chunk.
PeerIs(P, at, base, a) ==
    /\ Len(read) <= Len(written) /\ ~lost /\ peerSize = sizes[Len(read) + 1]
    /\ part \in [PeerIds -> Seq(Nat)] /\ DOMAIN prev = PeerIds
    /\ Len(read) = Len(written) => /\ a = 0 /\ base = at[Len(read)]
                                   /\ \A k \in PeerIds : part[k] = <<>>
    /\ Len(read) < Len(written) =>
          /\ a \in DOMAIN P[Len(read) + 1] /\ base = at[Len(read)] + P[Len(read) + 1][a]
          /\ a # 0 => sizes[Len(read) + 1] < msgs[written[Len(read) + 1]].hdr.len
          /\ \A k \in PeerIds :
                IF k = msgs[written[Len(read) + 1]].hdr.id
                THEN PartIs(k, written[Len(read) + 1], a) ELSE part[k] = <<>>

\* The messages that the peer has read, and the next one, are all clean.
Ahead == \A i \in 1..Len(written) : i <= Len(read) + 1 => Clean(i)

Wired ==
    Ahead => \E E, P, at, base, a :
                BytesAre(E, P) /\ WireIs(E, at, base) /\ PeerIs(P, at, base, a)

\* What is read is what was written, with a payload of the messages that shared it.
ReadAs(x, m) ==
    /\ x.hdr = Carried(msgs[m].hdr)
    /\ Len(x.data) = msgs[m].dlen
    /\ \A i \in DOMAIN x.data : \E y \in bodies[m] : x.data[i] = Byte(y, i)
Arrived ==
    \A n \in DOMAIN read :
        n \in DOMAIN written /\ CleanUpTo(n) => ReadAs(read[n], written[n])

Callings == Lists /\ Calls /\ Owners /\ Ended /\ Sized /\ Buffers

IInv == Callings /\ Wired /\ Arrived

-----------------------------------------------------------------------------
(* Facts of the constants and of the types.                                *)

\* Chunk sizes are positive, and those that the connection begins with are some.
LEMMA SizeFacts ==
    /\ Sizes \subseteq Nat \ {0}
    /\ FirstPeerSize \in Sizes /\ FirstWriteSize \in Sizes
    /\ \A j \in Jobs : j.size # 0 => j.size \in Sizes
  <1>1. FirstPeerSize \in Nat \ {0} /\ FirstWriteSize \in Nat \ {0} /\ \A j \in Jobs : j.size \in Nat
    BY WriterAssumption, Zenon
  <1> QED
    BY <1>1, SMT DEF Sizes

\* What a job is.
LEMMA JobFacts ==
    ASSUME NEW j \in Jobs
    PROVE  /\ IsHeader(j.hdr) /\ j.hdr.len \in Nat /\ j.hdr.id \in PeerIds
           /\ j.dlen \in Nat /\ j.size \in Nat /\ j.alias \in BOOLEAN
           /\ j.size # 0 <=> j.hdr.type = SetChunkSize
           /\ j.size # 0 => ~j.alias /\ j.hdr.len # 0
  <1>1. /\ IsHeader(j.hdr) /\ j.dlen \in Nat /\ j.size \in Nat /\ j.alias \in BOOLEAN
        /\ j.size # 0 <=> j.hdr.type = SetChunkSize
        /\ j.hdr.type = SetChunkSize => ~j.alias /\ j.hdr.len # 0
    BY WriterAssumption, Zenon
  <1>2. j.hdr.len \in Nat
    BY <1>1, HeaderIsHeader, Zenon
  <1>3. j.hdr.id \in PeerIds
    BY Zenon DEF PeerIds
  <1> QED
    BY <1>1, <1>2, <1>3, Zenon

\* What a message is.
LEMMA MsgFacts ==
    ASSUME Lists, NEW m \in 1..Len(msgs)
    PROVE  /\ msgs[m] \in Jobs /\ bodies[m] \subseteq Nat /\ m \in Nat /\ m # 0
           /\ result[m] \in {"pending", "nil", "err"}
  <1>1. /\ msgs \in Seq(Jobs) /\ Len(result) = Len(msgs) /\ Len(bodies) = Len(msgs)
        /\ result \in Seq({"pending", "nil", "err"}) /\ bodies \in Seq(SUBSET Nat)
    BY Zenon DEF Lists
  <1>2. msgs[m] \in Jobs /\ bodies[m] \in SUBSET Nat /\ result[m] \in {"pending", "nil", "err"}
    BY <1>1, ElementOfSeq, Zenon
  <1>3. m \in Nat /\ m # 0
    BY <1>1, SMT
  <1> QED
    BY <1>2, <1>3, Zenon

\* What the message of a caller is.
LEMMA CurFacts ==
    ASSUME Lists, NEW c \in Callers, cur[c] # 0
    PROVE  cur[c] \in 1..Len(msgs) /\ pos[c] \in Nat /\ out[c] \in Seq(Nat)
  <1>1. /\ cur \in [Callers -> Nat] /\ pos \in [Callers -> Nat] /\ out \in [Callers -> Seq(Nat)]
        /\ cur[c] <= Len(msgs) /\ msgs \in Seq(Jobs)
    BY Zenon DEF Lists
  <1>2. cur[c] \in Nat /\ pos[c] \in Nat /\ out[c] \in Seq(Nat) /\ Len(msgs) \in Nat
    BY <1>1, LenProperties, Zenon
  <1> QED
    BY <1>1, <1>2, SMT

\* t is the sequence s of elements of S with x at its end.
Longer(t, s, x, S) ==
    /\ t \in Seq(S) /\ Len(s) \in Nat /\ Len(t) = Len(s) + 1
    /\ DOMAIN s = 1..Len(s) /\ DOMAIN t = 1..Len(t)
    /\ \A i \in 1..Len(s) : t[i] = s[i]
    /\ t[Len(s) + 1] = x

\* That is what Append makes.
LEMMA Appended ==
    ASSUME NEW S, NEW s \in Seq(S), NEW x \in S
    PROVE  Longer(Append(s, x), s, x, S)
  BY SMT DEF Longer

\* t is the sequence s with x at its end, whatever they are of.
Added(t, s, x) ==
    /\ \E T : t \in Seq(T)
    /\ Len(s) \in Nat /\ Len(t) = Len(s) + 1 /\ DOMAIN s = 1..Len(s) /\ DOMAIN t = 1..Len(t)
    /\ \A i \in 1..Len(s) : t[i] = s[i]
    /\ t[Len(s) + 1] = x

\* That is what Append makes.
LEMMA AddedIs ==
    ASSUME NEW s, NEW x, \E S : s \in Seq(S)
    PROVE  Added(Append(s, x), s, x)
  <1>1. PICK S : s \in Seq(S)
    OBVIOUS
  <1>2. s \in Seq(S \cup {x})
    BY <1>1, SMT
  <1>3. Longer(Append(s, x), s, x, S \cup {x})
    BY <1>2, Appended, Zenon
  <1> QED
    BY <1>3, Zenon DEF Longer, Added

-----------------------------------------------------------------------------
(* What the actions do to the messages.                                    *)

\* Messages stay as they are, and shared payloads may come to be of more messages.
Keeps ==
    \A m \in 1..Len(msgs) :
        /\ m \in 1..Len(msgs') /\ msgs'[m] = msgs[m] /\ bodies[m] \subseteq bodies'[m]
        /\ ~msgs[m].alias => bodies'[m] = bodies[m]
        /\ result[m] # "pending" => result'[m] = result[m] /\ pieces'[m] = pieces[m]

\* Begin adds message k.
BeginDoes(k, c, j) ==
    /\ k = Len(msgs) + 1 /\ k \in Nat /\ k # 0 /\ k \notin 1..Len(msgs) /\ k \in 1..k
    /\ \A m \in 1..k : m # k => m \in 1..Len(msgs)
    /\ Len(msgs') = k /\ Len(result') = k /\ Len(bodies') = k
    /\ msgs' \in Seq(Jobs) /\ bodies' \in Seq(SUBSET Nat)
    /\ result' \in Seq({"pending", "nil", "err"})
    /\ Keeps /\ \A m \in 1..Len(msgs) : result'[m] = result[m] /\ pieces'[m] = pieces[m]
    /\ Len(pieces') = k /\ (\E S : pieces' \in Seq(SUBSET S)) /\ pieces'[k] = {}
    /\ msgs'[k] = j /\ result'[k] = "pending"
    /\ k \in bodies'[k] /\ (~j.alias => bodies'[k] = {k})
    /\ cur[c] = 0
    /\ cur' = [cur EXCEPT ![c] = k] /\ pos' = [pos EXCEPT ![c] = 0]
    /\ out' = [out EXCEPT ![c] = HeaderWrite(j.hdr)]

\* That is what it does.
LEMMA BeginFacts ==
    ASSUME Lists, NEW c \in Callers, NEW j \in Jobs, Begin(c, j)
    PROVE  \E k : BeginDoes(k, c, j)
  <1>1. PICK k : k = Len(msgs) + 1
    OBVIOUS
  <1> DEFINE others == {m \in DOMAIN msgs : Sharing(m) /\ j.alias}
             B == [m \in DOMAIN msgs |-> IF m \in others THEN bodies[m] \cup {k} ELSE bodies[m]]
  <1>2. /\ msgs' = Append(msgs, j) /\ result' = Append(result, "pending")
        /\ bodies' = Append(B, {k} \cup others)
        /\ cur' = [cur EXCEPT ![c] = k] /\ pos' = [pos EXCEPT ![c] = 0]
        /\ out' = [out EXCEPT ![c] = HeaderWrite(j.hdr)] /\ pieces' = Append(pieces, {})
    BY <1>1, Zenon DEF Begin
  <1>3. /\ msgs \in Seq(Jobs) /\ Len(result) = Len(msgs) /\ Len(bodies) = Len(msgs)
        /\ result \in Seq({"pending", "nil", "err"}) /\ bodies \in Seq(SUBSET Nat)
        /\ Len(msgs) \in Nat /\ DOMAIN msgs = 1..Len(msgs)
    BY LenProperties, Zenon DEF Lists
  <1>4. /\ k \in Nat /\ k # 0 /\ k \notin 1..Len(msgs) /\ k \in 1..k
        /\ \A m \in 1..k : m # k => m \in 1..Len(msgs)
    BY <1>1, <1>3, SMT
  <1>5. /\ msgs' \in Seq(Jobs) /\ Len(msgs') = k /\ msgs'[k] = j
        /\ \A m \in 1..Len(msgs) : msgs'[m] = msgs[m]
    <2>1. Longer(msgs', msgs, j, Jobs)
      BY <1>2, <1>3, Appended, Zenon
    <2> QED
      BY <2>1, <1>1, Zenon DEF Longer
  <1>6. /\ result' \in Seq({"pending", "nil", "err"}) /\ Len(result') = k
        /\ result'[k] = "pending" /\ \A m \in 1..Len(msgs) : result'[m] = result[m]
    <2>1. Longer(result', result, "pending", {"pending", "nil", "err"})
      BY <1>2, <1>3, Appended, Zenon
    <2> QED
      BY <2>1, <1>1, <1>3, Zenon DEF Longer
  <1>16. /\ Len(pieces') = k /\ (\E S : pieces' \in Seq(SUBSET S)) /\ pieces'[k] = {}
         /\ \A m \in 1..Len(msgs) : pieces'[m] = pieces[m]
    <2>1. PICK S : pieces \in Seq(SUBSET S)
      BY Zenon DEF Lists
    <2>2. Longer(pieces', pieces, {}, SUBSET S)
      BY <2>1, <1>2, Appended, Zenon
    <2>3. Len(pieces) = Len(msgs)
      BY Zenon DEF Lists
    <2> QED
      BY <2>2, <2>3, <1>1, Zenon DEF Longer
  <1>7. B \in Seq(SUBSET Nat) /\ Len(B) = Len(msgs) /\ others \subseteq Nat
        /\ \A m \in 1..Len(msgs) : B[m] = IF m \in others THEN bodies[m] \cup {k} ELSE bodies[m]
    <2>1. \A m \in 1..Len(msgs) : B[m] = IF m \in others THEN bodies[m] \cup {k} ELSE bodies[m]
      BY <1>3, Zenon
    <2>2. B \in [1..Len(msgs) -> SUBSET Nat]
      <3>1. \A m \in DOMAIN msgs : bodies[m] \subseteq Nat
        BY <1>3, MsgFacts, Zenon
      <3>2. \A m \in DOMAIN msgs :
               (IF m \in others THEN bodies[m] \cup {k} ELSE bodies[m]) \in SUBSET Nat
        BY <3>1, <1>4, Zenon
      <3> QED
        BY <3>2, <1>3, Zenon
    <2>3. others \subseteq Nat
      BY <1>3, SMT
    <2> HIDE DEF B, others
    <2>4. B \in Seq(SUBSET Nat) /\ Len(B) = Len(msgs)
      BY <2>2, <1>3, SMT
    <2> QED
      BY <2>1, <2>3, <2>4, Zenon
  <1>8. {k} \cup others \in SUBSET Nat
    BY <1>4, <1>7, Zenon
  <1>10. j.alias \in BOOLEAN /\ (~j.alias => others = {})
    <2>1. j.alias \in BOOLEAN
      BY JobFacts, Zenon
    <2> QED
      BY <2>1, Zenon
  <1>11. \A m \in 1..Len(msgs) : ~msgs[m].alias => m \notin others
    BY Zenon DEF Sharing
  <1> HIDE DEF B, others
  <1>12. /\ bodies' \in Seq(SUBSET Nat) /\ Len(bodies') = k /\ bodies'[k] = {k} \cup others
         /\ \A m \in 1..Len(msgs) : bodies'[m] = B[m]
    <2>1. Longer(bodies', B, {k} \cup others, SUBSET Nat)
      BY <1>2, <1>7, <1>8, Appended, Zenon
    <2> QED
      BY <2>1, <1>1, <1>7, Zenon DEF Longer
  <1>13. Keeps
    <2> SUFFICES ASSUME NEW m \in 1..Len(msgs)
                 PROVE  /\ m \in 1..Len(msgs') /\ msgs'[m] = msgs[m]
                        /\ bodies[m] \subseteq bodies'[m]
                        /\ ~msgs[m].alias => bodies'[m] = bodies[m]
                        /\ result'[m] = result[m] /\ pieces'[m] = pieces[m]
      BY Zenon DEF Keeps
    <2>1. m \in 1..Len(msgs')
      BY <1>1, <1>3, <1>5, SMT
    <2> QED
      BY <2>1, <1>5, <1>6, <1>7, <1>11, <1>12, <1>16, Zenon
  <1>14. cur[c] = 0
    <2>1. \E d \in Callers : cur[d] = 0
      BY Zenon DEF Begin, MayBegin
    <2>2. c = CHOOSE d \in Callers : cur[d] = 0
      BY Zenon DEF Begin, MayBegin
    <2> QED
      BY <2>1, <2>2, Zenon
  <1>15. k \in bodies'[k] /\ (~j.alias => bodies'[k] = {k})
    BY <1>10, <1>12, Zenon
  <1> QED
    BY <1>1, <1>2, <1>4, <1>5, <1>6, <1>12, <1>13, <1>14, <1>15, <1>16, Zenon DEF BeginDoes

\* Another client's status touches the shared payloads alone.
LEMMA OtherFacts ==
    ASSUME Lists, OtherStatus
    PROVE  Keeps /\ Len(bodies') = Len(msgs) /\ bodies' \in Seq(SUBSET Nat)
  <1>1. bodies' = [m \in DOMAIN msgs |-> IF Sharing(m) THEN bodies[m] \cup {0} ELSE bodies[m]]
        /\ msgs' = msgs /\ result' = result /\ pieces' = pieces
    BY Zenon DEF OtherStatus
  <1>2. /\ msgs \in Seq(Jobs) /\ Len(msgs) \in Nat /\ DOMAIN msgs = 1..Len(msgs)
    BY LenProperties, Zenon DEF Lists
  <1>3. \A m \in 1..Len(msgs) : bodies'[m] = IF Sharing(m) THEN bodies[m] \cup {0} ELSE bodies[m]
    BY <1>1, <1>2, Zenon
  <1>4. \A m \in 1..Len(msgs) : bodies[m] \subseteq bodies'[m] /\ (~msgs[m].alias => bodies'[m] = bodies[m])
    BY <1>3, Zenon DEF Sharing
  <1>5. Keeps
    BY <1>1, <1>4, Zenon DEF Keeps
  <1>6. bodies' \in [1..Len(msgs) -> SUBSET Nat]
    <2>1. \A m \in DOMAIN msgs : bodies[m] \subseteq Nat
      BY <1>2, MsgFacts, Zenon
    <2>2. \A m \in DOMAIN msgs :
             (IF Sharing(m) THEN bodies[m] \cup {0} ELSE bodies[m]) \in SUBSET Nat
      BY <2>1, 0 \in Nat, Zenon
    <2> QED
      BY <2>2, <1>1, <1>2, Zenon
  <1>7. bodies' \in Seq(SUBSET Nat) /\ Len(bodies') = Len(msgs)
    BY <1>6, <1>2, SMT
  <1> QED
    BY <1>5, <1>7, Zenon

\* CopyPart adds n bytes of the payload, s, to the buffer of c, and a separator if
\* there are more.
CopyDoes(c, s) ==
    LET m == cur[c]
        j == msgs[m]
    IN  /\ m # 0 /\ pos[c] < j.dlen /\ s \in Seq(Nat)
        /\ Len(s) = Min(j.dlen - pos[c], writeSize)
        /\ \A i \in 1..Len(s) : \E y \in bodies[m] : s[i] = Byte(y, pos[c] + i)
        /\ out' = [out EXCEPT ![c] =
                     out[c] \o s \o (IF Len(s) < j.dlen - pos[c] THEN Separator(j.hdr) ELSE <<>>)]
        /\ pos' = [pos EXCEPT ![c] = pos[c] + Len(s)]
        /\ pieces' = [pieces EXCEPT ![m] = pieces[m] \cup {[at |-> pos[c], n |-> Len(s)]}]
        /\ UNCHANGED <<msgs, result, bodies, cur, writeSize, connVars, peerVars>>

\* That is what it does.
LEMMA CopyFacts ==
    ASSUME Lists, NEW c \in Callers, CopyPart(c)
    PROVE  \E s : CopyDoes(c, s)
  <1> DEFINE m == cur[c]
             h == msgs[m].hdr
             n == Min(Left(c), writeSize)
  <1>1. m # 0 /\ Left(c) > 0
    BY Zenon DEF CopyPart
  <1>2. PICK from \in [1..n -> bodies[m]] :
          /\ out' = [out EXCEPT ![c] =
                       @ \o [i \in 1..n |-> Byte(from[i], pos[c] + i)]
                         \o (IF n < Left(c) THEN Separator(h) ELSE <<>>)]
          /\ pos' = [pos EXCEPT ![c] = @ + n]
          /\ pieces' = [pieces EXCEPT ![m] = @ \cup {[at |-> pos[c], n |-> n]}]
    BY Zenon DEF CopyPart
  <1>3. /\ m \in 1..Len(msgs) /\ msgs[m] \in Jobs /\ bodies[m] \subseteq Nat /\ pos[c] \in Nat
        /\ writeSize \in Nat \ {0} /\ msgs[m].dlen \in Nat
        /\ DOMAIN out = Callers /\ DOMAIN pos = Callers /\ DOMAIN pieces = 1..Len(msgs)
    <2>1. m \in 1..Len(msgs) /\ pos[c] \in Nat
      BY <1>1, CurFacts, Zenon
    <2>2. msgs[m] \in Jobs /\ bodies[m] \subseteq Nat
      BY <2>1, MsgFacts, Zenon
    <2>3. writeSize \in Nat \ {0}
      BY SizeFacts, Zenon DEF Lists
    <2>4. DOMAIN out = Callers /\ DOMAIN pos = Callers /\ DOMAIN pieces = 1..Len(msgs)
      BY LenProperties, Zenon DEF Lists
    <2> QED
      BY <2>1, <2>2, <2>3, <2>4, JobFacts, Zenon
  <1>4. Left(c) = msgs[m].dlen - pos[c] /\ pos[c] < msgs[m].dlen /\ n \in Nat
    <2>1. Left(c) = msgs[m].dlen - pos[c]
      BY Zenon DEF Left
    <2>2. PICK x : x = msgs[m].dlen
      OBVIOUS
    <2>3. n = IF x - pos[c] < writeSize THEN x - pos[c] ELSE writeSize
      BY <2>1, <2>2, Zenon DEF Min
    <2> HIDE DEF n
    <2>4. pos[c] < x /\ n \in Nat
      BY <1>1, <1>3, <2>1, <2>2, <2>3, SMT
    <2> QED
      BY <2>1, <2>2, <2>4, Zenon
  <1> DEFINE s == [i \in 1..n |-> Byte(from[i], pos[c] + i)]
  <1>6. s \in Seq(Nat) /\ Len(s) = n /\ \A i \in 1..n : s[i] = Byte(from[i], pos[c] + i)
    <2>1. ASSUME NEW i \in 1..n
          PROVE  Byte(from[i], pos[c] + i) \in Nat
      <3>1. from[i] \in Nat /\ i \in Nat
        <4>1. from[i] \in bodies[m]
          BY <1>2, Zenon
        <4>2. i \in Nat
          BY <1>4, SMT
        <4> QED
          BY <4>1, <4>2, <1>3, Zenon
      <3> QED
        BY <3>1, <1>3, SMT DEF Byte
    <2>2. s \in [1..n -> Nat]
      BY <2>1, Zenon
    <2>3. \A i \in 1..n : s[i] = Byte(from[i], pos[c] + i)
      BY Zenon
    <2> HIDE DEF s, n
    <2>4. s \in Seq(Nat) /\ Len(s) = n
      BY <2>2, <1>4, SMT
    <2> QED
      BY <2>3, <2>4, Zenon
  <1>7. \A i \in 1..n : from[i] \in bodies[m]
    BY <1>2, Zenon
  <1>8. /\ out' = [out EXCEPT ![c] = out[c] \o s \o (IF n < Left(c) THEN Separator(h) ELSE <<>>)]
        /\ pos' = [pos EXCEPT ![c] = pos[c] + n]
        /\ pieces' = [pieces EXCEPT ![m] = pieces[m] \cup {[at |-> pos[c], n |-> n]}]
    BY <1>2, <1>3, Zenon
  <1>9. UNCHANGED <<msgs, result, bodies, cur, writeSize, connVars, peerVars>>
    BY Zenon DEF CopyPart
  <1>10. n = Min(msgs[m].dlen - pos[c], writeSize)
    BY <1>4, Zenon
  <1> HIDE DEF s, n
  <1>11. CopyDoes(c, s)
    BY <1>1, <1>4, <1>6, <1>7, <1>8, <1>9, <1>10, Zenon DEF CopyDoes
  <1> QED
    BY <1>11, Zenon

\* Flush and FlushFails: the Write of c ends with res and has put the first n bytes
\* of its buffer on the wire.
EndDoes(c, n, res) ==
    /\ cur[c] # 0 /\ pos[c] = msgs[cur[c]].dlen /\ res \in {"nil", "err"}
    /\ n \in 0..Len(out[c]) /\ (n # 0 => ~broken)
    /\ wire' = wire \o SubSeq(out[c], 1, n)
    /\ IF n = 0 /\ res = "err" THEN UNCHANGED <<written, sizes>> ELSE Record(cur[c])
    /\ broken' = (broken \/ res = "err") /\ (res = "nil" => n = Len(out[c]) /\ ~broken)
    /\ Return(c, res)

\* That is what they do.
LEMMA EndFacts ==
    ASSUME Lists, NEW c \in Callers, Flush(c) \/ FlushFails(c)
    PROVE  \E n, res : EndDoes(c, n, res)
  <1>1. cur[c] # 0 /\ Left(c) = 0
    BY Zenon DEF Flush, FlushFails
  <1>2. pos[c] = msgs[cur[c]].dlen /\ out[c] \in Seq(Nat)
    <2>1. cur[c] \in 1..Len(msgs) /\ pos[c] \in Nat /\ out[c] \in Seq(Nat)
      BY <1>1, CurFacts, Zenon
    <2>2. msgs[cur[c]].dlen \in Nat
      BY <2>1, MsgFacts, JobFacts, Zenon
    <2> QED
      BY <1>1, <2>1, <2>2, SMT DEF Left
  <1>3. Len(out[c]) \in Nat /\ broken \in BOOLEAN
    BY <1>2, LenProperties, Zenon DEF Lists
  <1>4. CASE Flush(c)
    <2>1. SubSeq(out[c], 1, Len(out[c])) = out[c]
      BY <1>2, SubSeqFull, Zenon
    <2>2. Len(out[c]) \in 0..Len(out[c])
      BY <1>3, SMT
    <2>3. broken' = (broken \/ "nil" = "err")
      BY <1>3, <1>4 DEF Flush
    <2>4. /\ wire' = wire \o SubSeq(out[c], 1, Len(out[c])) /\ Record(cur[c])
          /\ ~broken /\ Return(c, "nil")
      BY <1>4, <2>1, Zenon DEF Flush
    <2>5. EndDoes(c, Len(out[c]), "nil")
      <3>1. "nil" # "err"
        OBVIOUS
      <3> QED
        BY <3>1, <1>1, <1>2, <2>2, <2>3, <2>4, Zenon DEF EndDoes
    <2> QED
      BY <2>5, Zenon
  <1>5. CASE FlushFails(c)
    <2>1. PICK n \in Cuts \cup {0} :
            /\ n < Len(out[c])
            /\ broken => n = 0
            /\ wire' = wire \o SubSeq(out[c], 1, n)
            /\ IF n = 0 THEN UNCHANGED <<written, sizes>> ELSE Record(cur[c])
      BY <1>5, Zenon DEF FlushFails
    <2>2. n \in 0..Len(out[c])
      <3>1. Cuts \subseteq Nat
        BY WriterAssumption, Zenon
      <3> QED
        BY <3>1, <2>1, <1>3, SMT
    <2>3. broken' = (broken \/ "err" = "err") /\ Return(c, "err")
      BY <1>5 DEF FlushFails
    <2>4. EndDoes(c, n, "err")
      BY <1>1, <1>2, <2>1, <2>2, <2>3, Zenon DEF EndDoes
    <2> QED
      BY <2>4, Zenon
  <1> QED
    BY <1>4, <1>5, Zenon

-----------------------------------------------------------------------------
(* The callers: each action keeps the parts of the invariant about them.   *)

\* Begin keeps the types.
LEMMA BeginLists ==
    ASSUME Callings, NEW c \in Callers, NEW j \in Jobs, Begin(c, j), NEW k, BeginDoes(k, c, j)
    PROVE  Lists'
  <1>0. Lists /\ k \in Nat /\ Len(msgs) <= k /\ Len(msgs) \in Nat
    <2>1. Lists /\ k \in Nat /\ k = Len(msgs) + 1 /\ msgs \in Seq(Jobs)
      BY Zenon DEF Callings, BeginDoes, Lists
    <2>2. Len(msgs) \in Nat
      BY <2>1, LenProperties, Zenon
    <2> QED
      BY <2>1, <2>2, SMT
  <1>1. /\ msgs' \in Seq(Jobs) /\ Len(result') = Len(msgs') /\ Len(bodies') = Len(msgs')
        /\ result' \in Seq({"pending", "nil", "err"}) /\ bodies' \in Seq(SUBSET Nat)
        /\ Len(msgs') = k /\ Len(pieces') = Len(msgs') /\ \E S : pieces' \in Seq(SUBSET S)
    BY Zenon DEF BeginDoes
  <1>2. cur' \in [Callers -> Nat] /\ pos' \in [Callers -> Nat]
    <2>1. cur \in [Callers -> Nat] /\ pos \in [Callers -> Nat] /\ 0 \in Nat
      BY <1>0, SMT DEF Lists
    <2> QED
      BY <1>0, <2>1, Zenon DEF BeginDoes
  <1>3. out' \in [Callers -> Seq(Nat)]
    <2>1. HeaderWrite(j.hdr) \in Seq(Nat)
      BY JobFacts, HeaderBytes, Zenon
    <2> QED
      BY <1>0, <2>1, Zenon DEF BeginDoes, Lists
  <1>4. \A d \in Callers : cur'[d] <= k
    <2> SUFFICES ASSUME NEW d \in Callers
                 PROVE  cur'[d] <= k
      OBVIOUS
    <2>1. cur'[d] = IF d = c THEN k ELSE cur[d]
      BY <1>0, Zenon DEF BeginDoes, Lists
    <2>2. cur[d] \in Nat /\ cur[d] <= Len(msgs)
      BY <1>0, Zenon DEF Lists
    <2> QED
      BY <1>0, <2>1, <2>2, SMT
  <1>5. UNCHANGED <<writeSize, broken, written, read, lost>>
    BY Zenon DEF Begin, connVars, peerVars
  <1>8. \A i \in 1..Len(written) : written[i] \in 1..k
    <2>1. \A i \in 1..Len(written) : written[i] \in 1..Len(msgs)
      BY <1>0, Zenon DEF Lists
    <2>2. \A n \in 1..Len(msgs) : n \in 1..k
      BY <1>0, SMT
    <2> QED
      BY <2>1, <2>2, Zenon
  <1>9. /\ writeSize' \in Sizes /\ broken' \in BOOLEAN /\ lost' \in BOOLEAN
        /\ written' \in Seq(Nat) /\ \E S : read' \in Seq(S)
    BY <1>0, <1>5, Zenon DEF Lists
  <1>10. \A i \in 1..Len(written') : written'[i] \in 1..Len(msgs')
    BY <1>1, <1>5, <1>8, Zenon
  <1> QED
    BY <1>1, <1>2, <1>3, <1>4, <1>9, <1>10, Zenon DEF Lists

\* Begin gives the caller a message of its own.
LEMMA BeginCalls ==
    ASSUME Callings, NEW c \in Callers, NEW j \in Jobs, Begin(c, j), NEW k, BeginDoes(k, c, j)
    PROVE  Calls' /\ Owners' /\ Ended' /\ Sized' /\ Buffers'
  <1>0. /\ Lists /\ Calls /\ Owners /\ Ended /\ Sized /\ Buffers
        /\ k \in Nat /\ k # 0 /\ k \notin 1..Len(msgs) /\ Len(msgs') = k /\ k = Len(msgs) + 1
        /\ k \in 1..k /\ (\A m \in 1..k : m # k => m \in 1..Len(msgs))
        /\ msgs'[k] = j /\ result'[k] = "pending"
        /\ \A m \in 1..Len(msgs) : result'[m] = result[m] /\ msgs'[m] = msgs[m]
        /\ \A m \in 1..Len(msgs) : pieces'[m] = pieces[m]
    BY Zenon DEF Callings, BeginDoes, Keeps
  <1>1. /\ \A d \in Callers : cur'[d] = IF d = c THEN k ELSE cur[d]
        /\ \A d \in Callers : pos'[d] = IF d = c THEN 0 ELSE pos[d]
        /\ \A d \in Callers : out'[d] = IF d = c THEN HeaderWrite(j.hdr) ELSE out[d]
    BY <1>0, Zenon DEF BeginDoes, Lists
  <1>2. \A d \in Callers : cur[d] # 0 => cur[d] \in 1..Len(msgs)
    BY <1>0, CurFacts, Zenon
  <1>3. UNCHANGED <<writeSize, written, sizes>>
    BY Zenon DEF Begin, connVars
  <1>4. 0 <= j.dlen
    BY JobFacts, SMT
  <1>5. Calls'
    <2> SUFFICES ASSUME NEW d \in Callers
                 PROVE  /\ cur'[d] = 0 => out'[d] = <<>>
                        /\ cur'[d] # 0 => /\ result'[cur'[d]] = "pending"
                                          /\ pos'[d] <= msgs'[cur'[d]].dlen
                        /\ \A g \in Callers : cur'[d] # 0 /\ cur'[d] = cur'[g] => d = g
      BY Zenon DEF Calls, Pending
    <2>1. CASE d = c
      BY <2>1, <1>0, <1>1, <1>2, <1>4, Zenon
    <2>2. CASE d # c
      <3>1. /\ cur[d] = 0 => out[d] = <<>>
            /\ cur[d] # 0 => result[cur[d]] = "pending" /\ pos[d] <= msgs[cur[d]].dlen
            /\ \A g \in Callers : cur[d] # 0 /\ cur[d] = cur[g] => d = g
        BY <1>0, Zenon DEF Calls, Pending
      <3> QED
        BY <2>2, <3>1, <1>0, <1>1, <1>2, ZenonT(60)
    <2> QED
      BY <2>1, <2>2, Zenon
  <1>6. Owners'
    <2> SUFFICES ASSUME NEW m \in 1..k
                 PROVE  m \in bodies'[m] /\ (~msgs'[m].alias => bodies'[m] = {m})
      BY <1>0, Zenon DEF Owners
    <2>1. CASE m = k
      BY <2>1, <1>0, Zenon DEF BeginDoes
    <2>2. CASE m # k
      BY <2>2, <1>0, Zenon DEF BeginDoes, Keeps, Owners
    <2> QED
      BY <2>1, <2>2, Zenon
  <1>7. Ended' /\ Sized'
    <2>1. \A i \in 1..Len(written) : written[i] \in 1..Len(msgs)
      BY <1>0, Zenon DEF Lists
    <2>2. Ended'
      BY <2>1, <1>0, <1>3, Zenon DEF Ended
    <2>3. Sized'
      BY <2>1, <1>0, <1>3, ZenonT(60) DEF Sized
    <2> QED
      BY <2>2, <2>3, Zenon
  <1>8. Buffers'
    <2> SUFFICES ASSUME NEW d \in Callers, cur'[d] # 0, NEW z \in Sizes, Suits(cur[d], z)'
                 PROVE  \E P : Made(out'[d], P, msgs'[cur'[d]].hdr, bodies'[cur'[d]],
                                    z, pos'[d])
      BY Zenon DEF Buffers
    <2>1. CASE d = c
      <3>1. z \in Nat \ {0}
        BY SizeFacts, Zenon
      <3>2. \E P : Made(HeaderWrite(j.hdr), P, j.hdr, bodies'[k], z, 0)
        BY <3>1, JobFacts, MadeFirst, Zenon
      <3> QED
        BY <3>2, <2>1, <1>0, <1>1, Zenon
    <2>2. CASE d # c
      <3>1. cur'[d] = cur[d] /\ cur[d] # 0 /\ cur[d] \in 1..Len(msgs)
        BY <2>2, <1>1, <1>2, Zenon
      <3>2. Suits(cur[d], z)
        BY <3>1, <1>0, ZenonT(60) DEF Suits, WellCut
      <3>3. PICK P : Made(out[d], P, msgs[cur[d]].hdr, bodies[cur[d]], z, pos[d])
        BY <3>1, <3>2, <1>0, Zenon DEF Buffers
      <3>4. bodies[cur[d]] \subseteq bodies'[cur[d]]
        BY <3>1, Zenon DEF BeginDoes, Keeps
      <3>5. Made(out[d], P, msgs[cur[d]].hdr, bodies'[cur[d]], z, pos[d])
        BY <3>3, <3>4, MadeMore, Zenon
      <3> QED
        BY <3>1, <3>5, <2>2, <1>0, <1>1, Zenon
    <2> QED
      BY <2>1, <2>2, Zenon
  <1> QED
    BY <1>5, <1>6, <1>7, <1>8, Zenon

\* Another client's status keeps what the callers have.
LEMMA OtherCallings ==
    ASSUME Callings, OtherStatus
    PROVE  Callings'
  <1>0. Lists /\ Calls /\ Owners /\ Ended /\ Sized /\ Buffers
    BY Zenon DEF Callings
  <1>1. UNCHANGED <<msgs, result, cur, pos, out, pieces, writeSize, broken, written, sizes,
                    read, lost>>
    BY Zenon DEF OtherStatus, connVars, peerVars
  <1>2. Keeps /\ Len(bodies') = Len(msgs) /\ bodies' \in Seq(SUBSET Nat)
    BY <1>0, OtherFacts, Zenon
  <1>3. Lists'
    BY <1>0, <1>1, <1>2, Zenon DEF Lists
  <1>4. Calls'
    BY <1>0, <1>1, Zenon DEF Calls, Pending
  <1>5. Owners'
    BY <1>0, <1>1, <1>2, Zenon DEF Owners, Keeps
  <1>6. Ended' /\ Sized'
    BY <1>0, <1>1, Zenon DEF Ended, Sized
  <1>7. Buffers'
    <2> SUFFICES ASSUME NEW d \in Callers, cur[d] # 0, NEW z \in Sizes, Suits(cur[d], z)
                 PROVE  \E P : Made(out[d], P, msgs[cur[d]].hdr, bodies'[cur[d]], z, pos[d])
      BY <1>1, Zenon DEF Buffers, Suits, WellCut
    <2>1. PICK P : Made(out[d], P, msgs[cur[d]].hdr, bodies[cur[d]], z, pos[d])
      BY <1>0, Zenon DEF Buffers
    <2>2. cur[d] \in 1..Len(msgs)
      BY <1>0, CurFacts, Zenon
    <2>3. bodies[cur[d]] \subseteq bodies'[cur[d]]
      BY <2>2, <1>2, Zenon DEF Keeps
    <2> QED
      BY <2>1, <2>3, MadeMore, Zenon
  <1> QED
    BY <1>3, <1>4, <1>5, <1>6, <1>7, Zenon DEF Callings

\* A turn of the loop of Write does not copy more than is left.
LEMMA Advance ==
    ASSUME NEW q \in Nat, NEW p \in Nat, p < q, NEW z \in Nat \ {0},
           NEW n, n = Min(q - p, z)
    PROVE  n \in Nat /\ p + n \in Nat /\ p + n <= q
  BY SMT DEF Min

\* A turn of the loop of Write keeps what the callers have.
LEMMA CopyCallings ==
    ASSUME Callings, NEW c \in Callers, CopyPart(c)
    PROVE  Callings'
  <1>0. Lists /\ Calls /\ Owners /\ Ended /\ Sized /\ Buffers
    BY Zenon DEF Callings
  <1>1. PICK s : CopyDoes(c, s)
    BY <1>0, CopyFacts, Zenon
  <1> DEFINE m == cur[c]
             h == msgs[m].hdr
             q == msgs[m].dlen
             t == IF Len(s) < q - pos[c] THEN Separator(h) ELSE <<>>
  <1>2. /\ m # 0 /\ pos[c] < q /\ s \in Seq(Nat) /\ Len(s) = Min(q - pos[c], writeSize)
        /\ \A i \in 1..Len(s) : \E y \in bodies[m] : s[i] = Byte(y, pos[c] + i)
        /\ UNCHANGED <<msgs, result, bodies, cur, writeSize, broken, written, sizes, read, lost>>
    BY <1>1, Zenon DEF CopyDoes, connVars, peerVars
  <1>3. /\ DOMAIN out = Callers /\ DOMAIN pos = Callers /\ DOMAIN pieces = 1..Len(msgs)
        /\ out' = [out EXCEPT ![c] = out[c] \o s \o t]
        /\ pos' = [pos EXCEPT ![c] = pos[c] + Len(s)]
        /\ pieces' = [pieces EXCEPT ![m] = pieces[m] \cup {[at |-> pos[c], n |-> Len(s)]}]
    BY <1>0, <1>1, LenProperties, Zenon DEF CopyDoes, Lists
  <1>4. /\ m \in 1..Len(msgs) /\ pos[c] \in Nat /\ out[c] \in Seq(Nat) /\ IsHeader(h)
        /\ h.len \in Nat /\ q \in Nat /\ writeSize \in Nat \ {0}
    <2>1. m \in 1..Len(msgs) /\ pos[c] \in Nat /\ out[c] \in Seq(Nat)
      BY <1>0, <1>2, CurFacts, Zenon
    <2>2. writeSize \in Nat \ {0}
      BY <1>0, SizeFacts, Zenon DEF Lists
    <2> QED
      BY <2>1, <2>2, <1>0, MsgFacts, JobFacts, Zenon
  <1>5. Len(s) \in Nat /\ pos[c] + Len(s) \in Nat /\ pos[c] + Len(s) <= q
    BY <1>2, <1>4, Advance, Zenon
  <1>7. out[c] \o s \o t \in Seq(Nat)
    <2>1. t \in Seq(Nat)
      BY <1>4, SeparatorByte, EmptySeq, Zenon
    <2> HIDE DEF t
    <2> QED
      BY <2>1, <1>2, <1>4, ConcatProperties, Zenon
  <1>9. /\ \A d \in Callers : d # c => out'[d] = out[d] /\ pos'[d] = pos[d]
        /\ out'[c] = out[c] \o s \o t /\ pos'[c] = pos[c] + Len(s)
        /\ \A k \in 1..Len(msgs) : k # m => pieces'[k] = pieces[k]
        /\ pieces'[m] = pieces[m] \cup {[at |-> pos[c], n |-> Len(s)]}
    BY <1>3, <1>4, Zenon
  <1>6. ASSUME NEW z \in Sizes, Suits(m, z)'
        PROVE  \E P : Made(out[c] \o s \o t, P, h, bodies[m], z, pos[c] + Len(s))
    <2>1. h.len = q /\ \A p \in pieces'[m] : p.n = Min(q - p.at, z)
      BY <1>2, <1>6, Zenon DEF Suits, WellCut
    <2>2. Suits(m, z)
      BY <2>1, <1>9, Zenon DEF Suits, WellCut
    <2>3. PICK Q : Made(out[c], Q, h, bodies[m], z, pos[c])
      BY <2>2, <1>0, <1>2, Zenon DEF Buffers
    <2>4. PICK p : p = [at |-> pos[c], n |-> Len(s)]
      OBVIOUS
    <2>5. p.at = pos[c] /\ p.n = Len(s)
      BY <2>4, SMT
    <2>6. Len(s) = Span(h, pos[c], z)
      BY <2>1, <2>4, <2>5, <1>9, Zenon DEF Span
    <2>7. Fills(s, h, bodies[m], pos[c], z)
      BY <2>6, <1>2, Zenon DEF Fills
    <2>8. z \in Nat \ {0} /\ pos[c] < h.len
      BY <2>1, <1>2, SizeFacts, Zenon
    <2>9. \E P : Made(out[c] \o s \o (IF Len(s) < h.len - pos[c] THEN Separator(h) ELSE <<>>),
                      P, h, bodies[m], z, pos[c] + Len(s))
      BY <2>3, <2>7, <2>8, <1>4, MadeOn, Zenon
    <2> QED
      BY <2>1, <2>9, Zenon
  <1> HIDE DEF t, h, q, m
  <1>8. Lists'
    <2>1. out' \in [Callers -> Seq(Nat)] /\ pos' \in [Callers -> Nat]
      BY <1>0, <1>3, <1>5, <1>7, Zenon DEF Lists
    <2>2. Len(pieces') = Len(msgs) /\ \E S : pieces' \in Seq(SUBSET S)
      <3>1. PICK S : pieces \in Seq(SUBSET S)
        BY <1>0, Zenon DEF Lists
      <3>2. PICK x, T : x = [at |-> pos[c], n |-> Len(s)] /\ T = S \cup {x}
        OBVIOUS
      <3>3. pieces \in [1..Len(msgs) -> SUBSET T] /\ pieces[m] \cup {x} \in SUBSET T
        <4>1. \A k \in 1..Len(msgs) : pieces[k] \in SUBSET S
          BY <3>1, <1>0, ElementOfSeq, Zenon DEF Lists
        <4>2. pieces \in [1..Len(msgs) -> SUBSET S]
          <5>1. Len(pieces) = Len(msgs)
            BY <1>0, Zenon DEF Lists
          <5> QED
            BY <5>1, <3>1, LenProperties, Zenon
        <4> QED
          BY <4>1, <4>2, <3>2, <1>4, Zenon
      <3>4. pieces' \in [1..Len(msgs) -> SUBSET T]
        BY <3>2, <3>3, <1>3, Zenon
      <3>5. Len(msgs) \in Nat
        BY <1>0, LenProperties, Zenon DEF Lists
      <3>6. pieces' \in Seq(SUBSET T) /\ Len(pieces') = Len(msgs)
        BY <3>4, <3>5, SMT
      <3> QED
        BY <3>6, Zenon
    <2> QED
      BY <2>1, <2>2, <1>0, <1>2, Zenon DEF Lists
  <1>10. Calls'
    <2> SUFFICES ASSUME NEW d \in Callers
                 PROVE  /\ cur[d] = 0 => out'[d] = <<>>
                        /\ cur[d] # 0 => /\ result[cur[d]] = "pending"
                                         /\ pos'[d] <= msgs[cur[d]].dlen
                        /\ \A g \in Callers : cur[d] # 0 /\ cur[d] = cur[g] => d = g
      BY <1>2, Zenon DEF Calls, Pending
    <2>1. /\ cur[d] = 0 => out[d] = <<>>
          /\ cur[d] # 0 => result[cur[d]] = "pending" /\ pos[d] <= msgs[cur[d]].dlen
          /\ \A g \in Callers : cur[d] # 0 /\ cur[d] = cur[g] => d = g
      BY <1>0, Zenon DEF Calls, Pending
    <2>2. CASE d = c
      BY <2>1, <2>2, <1>2, <1>5, <1>9, Zenon DEF q, m
    <2>3. CASE d # c
      BY <2>1, <2>3, <1>9, Zenon
    <2> QED
      BY <2>2, <2>3, Zenon
  <1>11. Owners' /\ Ended' /\ Sized'
    BY <1>0, <1>2, Zenon DEF Owners, Ended, Sized
  <1>12. Buffers'
    <2> SUFFICES ASSUME NEW d \in Callers, cur[d] # 0, NEW z \in Sizes, Suits(cur[d], z)'
                 PROVE  \E Q : Made(out'[d], Q, msgs[cur[d]].hdr, bodies[cur[d]], z, pos'[d])
      BY <1>2, Zenon DEF Buffers
    <2>1. CASE d = c
      <3>1. Suits(m, z)'
        BY <2>1, Zenon DEF m
      <3> QED
        BY <2>1, <3>1, <1>6, <1>9, Zenon DEF h, m
    <2>2. CASE d # c
      <3>1. cur[d] \in 1..Len(msgs) /\ cur[d] # m
        BY <2>2, <1>0, CurFacts, Zenon DEF Calls, m
      <3>2. Suits(cur[d], z)
        BY <3>1, <1>2, <1>9, Zenon DEF Suits, WellCut
      <3>3. \E Q : Made(out[d], Q, msgs[cur[d]].hdr, bodies[cur[d]], z, pos[d])
        BY <3>2, <1>0, Zenon DEF Buffers
      <3> QED
        BY <3>3, <2>2, <1>9, Zenon
    <2> QED
      BY <2>1, <2>2, Zenon
  <1> QED
    BY <1>8, <1>10, <1>11, <1>12, Zenon DEF Callings

\* The end of a Write keeps what the other callers have.
LEMMA EndCallings ==
    ASSUME Callings, NEW c \in Callers, NEW n, NEW res, EndDoes(c, n, res)
    PROVE  Callings'
  <1>0. Lists /\ Calls /\ Owners /\ Ended /\ Sized /\ Buffers
    BY Zenon DEF Callings
  <1> DEFINE m == cur[c]
  <1>1. /\ m # 0 /\ res \in {"nil", "err"}
        /\ result' = [result EXCEPT ![m] = res] /\ cur' = [cur EXCEPT ![c] = 0]
        /\ pos' = [pos EXCEPT ![c] = 0] /\ out' = [out EXCEPT ![c] = <<>>]
        /\ UNCHANGED <<msgs, bodies, pieces, writeSize, read, lost>>
        /\ (written' = written /\ sizes' = sizes) \/ Record(m)
        /\ broken' \in BOOLEAN
    <2>1. Return(c, res) /\ m # 0 /\ res \in {"nil", "err"} /\ broken' \in BOOLEAN
      BY Zenon DEF EndDoes
    <2>2. (written' = written /\ sizes' = sizes) \/ Record(m)
      BY Zenon DEF EndDoes
    <2> QED
      BY <2>1, <2>2, Zenon DEF Return, peerVars
  <1>2. m \in 1..Len(msgs) /\ m \in Nat
    BY <1>0, <1>1, CurFacts, MsgFacts, Zenon
  <1>3. /\ result' \in Seq({"pending", "nil", "err"}) /\ Len(result') = Len(msgs)
        /\ \A i \in 1..Len(msgs) : result'[i] = IF i = m THEN res ELSE result[i]
    <2>1. result \in Seq({"pending", "nil", "err"}) /\ Len(result) = Len(msgs)
      BY <1>0, Zenon DEF Lists
    <2>2. res \in {"pending", "nil", "err"}
      BY <1>1, Zenon
    <2> HIDE DEF m
    <2> QED
      BY <2>1, <2>2, <1>1, <1>2, SMT
  <1>4. /\ \A d \in Callers : cur'[d] = IF d = c THEN 0 ELSE cur[d]
        /\ \A d \in Callers : pos'[d] = IF d = c THEN 0 ELSE pos[d]
        /\ \A d \in Callers : out'[d] = IF d = c THEN <<>> ELSE out[d]
        /\ cur' \in [Callers -> Nat] /\ pos' \in [Callers -> Nat] /\ out' \in [Callers -> Seq(Nat)]
    <2>1. /\ cur \in [Callers -> Nat] /\ pos \in [Callers -> Nat] /\ out \in [Callers -> Seq(Nat)]
          /\ 0 \in Nat /\ <<>> \in Seq(Nat)
      BY <1>0, EmptySeq, SMT DEF Lists
    <2> QED
      BY <2>1, <1>1, Zenon
  <1>13. ASSUME Record(m)
         PROVE  /\ written' \in Seq(Nat)
                /\ \A i \in 1..Len(written') : written'[i] \in 1..Len(msgs)
                /\ Ended' /\ Sized'
    <2>1. written \in Seq(Nat) /\ sizes \in Seq(Sizes) /\ Len(sizes) = Len(written) + 1
      BY <1>0, Zenon DEF Lists, Sized
    <2>2. Longer(written', written, m, Nat)
      BY <2>1, <1>2, <1>13, Appended, Zenon DEF Record
    <2>3. PICK w : w = Len(written)
      OBVIOUS
    <2>4. w \in Nat /\ Len(written') = w + 1 /\ Len(sizes) = w + 1
      BY <2>1, <2>2, <2>3, Zenon DEF Longer
    <2>5. /\ \A i \in 1..w : i \in 1..(w + 1) /\ i + 1 \in 1..(w + 1)
          /\ \A i \in 1..(w + 1) : i \in 1..w \/ i = w + 1
          /\ w + 1 \in 1..(w + 1)
      BY <2>4, SMT
    <2>6. /\ \A i \in 1..w : written'[i] = written[i]
          /\ written'[w + 1] = m
      BY <2>2, <2>3, Zenon DEF Longer
    <2>7. PICK x : x = IF msgs[m].size # 0 THEN msgs[m].size ELSE sizes[w + 1]
      OBVIOUS
    <2>8. x \in Sizes
      <3>1. sizes[w + 1] \in Sizes
        BY <2>1, <2>4, <2>5, ElementOfSeq, Zenon
      <3> QED
        BY <3>1, <2>7, <1>0, <1>2, MsgFacts, SizeFacts, Zenon
    <2>9. Longer(sizes', sizes, x, Sizes)
      <3>1. sizes' = Append(sizes, x)
        BY <2>4, <2>7, <1>13, Zenon DEF Record
      <3> QED
        BY <3>1, <2>1, <2>8, Appended, Zenon
    <2>10. /\ sizes' \in Seq(Sizes) /\ Len(sizes') = Len(written') + 1
           /\ \A i \in 1..(w + 1) : sizes'[i] = sizes[i]
           /\ sizes'[w + 1 + 1] = x
      BY <2>4, <2>9, Zenon DEF Longer
    <2>11. ASSUME NEW i \in 1..(w + 1)
           PROVE  sizes'[i + 1] =
                    IF msgs[written'[i]].size # 0 THEN msgs[written'[i]].size ELSE sizes'[i]
      <3>1. CASE i \in 1..w
        BY <3>1, <2>3, <2>5, <2>6, <2>10, <1>0, Zenon DEF Sized
      <3>2. CASE i = w + 1
        BY <3>2, <2>5, <2>6, <2>7, <2>10, Zenon
      <3> QED
        BY <3>1, <3>2, <2>5, Zenon
    <2>12. Sized'
      BY <2>4, <2>10, <2>11, <1>1, Zenon DEF Sized
    <2>13. ASSUME NEW i \in 1..(w + 1)
           PROVE  written'[i] \in 1..Len(msgs) /\ result'[written'[i]] # "pending"
      <3>1. CASE i \in 1..w
        BY <3>1, <2>3, <2>6, <1>0, <1>1, <1>3, ZenonT(60) DEF Lists, Ended
      <3>2. CASE i = w + 1
        BY <3>2, <2>6, <1>1, <1>2, <1>3, Zenon
      <3> QED
        BY <3>1, <3>2, <2>5, Zenon
    <2> QED
      BY <2>2, <2>4, <2>12, <2>13, Zenon DEF Ended, Longer
  <1>14. ASSUME written' = written, sizes' = sizes
         PROVE  /\ written' \in Seq(Nat)
                /\ \A i \in 1..Len(written') : written'[i] \in 1..Len(msgs)
                /\ Ended' /\ Sized'
    <2>1. \A i \in 1..Len(written) : written[i] \in 1..Len(msgs) /\ result[written[i]] # "pending"
      BY <1>0, Zenon DEF Lists, Ended
    <2>2. Ended'
      BY <2>1, <1>1, <1>3, <1>14, Zenon DEF Ended
    <2>3. Sized'
      BY <1>0, <1>1, <1>14, Zenon DEF Sized
    <2>4. written' \in Seq(Nat)
      BY <1>0, <1>14, Zenon DEF Lists
    <2> QED
      BY <2>1, <2>2, <2>3, <2>4, <1>14, Zenon
  <1>5. /\ written' \in Seq(Nat)
        /\ \A i \in 1..Len(written') : written'[i] \in 1..Len(msgs)
        /\ Ended' /\ Sized'
    BY <1>1, <1>13, <1>14, Zenon
  <1>6. \A d \in Callers : cur'[d] <= Len(msgs)
    <2>1. 0 <= Len(msgs)
      BY <1>2, SMT
    <2> QED
      BY <2>1, <1>0, <1>4, Zenon DEF Lists
  <1>7. Lists'
    BY <1>0, <1>1, <1>3, <1>4, <1>5, <1>6, Zenon DEF Lists
  <1>8. \A d \in Callers : cur[d] # 0 => cur[d] \in 1..Len(msgs)
    BY <1>0, CurFacts, Zenon
  <1>9. Calls'
    <2> SUFFICES ASSUME NEW d \in Callers
                 PROVE  /\ cur'[d] = 0 => out'[d] = <<>>
                        /\ cur'[d] # 0 => /\ result'[cur'[d]] = "pending"
                                          /\ pos'[d] <= msgs[cur'[d]].dlen
                        /\ \A g \in Callers : cur'[d] # 0 /\ cur'[d] = cur'[g] => d = g
      BY <1>1, Zenon DEF Calls, Pending
    <2>1. /\ cur[d] = 0 => out[d] = <<>>
          /\ cur[d] # 0 => result[cur[d]] = "pending" /\ pos[d] <= msgs[cur[d]].dlen
          /\ \A g \in Callers : cur[d] # 0 /\ cur[d] = cur[g] => d = g
      BY <1>0, Zenon DEF Calls, Pending
    <2>2. CASE d = c
      BY <2>2, <1>4, Zenon
    <2>3. CASE d # c
      BY <2>1, <2>3, <1>3, <1>4, <1>8, Zenon
    <2> QED
      BY <2>2, <2>3, Zenon
  <1>10. Owners'
    BY <1>0, <1>1, Zenon DEF Owners
  <1>12. Buffers'
    BY <1>0, <1>1, <1>4, ZenonT(60) DEF Buffers, Suits, WellCut
  <1> QED
    BY <1>5, <1>7, <1>9, <1>10, <1>12, Zenon DEF Callings

\* SetWriteSize does nothing to what is copied already.
LEMMA SetCallings ==
    ASSUME Callings, NEW z \in Sizes, SetWriteSize(z)
    PROVE  Callings'
  <1>0. Lists /\ Calls /\ Owners /\ Ended /\ Sized /\ Buffers
    BY Zenon DEF Callings
  <1>1. /\ writeSize' \in Sizes
        /\ UNCHANGED <<msgs, result, bodies, cur, pos, out, pieces, broken, written, sizes,
                       read, lost>>
    BY Zenon DEF SetWriteSize, callVars, connVars, peerVars
  <1>2. Lists'
    BY <1>0, <1>1, Zenon DEF Lists
  <1>3. Calls' /\ Owners' /\ Ended' /\ Sized' /\ Buffers'
    BY <1>0, <1>1, Zenon DEF Calls, Owners, Ended, Sized, Buffers, Pending, Suits, WellCut
  <1> QED
    BY <1>2, <1>3, Zenon DEF Callings

\* The peer does nothing to the callers.
LEMMA PeerCallings ==
    ASSUME Callings, UNCHANGED <<callVars, writeSize, broken, written, sizes>>,
           lost' \in BOOLEAN, \E S : read' \in Seq(S)
    PROVE  Callings'
  <1>0. Lists /\ Calls /\ Owners /\ Ended /\ Sized /\ Buffers
    BY Zenon DEF Callings
  <1>1. UNCHANGED <<msgs, result, bodies, cur, pos, out, pieces>>
    BY Zenon DEF callVars
  <1>2. Lists'
    BY <1>0, <1>1, Zenon DEF Lists
  <1>3. Calls' /\ Owners' /\ Ended' /\ Sized' /\ Buffers'
    BY <1>0, <1>1, Zenon DEF Calls, Owners, Ended, Sized, Buffers, Pending, Suits, WellCut
  <1> QED
    BY <1>2, <1>3, Zenon DEF Callings

-----------------------------------------------------------------------------
(* The wire: actions that put nothing on it and take nothing off it.       *)

\* The ghosts that Wired speaks of.
Ghosts(E, P, at, base, a) ==
    BytesAre(E, P) /\ WireIs(E, at, base) /\ PeerIs(P, at, base, a)

\* Whether a message of the wire is clean depends on what nobody changes any more.
LEMMA CleanKept ==
    ASSUME Lists, Ended, Keeps, written' = written, sizes' = sizes
    PROVE  \A i \in 1..Len(written) :
              /\ written[i] \in 1..Len(msgs) /\ msgs'[written[i]] = msgs[written[i]]
              /\ Clean(i)' <=> Clean(i)
              /\ bodies[written[i]] \subseteq bodies'[written[i]]
  <1> SUFFICES ASSUME NEW i \in 1..Len(written)
               PROVE  /\ written[i] \in 1..Len(msgs) /\ msgs'[written[i]] = msgs[written[i]]
                      /\ Clean(i)' <=> Clean(i)
                      /\ bodies[written[i]] \subseteq bodies'[written[i]]
    OBVIOUS
  <1>1. written[i] \in 1..Len(msgs) /\ result[written[i]] # "pending"
    BY Zenon DEF Lists, Ended
  <1>2. /\ msgs'[written[i]] = msgs[written[i]] /\ pieces'[written[i]] = pieces[written[i]]
        /\ bodies[written[i]] \subseteq bodies'[written[i]]
    BY <1>1, Zenon DEF Keeps
  <1>3. Clean(i)' <=> Clean(i)
    <2>1. written'[i] = written[i] /\ sizes'[i] = sizes[i]
      BY Zenon
    <2>2. PICK m, z : m = written[i] /\ z = sizes[i]
      OBVIOUS
    <2>3. WellCut(m, z)' <=> WellCut(m, z)
      BY <2>2, <1>2, Zenon DEF WellCut
    <2>4. Clean(i) <=> Expressible(msgs[m], z) /\ WellCut(m, z)
      BY <2>2, Zenon DEF Clean
    <2>5. Clean(i)' <=> Expressible(msgs'[m], z) /\ WellCut(m, z)'
      BY <2>1, <2>2, Zenon DEF Clean, Expressible, WellCut
    <2> QED
      BY <2>2, <2>3, <2>4, <2>5, <1>2, Zenon
  <1> QED
    BY <1>1, <1>2, <1>3, Zenon

\* The wire stays what it is while no bytes come or go.
LEMMA WireStays ==
    ASSUME NEW E, NEW at, NEW base, WireIs(E, at, base), wire' = wire, written' = written,
           broken => broken'
    PROVE  WireIs(E, at, base)'
  <1>1. PICK w : w = Len(written)
    OBVIOUS
  <1>2. /\ wire \in Seq(Nat) /\ base \in Nat
        /\ \A i \in 0..w : at[i] \in Nat /\ at[i] <= at[w]
        /\ \A i \in 1..w : at[i] = at[i - 1] + Len(E[i])
        /\ base + Len(wire) <= at[w]
        /\ ~broken => base + Len(wire) = at[w]
        /\ \A i \in 1..w : \A j \in 1..Len(E[i]), k \in 1..Len(wire) :
              at[i - 1] + j = base + k => wire[k] = E[i][j]
    BY <1>1, Zenon DEF WireIs
  <1>3. ~broken' => base + Len(wire) = at[w]
    BY <1>2, Zenon
  <1> QED
    BY <1>1, <1>2, <1>3, ZenonT(60) DEF WireIs

\* Messages that are begun or copied, payloads that come to be shared and a change
\* of the write size leave the wire and the peer in step.
LEMMA WiredKept ==
    ASSUME Lists, Ended, Wired, Keeps, UNCHANGED <<connVars, peerVars>>
    PROVE  Wired'
  <1>2. /\ wire' = wire /\ broken' = broken /\ written' = written /\ sizes' = sizes
        /\ peerSize' = peerSize /\ prev' = prev /\ part' = part /\ read' = read /\ lost' = lost
    BY Zenon DEF connVars, peerVars
  <1>1. \A i \in 1..Len(written) :
              /\ written[i] \in 1..Len(msgs) /\ msgs'[written[i]] = msgs[written[i]]
              /\ Clean(i)' <=> Clean(i)
              /\ bodies[written[i]] \subseteq bodies'[written[i]]
    BY <1>2, CleanKept, Zenon
  <1> SUFFICES ASSUME Ahead'
               PROVE  \E E, P, at, base, a : Ghosts(E, P, at, base, a)'
    BY Zenon DEF Wired, Ghosts
  <1>3. Ahead
    BY <1>1, <1>2, Zenon DEF Ahead
  <1>4. PICK E, P, at, base, a : Ghosts(E, P, at, base, a)
    BY <1>3, Zenon DEF Wired, Ghosts
  <1>7. BytesAre(E, P)'
    <2> SUFFICES ASSUME NEW i \in 1..Len(written)
                 PROVE  /\ E[i] \in Seq(Nat)
                        /\ Clean(i)' => Encoded(E[i], P[i], msgs'[written[i]].hdr,
                                               bodies'[written[i]], sizes[i])
      BY <1>2, Zenon DEF BytesAre
    <2>1. /\ E[i] \in Seq(Nat)
          /\ Clean(i) => Encoded(E[i], P[i], msgs[written[i]].hdr, bodies[written[i]], sizes[i])
      BY <1>4, Zenon DEF Ghosts, BytesAre
    <2>2. Clean(i) => Encoded(E[i], P[i], msgs[written[i]].hdr, bodies'[written[i]], sizes[i])
      BY <2>1, <1>1, MadeMore, Zenon
    <2> QED
      BY <2>1, <2>2, <1>1, Zenon
  <1>8. WireIs(E, at, base)'
    <2>1. WireIs(E, at, base)
      BY <1>4, Zenon DEF Ghosts
    <2>2. broken => broken'
      BY <1>2, SMT
    <2> QED
      BY <2>1, <2>2, <1>2, WireStays, Zenon
  <1>9. PeerIs(P, at, base, a)'
    <2>1. PeerIs(P, at, base, a)
      BY <1>4, Zenon DEF Ghosts
    <2>2. ASSUME Len(read) < Len(written)
          PROVE  /\ Len(read) + 1 \in 1..Len(written)
                 /\ \A k \in PeerIds : PartIs(k, written[Len(read) + 1], a) =>
                                       PartIs(k, written[Len(read) + 1], a)'
      <3>1. Len(read) \in Nat /\ Len(written) \in Nat
        BY LenProperties, Zenon DEF Lists
      <3>2. Len(read) + 1 \in 1..Len(written)
        BY <2>2, <3>1, SMT
      <3> QED
        BY <3>2, <1>1, <1>2, Zenon DEF PartIs
    <2> QED
      BY <2>1, <2>2, <1>1, <1>2, Zenon DEF PeerIs
  <1>10. Ghosts(E, P, at, base, a)'
    BY <1>7, <1>8, <1>9, Zenon DEF Ghosts
  <1> QED
    BY <1>10, Zenon

\* ... and so is what was read.
LEMMA ArrivedKept ==
    ASSUME Lists, Ended, Arrived, Keeps, UNCHANGED <<written, sizes, read>>
    PROVE  Arrived'
  <1>1. \A i \in 1..Len(written) :
              /\ written[i] \in 1..Len(msgs) /\ msgs'[written[i]] = msgs[written[i]]
              /\ Clean(i)' <=> Clean(i)
              /\ bodies[written[i]] \subseteq bodies'[written[i]]
    BY CleanKept, Zenon
  <1>2. DOMAIN written = 1..Len(written) /\ Len(written) \in Nat
    BY LenProperties, Zenon DEF Lists
  <1> SUFFICES ASSUME NEW n \in DOMAIN read, n \in DOMAIN written, CleanUpTo(n)'
               PROVE  ReadAs(read[n], written[n])'
    BY Zenon DEF Arrived
  <1>3. n \in 1..Len(written) /\ \A i \in 1..n : i \in 1..Len(written)
    BY <1>2, SMT
  <1>4. CleanUpTo(n)
    <2>1. \A i \in 1..n : Clean(i)'
      BY Zenon DEF CleanUpTo, Clean
    <2>2. \A i \in 1..n : Clean(i)
      BY <2>1, <1>1, <1>3, Zenon
    <2> QED
      BY <2>2, Zenon DEF CleanUpTo, Clean
  <1>5. ReadAs(read[n], written[n])
    BY <1>4, Zenon DEF Arrived
  <1>6. /\ read'[n] = read[n] /\ written'[n] = written[n]
        /\ msgs'[written[n]] = msgs[written[n]] /\ bodies[written[n]] \subseteq bodies'[written[n]]
    BY <1>1, <1>3, Zenon
  <1> QED
    BY <1>5, <1>6, Zenon DEF ReadAs

-----------------------------------------------------------------------------
(* The wire: the end of a Write.                                           *)

\* A function with one more value.
Extended(f, lo, w, x) == [i \in lo..(w + 1) |-> IF i = w + 1 THEN x ELSE f[i]]

Extends(g, f, lo, w, x) == (\A i \in lo..w : g[i] = f[i]) /\ g[w + 1] = x

\* What it has.
LEMMA ExtendedIs ==
    ASSUME NEW f, NEW lo \in {0, 1}, NEW w \in Nat, NEW x
    PROVE  Extends(Extended(f, lo, w, x), f, lo, w, x)
  <1>1. /\ w + 1 \in lo..(w + 1) /\ \A i \in lo..w : i \in lo..(w + 1) /\ i # w + 1
    BY SMT
  <1> QED
    BY <1>1, Zenon DEF Extended, Extends

\* A message that Write has copied is the message as a peer wants it whose chunk
\* size it is cut to.
LEMMA BufferEncoded ==
    ASSUME Callings, NEW c \in Callers, cur[c] # 0, pos[c] = msgs[cur[c]].dlen,
           NEW z \in Sizes, Suits(cur[c], z)
    PROVE  \E P : Encoded(out[c], P, msgs[cur[c]].hdr, bodies[cur[c]], z)
  <1> DEFINE m == cur[c]
             h == msgs[m].hdr
  <1>0. Lists /\ Buffers
    BY Zenon DEF Callings
  <1>1. m \in 1..Len(msgs)
    BY <1>0, CurFacts, Zenon
  <1>2. h.len \in Nat /\ pos[c] = h.len
    BY <1>0, <1>1, MsgFacts, JobFacts, Zenon DEF Suits
  <1>3. ~(pos[c] < h.len)
    <2> HIDE DEF h
    <2> QED
      BY <1>2, SMT
  <1>4. PICK P : Made(out[c], P, h, bodies[m], z, pos[c])
    BY <1>0, Zenon DEF Buffers
  <1> QED
    BY <1>3, <1>4, Zenon DEF Made

\* A byte of an earlier message is not among the new ones ...
LEMMA NotPast ==
    ASSUME NEW u \in Int, NEW v \in Int, NEW l \in Int, NEW b \in Int, NEW x \in Int,
           NEW p \in Int, NEW q \in Int, NEW t \in Int,
           v = u + l, v <= t, b + x = t, p <= l, q >= 1, u + p = b + q
    PROVE  q \in 1..x
  BY SMT

IsSum(q, x, p) == q = x + p

\* ... and a byte of the new message is.
LEMMA IsPast ==
    ASSUME NEW t \in Int, NEW b \in Int, NEW x \in Int, NEW n \in Int, NEW p \in Int,
           NEW q \in Int, b + x = t, t + p = b + q, p >= 1, NEW y, y = x + n, q <= y
    PROVE  p \in 1..n /\ IsSum(q, x, p)
  BY SMT DEF IsSum

\* The bytes of a message behind those of the others.
LEMMA WireExtended ==
    ASSUME Lists, NEW E, NEW at, NEW base, WireIs(E, at, base), NEW o \in Seq(Nat), NEW m,
           NEW n \in 0..Len(o), ~broken, wire' = wire \o SubSeq(o, 1, n),
           Longer(written', written, m, Nat), ~broken' => n = Len(o), NEW w, w = Len(written)
    PROVE  WireIs(Extended(E, 1, w, o), Extended(at, 0, w, at[w] + Len(o)), base)'
  <1>1. /\ wire \in Seq(Nat) /\ base \in Nat
        /\ \A i \in 0..w : at[i] \in Nat /\ at[i] <= at[w]
        /\ \A i \in 1..w : at[i] = at[i - 1] + Len(E[i])
        /\ base + Len(wire) = at[w]
        /\ \A i \in 1..w : \A j \in 1..Len(E[i]), k \in 1..Len(wire) :
              at[i - 1] + j = base + k => wire[k] = E[i][j]
    BY Zenon DEF WireIs
  <1>2. w \in Nat /\ Len(written') = w + 1
    BY Zenon DEF Longer
  <1> DEFINE F == Extended(E, 1, w, o)
             to == Extended(at, 0, w, at[w] + Len(o))
             s == SubSeq(o, 1, n)
  <1>3. /\ \A i \in 1..w : F[i] = E[i]
        /\ F[w + 1] = o
        /\ \A i \in 0..w : to[i] = at[i]
        /\ to[w + 1] = at[w] + Len(o)
    <2>1. Extends(F, E, 1, w, o) /\ Extends(to, at, 0, w, at[w] + Len(o))
      BY <1>2, ExtendedIs, Zenon
    <2> QED
      BY <2>1, Zenon DEF Extends
  <1> HIDE DEF F, to
  <1>4. Len(o) \in Nat /\ n \in Nat /\ n <= Len(o) /\ Len(wire) \in Nat
    BY <1>1, SMTT(30)
  <1>5. s \in Seq(Nat) /\ Len(s) = n /\ \A i \in 1..n : s[i] = o[i]
    BY <1>4, SMTT(30)
  <1> HIDE DEF s
  <1>6. /\ wire' \in Seq(Nat) /\ Len(wire') = Len(wire) + n
        /\ \A i \in 1..Len(wire) : wire'[i] = wire[i]
        /\ \A i \in 1..n : wire'[Len(wire) + i] = o[i]
    <2>1. /\ wire \o s \in Seq(Nat) /\ Len(wire \o s) = Len(wire) + Len(s)
          /\ At(wire, wire \o s, 0) /\ At(s, wire \o s, Len(wire))
      BY <1>1, <1>5, TwoPlaces, Zenon
    <2>2. \A i \in 1..Len(wire) : 0 + i = i
      BY <1>4, SMTT(30)
    <2>3. wire' = wire \o s
      BY Zenon DEF s
    <2> QED
      BY <2>1, <2>2, <2>3, <1>5, Zenon DEF At
  <1>7. at[w] \in Nat /\ w \in 0..w /\ to[w] = at[w]
    <2>1. w \in 0..w
      BY <1>2, SMTT(30)
    <2> QED
      BY <2>1, <1>1, <1>3, Zenon
  <1>8. \A i \in 0..(w + 1) : i \in 0..w \/ i = w + 1
    BY <1>2, SMTT(30)
  <1>9. \A i \in 1..(w + 1) : i \in 1..w \/ i = w + 1
    BY <1>2, SMTT(30)
  <1>10. \A i \in 1..w : i - 1 \in 0..w /\ i \in 0..w
    BY <1>2, SMTT(30)
  <1>11. (w + 1) - 1 = w
    BY <1>2, SMTT(30)
  <1>12. ASSUME NEW i \in 0..(w + 1)
         PROVE  to[i] \in Nat /\ to[i] <= to[w + 1]
    <2>1. CASE i \in 0..w
      <3>1. to[i] = at[i] /\ at[i] \in Nat /\ at[i] <= at[w]
        BY <2>1, <1>1, <1>3, Zenon
      <3> QED
        BY <3>1, <1>3, <1>4, <1>7, SMTT(30)
    <2>2. CASE i = w + 1
      BY <2>2, <1>3, <1>4, <1>7, SMTT(30)
    <2> QED
      BY <2>1, <2>2, <1>8, Zenon
  <1>13. ASSUME NEW i \in 1..(w + 1)
         PROVE  to[i] = to[i - 1] + Len(F[i])
    <2>1. CASE i \in 1..w
      BY <2>1, <1>1, <1>3, <1>10, Zenon
    <2>2. CASE i = w + 1
      BY <2>2, <1>3, <1>7, <1>11, Zenon
    <2> QED
      BY <2>1, <2>2, <1>9, Zenon
  <1>14. /\ base + Len(wire') <= to[w + 1]
         /\ ~broken' => base + Len(wire') = to[w + 1]
    <2>1. base + Len(wire') = at[w] + n
      <3>1. PICK x, y, u : x = at[w] /\ y = Len(wire) /\ u = Len(wire')
        OBVIOUS
      <3>2. base \in Nat /\ base + y = x /\ u = y + n /\ y \in Nat /\ n \in Nat
        BY <3>1, <1>1, <1>4, <1>6, Zenon
      <3>3. base + u = x + n
        BY <3>2, SMTT(30)
      <3> QED
        BY <3>1, <3>3, Zenon
    <2>2. at[w] + n <= at[w] + Len(o)
      BY <1>4, <1>7, SMTT(30)
    <2> QED
      BY <2>1, <2>2, <1>3, Zenon
  <1>15. ASSUME NEW i \in 1..(w + 1), NEW j \in 1..Len(F[i]), NEW k \in 1..Len(wire'),
                to[i - 1] + j = base + k
         PROVE  wire'[k] = F[i][j]
    <2>1. CASE i \in 1..w
      <3>1. /\ F[i] = E[i] /\ to[i - 1] = at[i - 1] /\ at[i] = at[i - 1] + Len(E[i])
            /\ at[i] <= at[w] /\ at[i] \in Nat /\ at[i - 1] \in Nat
        BY <2>1, <1>1, <1>3, <1>10, Zenon
      <3>2. Len(E[i]) \in Int /\ j \in Nat /\ j <= Len(E[i]) /\ k \in Nat /\ k >= 1
        <4>1. j \in 1..Len(E[i])
          BY <3>1, Zenon
        <4> QED
          BY <3>1, <4>1, SMTT(30)
      <3>3. k \in 1..Len(wire)
        <4>1. base \in Nat /\ base + Len(wire) = at[w] /\ at[i - 1] + j = base + k
          BY <3>1, <1>1, <1>15, Zenon
        <4>2. /\ at[i - 1] \in Int /\ at[i] \in Int /\ at[w] \in Int /\ base \in Int
              /\ Len(wire) \in Int /\ j \in Int /\ k \in Int
          BY <4>1, <3>1, <3>2, <1>4, <1>7, SMTT(30)
        <4> QED
          BY <4>1, <4>2, <3>1, <3>2, NotPast, Zenon
      <3>4. wire'[k] = wire[k] /\ wire[k] = E[i][j]
        <4>1. at[i - 1] + j = base + k /\ j \in 1..Len(E[i])
          BY <3>1, <1>15, Zenon
        <4> QED
          BY <4>1, <3>3, <2>1, <1>1, <1>6, Zenon
      <3> QED
        BY <3>1, <3>4, Zenon
    <2>2. CASE i = w + 1
      <3>1. F[i] = o /\ to[i - 1] = at[w]
        BY <2>2, <1>3, <1>7, <1>11, Zenon
      <3>2. j \in 1..Len(o) /\ at[w] + j = base + k
        BY <3>1, <1>15, Zenon
      <3>3. k = Len(wire) + j /\ j \in 1..n
        <4>1. base \in Nat /\ base + Len(wire) = at[w] /\ Len(wire') = Len(wire) + n
          BY <1>1, <1>6, Zenon
        <4>2. /\ at[w] \in Int /\ base \in Int /\ Len(wire) \in Int /\ n \in Int
              /\ j \in Int /\ k \in Int /\ j >= 1 /\ k <= Len(wire')
          <5>1. Len(wire') \in Nat /\ Len(o) \in Nat
            BY <4>1, <1>4, SMTT(30)
          <5> QED
            BY <5>1, <4>1, <3>2, <1>4, <1>7, <1>15, SMTT(30)
        <4>3. j \in 1..n /\ IsSum(k, Len(wire), j)
          BY <4>1, <4>2, <3>2, IsPast, Zenon
        <4> QED
          BY <4>3, Zenon DEF IsSum
      <3> QED
        BY <3>1, <3>3, <1>6, Zenon
    <2> QED
      BY <2>1, <2>2, <1>9, Zenon
  <1>16. WireIs(F, to, base)'
    BY <1>1, <1>2, <1>6, <1>12, <1>13, <1>14, <1>15, Zenon DEF WireIs
  <1> QED
    BY <1>16, Zenon DEF F, to

\* The sizes, the messages and the peer, when the message of c is behind the others.
LEMMA GhostsExtended ==
    ASSUME Callings, NEW c \in Callers, NEW n, NEW res, EndDoes(c, n, res),
           Record(cur[c]), ~broken, Ahead',
           NEW E, NEW P, NEW at, NEW base, NEW a, Ghosts(E, P, at, base, a)
    PROVE  \E F, Q, to : Ghosts(F, Q, to, base, a)'
  <1>0. Lists /\ Sized
    BY Zenon DEF Callings
  <1>1. PICK w : w = Len(written)
    OBVIOUS
  <1>2. PICK m : m = cur[c]
    OBVIOUS
  <1>3. PICK o : o = out[c]
    OBVIOUS
  <1>4. /\ m # 0 /\ pos[c] = msgs[m].dlen /\ n \in 0..Len(o)
        /\ wire' = wire \o SubSeq(o, 1, n)
        /\ UNCHANGED <<msgs, bodies, pieces, peerVars>>
        /\ (~broken' => n = Len(o))
    <2>1. /\ m # 0 /\ pos[c] = msgs[m].dlen /\ res \in {"nil", "err"} /\ n \in 0..Len(o)
          /\ wire' = wire \o SubSeq(o, 1, n) /\ Return(c, res)
      BY <1>2, <1>3, Zenon DEF EndDoes
    <2>2. ~broken' => n = Len(o)
      BY <1>3, Zenon DEF EndDoes
    <2> QED
      BY <2>1, <2>2, <1>2, Zenon DEF Return
  <1>5. m \in 1..Len(msgs) /\ o \in Seq(Nat)
    BY <1>0, <1>2, <1>3, <1>4, CurFacts, Zenon
  <1>6. /\ Longer(written', written, m, Nat) /\ w \in Nat /\ Len(written') = w + 1
        /\ (\A i \in 1..w : written'[i] = written[i]) /\ written'[w + 1] = m
    <2>1. m \in Nat /\ written \in Seq(Nat)
      BY <1>0, <1>5, MsgFacts, Zenon DEF Lists
    <2>2. Longer(written', written, m, Nat)
      BY <2>1, <1>2, Appended, Zenon DEF Record
    <2> QED
      BY <2>2, <1>1, Zenon DEF Longer
  <1>7. /\ w \in 0..w /\ (w + 1) - 1 = w /\ (\A i \in 1..w : i \in 0..w /\ i - 1 \in 0..w)
        /\ (\A i \in 1..(w + 1) : i \in 1..w \/ i = w + 1)
        /\ (\A i \in 0..(w + 1) : i \in 0..w \/ i = w + 1) /\ 0 \in 0..w
        /\ (\A i \in 1..w : i \in 1..(w + 1)) /\ w + 1 \in 1..(w + 1)
    BY <1>6, SMT
  <1>8. BytesAre(E, P) /\ WireIs(E, at, base) /\ PeerIs(P, at, base, a)
    BY Zenon DEF Ghosts
  <1>9. sizes[w + 1] \in Sizes /\ \A i \in 1..(w + 1) : sizes'[i] = sizes[i]
    <2>1. sizes \in Seq(Sizes) /\ Len(sizes) = w + 1
      BY <1>0, <1>1, Zenon DEF Sized
    <2>2. sizes[w + 1] \in Sizes
      BY <2>1, <1>7, ElementOfSeq, Zenon
    <2>3. PICK x : sizes' = Append(sizes, x)
      BY Zenon DEF Record
    <2>4. Added(sizes', sizes, x)
      BY <2>1, <2>3, AddedIs, Zenon
    <2> QED
      BY <2>1, <2>2, <2>4, Zenon DEF Added
  <1>10. ASSUME NEW i \in 1..(w + 1)
         PROVE  Clean(i)' <=> Expressible(msgs[written'[i]], sizes[i]) /\ WellCut(written'[i], sizes[i])
    <2>1. sizes'[i] = sizes[i] /\ msgs' = msgs /\ pieces' = pieces
      BY <1>4, <1>9, Zenon
    <2> QED
      BY <2>1, Zenon DEF Clean, Expressible, WellCut
  <1>11. PICK p : Clean(w + 1)' => Encoded(o, p, msgs[m].hdr, bodies[m], sizes[w + 1])
    <2>1. ASSUME Clean(w + 1)'
          PROVE  \E p : Encoded(o, p, msgs[m].hdr, bodies[m], sizes[w + 1])
      <3>1. Expressible(msgs[m], sizes[w + 1]) /\ WellCut(m, sizes[w + 1])
        BY <2>1, <1>6, <1>7, <1>10, Zenon
      <3>2. Suits(m, sizes[w + 1])
        BY <3>1, Zenon DEF Suits, Expressible
      <3> QED
        BY <3>2, <1>2, <1>3, <1>4, <1>9, BufferEncoded, Zenon
    <2> QED
      BY <2>1, Zenon
  <1>12. PICK F : F = Extended(E, 1, w, o)
    OBVIOUS
  <1>13. PICK Q : Q = Extended(P, 1, w, p)
    OBVIOUS
  <1>15. PICK to : to = Extended(at, 0, w, at[w] + Len(o))
    OBVIOUS
  <1>16. /\ Extends(F, E, 1, w, o) /\ Extends(Q, P, 1, w, p)
         /\ Extends(to, at, 0, w, at[w] + Len(o))
    BY <1>6, <1>12, <1>13, <1>15, ExtendedIs, Zenon
  <1>19. BytesAre(F, Q)'
    <2> SUFFICES ASSUME NEW i \in 1..(w + 1)
                 PROVE  /\ F[i] \in Seq(Nat)
                        /\ Clean(i)' => Encoded(F[i], Q[i], msgs[written'[i]].hdr,
                                               bodies[written'[i]], sizes[i])
      BY <1>4, <1>6, <1>9, Zenon DEF BytesAre
    <2>1. CASE i \in 1..w
      <3>1. /\ E[i] \in Seq(Nat)
            /\ Clean(i) => Encoded(E[i], P[i], msgs[written[i]].hdr, bodies[written[i]], sizes[i])
        BY <2>1, <1>1, <1>8, Zenon DEF BytesAre
      <3>2. written'[i] = written[i] /\ F[i] = E[i] /\ Q[i] = P[i]
        BY <2>1, <1>6, <1>16, Zenon DEF Extends
      <3>3. Clean(i)' => Clean(i)
        BY <3>2, <1>10, Zenon DEF Clean
      <3> QED
        BY <3>1, <3>2, <3>3, Zenon
    <2>2. CASE i = w + 1
      <3>1. written'[i] = m /\ F[i] = o /\ Q[i] = p
        BY <2>2, <1>6, <1>16, Zenon DEF Extends
      <3> QED
        BY <3>1, <2>2, <1>5, <1>11, Zenon
    <2> QED
      BY <2>1, <2>2, <1>7, Zenon
  <1>20. WireIs(F, to, base)'
    <2>1. WireIs(Extended(E, 1, w, o), Extended(at, 0, w, at[w] + Len(o)), base)'
      BY <1>0, <1>1, <1>4, <1>5, <1>6, <1>8, WireExtended, Zenon
    <2> QED
      BY <2>1, <1>12, <1>15, Zenon
  <1>21. PeerIs(Q, to, base, a)'
    <2> DEFINE r == Len(read)
    <2>1. r \in Nat
      BY <1>0, LenProperties, Zenon DEF Lists
    <2>2. /\ read' = read /\ lost' = lost /\ peerSize' = peerSize /\ part' = part
          /\ prev' = prev /\ msgs' = msgs /\ bodies' = bodies
      BY <1>4, Zenon DEF peerVars
    <2>3. /\ r <= w /\ ~lost /\ peerSize = sizes[r + 1]
          /\ part \in [PeerIds -> Seq(Nat)] /\ DOMAIN prev = PeerIds
          /\ r = w => a = 0 /\ base = at[r] /\ \A k \in PeerIds : part[k] = <<>>
          /\ r < w => /\ a \in DOMAIN P[r + 1] /\ base = at[r] + P[r + 1][a]
                      /\ a # 0 => sizes[r + 1] < msgs[written[r + 1]].hdr.len
                      /\ \A k \in PeerIds :
                            IF k = msgs[written[r + 1]].hdr.id
                            THEN PartIs(k, written[r + 1], a) ELSE part[k] = <<>>
      BY <1>1, <1>8, Zenon DEF PeerIs
    <2> HIDE DEF r
    <2>4. r <= w + 1 /\ r # w + 1 /\ r < w + 1 /\ r \in 0..w /\ (r = w \/ r < w)
          /\ (r < w => r + 1 \in 1..w) /\ r + 1 \in 1..(w + 1)
      BY <2>1, <2>3, <1>6, SMT
    <2>5. sizes'[r + 1] = sizes[r + 1] /\ to[r] = at[r]
      BY <2>4, <1>9, <1>16, Zenon DEF Extends
    <2>6. \A k, i : PartIs(k, i, a)' <=> PartIs(k, i, a)
      BY <2>2, Zenon DEF PartIs
    <2>7. /\ a \in DOMAIN Q[r + 1] /\ base = to[r] + Q[r + 1][a]
          /\ a # 0 => sizes[r + 1] < msgs[written'[r + 1]].hdr.len
          /\ \A k \in PeerIds :
                IF k = msgs[written'[r + 1]].hdr.id
                THEN PartIs(k, written'[r + 1], a) ELSE part[k] = <<>>
      <3>1. CASE r < w
        <4>1. Q[r + 1] = P[r + 1] /\ written'[r + 1] = written[r + 1]
          BY <3>1, <2>4, <1>6, <1>16, Zenon DEF Extends
        <4> QED
          BY <3>1, <4>1, <2>3, <2>5, Zenon
      <3>2. CASE r = w
        <4>0. Clean(w + 1)'
          <5>1. w + 1 \in 1..Len(written') /\ w + 1 <= Len(read') + 1
            <6>1. w + 1 <= w + 1
              BY <1>6, SMT
            <6> QED
              BY <6>1, <3>2, <2>2, <1>6, <1>7, Zenon DEF r
          <5> QED
            BY <5>1, Zenon DEF Ahead
        <4>1. Q[r + 1] = p /\ 0 \in DOMAIN p /\ p[0] = 0 /\ a = 0 /\ base = at[r]
          BY <3>2, <4>0, <2>3, <1>11, <1>16, Zenon DEF Extends, Encoded, Placed
        <4>2. at[r] \in Nat
          BY <3>2, <1>1, <1>7, <1>8, Zenon DEF WireIs
        <4>3. base = to[r] + Q[r + 1][a]
          <5>1. at[r] = at[r] + 0
            BY <4>2, SMT
          <5> QED
            BY <4>1, <5>1, <2>5, Zenon
        <4>4. \A k \in PeerIds : PartIs(k, written'[r + 1], a)
          <5>1. Len(<<>>) = 0 /\ \A i \in 1..0 : FALSE
            BY EmptySeq, SMT
          <5> QED
            BY <3>2, <4>1, <5>1, <2>3, Zenon DEF PartIs
        <4> QED
          BY <3>2, <4>1, <4>3, <4>4, <2>3, Zenon
      <3> QED
        BY <3>1, <3>2, <2>4, Zenon
    <2> QED
      BY <2>2, <2>3, <2>4, <2>5, <2>6, <2>7, <1>6, Zenon DEF PeerIs, r
  <1>22. Ghosts(F, Q, to, base, a)'
    BY <1>19, <1>20, <1>21, Zenon DEF Ghosts
  <1> QED
    BY <1>22, Zenon

\* Whether a message is clean depends on these things only.
LEMMA CleanSame ==
    ASSUME NEW i, written'[i] = written[i], sizes'[i] = sizes[i],
           msgs'[written[i]] = msgs[written[i]], pieces'[written[i]] = pieces[written[i]]
    PROVE  Clean(i)' <=> Clean(i)
  <1>1. PICK m, z : m = written[i] /\ z = sizes[i]
    OBVIOUS
  <1>2. WellCut(m, z)' <=> WellCut(m, z)
    BY <1>1, Zenon DEF WellCut
  <1>3. Clean(i) <=> Expressible(msgs[m], z) /\ WellCut(m, z)
    BY <1>1, Zenon DEF Clean
  <1>4. Clean(i)' <=> Expressible(msgs'[m], z) /\ WellCut(m, z)'
    <2>1. Clean(i)' <=> Expressible(msgs[written[i]], sizes[i])' /\ WellCut(written[i], sizes[i])'
      BY Zenon DEF Clean
    <2>2. WellCut(written[i], sizes[i])' <=> WellCut(m, z)'
      BY <1>1, Zenon DEF WellCut
    <2>3. Expressible(msgs[written[i]], sizes[i])' <=> Expressible(msgs[written[i]], sizes[i])
      <3>1. PICK j, y : j = msgs[written[i]] /\ y = sizes[i]
        OBVIOUS
      <3>2. msgs'[written'[i]] = j /\ sizes'[i] = y
        BY <3>1, Zenon
      <3> QED
        BY <3>1, <3>2, SMT DEF Expressible
    <2> QED
      BY <2>1, <2>2, <2>3, <1>1, Zenon
  <1> QED
    BY <1>1, <1>2, <1>3, <1>4, Zenon

\* One more message on the wire changes none of the others.
LEMMA CleanLonger ==
    ASSUME Lists, Sized, NEW c \in Callers, cur[c] # 0, Record(cur[c]),
           UNCHANGED <<msgs, pieces>>
    PROVE  /\ Len(written) \in Nat /\ Len(written') = Len(written) + 1
           /\ DOMAIN written = 1..Len(written) /\ DOMAIN written' = 1..Len(written')
           /\ \A i \in 1..Len(written) : /\ i \in 1..Len(written') /\ written'[i] = written[i]
                                         /\ Clean(i)' <=> Clean(i)
  <1>1. Longer(written', written, cur[c], Nat)
    <2>1. cur[c] \in Nat /\ written \in Seq(Nat)
      BY CurFacts, MsgFacts, Zenon DEF Lists
    <2> QED
      BY <2>1, Appended, Zenon DEF Record
  <1>2. /\ Len(written) \in Nat /\ Len(written') = Len(written) + 1
        /\ DOMAIN written = 1..Len(written) /\ DOMAIN written' = 1..Len(written')
        /\ \A i \in 1..Len(written) : written'[i] = written[i]
    BY <1>1, Zenon DEF Longer
  <1>3. \A i \in 1..Len(written) : i \in 1..Len(written') /\ i \in 1..(Len(written) + 1)
    BY <1>2, SMT
  <1>4. \A i \in 1..Len(written) : sizes'[i] = sizes[i]
    <2>1. sizes \in Seq(Sizes) /\ Len(sizes) = Len(written) + 1
      BY Zenon DEF Sized
    <2>2. PICK x : sizes' = Append(sizes, x)
      BY Zenon DEF Record
    <2>3. Added(sizes', sizes, x)
      BY <2>1, <2>2, AddedIs, Zenon
    <2> QED
      BY <2>1, <2>3, <1>3, Zenon DEF Added
  <1>5. \A i \in 1..Len(written) : Clean(i)' <=> Clean(i)
    BY <1>2, <1>4, CleanSame, Zenon
  <1> QED
    BY <1>2, <1>3, <1>5, Zenon

\* The end of a Write leaves the wire and the peer in step.
LEMMA EndWired ==
    ASSUME Callings, Wired, NEW c \in Callers, NEW n, NEW res, EndDoes(c, n, res)
    PROVE  Wired'
  <1>0. Lists /\ Ended /\ Sized
    BY Zenon DEF Callings
  <1>1. /\ cur[c] # 0 /\ UNCHANGED <<msgs, bodies, pieces, peerVars>>
        /\ (n # 0 => ~broken) /\ (res = "nil" => ~broken) /\ res \in {"nil", "err"}
        /\ wire' = wire \o SubSeq(out[c], 1, n)
        /\ IF n = 0 /\ res = "err" THEN UNCHANGED <<written, sizes>> ELSE Record(cur[c])
        /\ broken' = (broken \/ res = "err")
    BY Zenon DEF EndDoes, Return
  <1>2. /\ read' = read /\ lost' = lost /\ peerSize' = peerSize /\ part' = part /\ prev' = prev
        /\ msgs' = msgs /\ bodies' = bodies /\ pieces' = pieces
    BY <1>1, Zenon DEF peerVars
  <1> SUFFICES ASSUME Ahead'
               PROVE  \E E, P, at, base, a : Ghosts(E, P, at, base, a)'
    BY Zenon DEF Wired, Ghosts
  <1>3. CASE n = 0 /\ res = "err"
    <2>1. written' = written /\ sizes' = sizes /\ broken'
      BY <1>1, <1>3, Zenon
    <2>2. \A i : Clean(i)' <=> Clean(i)
      BY <2>1, <1>2, Zenon DEF Clean, WellCut, Expressible
    <2>3. Ahead
      BY <2>1, <2>2, <1>2, Zenon DEF Ahead
    <2>4. PICK E, P, at, base, a : Ghosts(E, P, at, base, a)
      BY <2>3, Zenon DEF Wired, Ghosts
    <2>5. wire' = wire
      <3>1. wire \in Seq(Nat)
        BY <2>4, Zenon DEF Ghosts, WireIs
      <3>2. SubSeq(out[c], 1, n) = <<>>
        BY <1>3, SMT
      <3> QED
        BY <3>1, <3>2, <1>1, ConcatEmptySeq, Zenon
    <2>7. BytesAre(E, P)'
      BY <2>1, <2>2, <2>4, <1>2, Zenon DEF Ghosts, BytesAre
    <2>8. WireIs(E, at, base)'
      <3>1. WireIs(E, at, base)
        BY <2>4, Zenon DEF Ghosts
      <3> QED
        BY <3>1, <2>1, <2>5, WireStays, Zenon
    <2>9. PeerIs(P, at, base, a)'
      BY <2>1, <2>4, <1>2, Zenon DEF Ghosts, PeerIs, PartIs
    <2>10. Ghosts(E, P, at, base, a)'
      BY <2>7, <2>8, <2>9, Zenon DEF Ghosts
    <2> QED
      BY <2>10, Zenon
  <1>4. CASE ~(n = 0 /\ res = "err")
    <2>1. Record(cur[c]) /\ ~broken
      BY <1>1, <1>4, Zenon
    <2>2. \A i \in 1..Len(written) : i \in 1..Len(written') /\ (Clean(i)' <=> Clean(i))
      BY <2>1, <1>0, <1>1, <1>2, CleanLonger, Zenon
    <2>3. Ahead
      BY <2>2, <1>2, Zenon DEF Ahead
    <2>4. PICK E, P, at, base, a : Ghosts(E, P, at, base, a)
      BY <2>3, Zenon DEF Wired, Ghosts
    <2> QED
      BY <2>1, <2>4, GhostsExtended, Zenon
  <1> QED
    BY <1>3, <1>4, Zenon

\* ... and what was read as it was.
LEMMA EndArrived ==
    ASSUME Callings, Wired, Arrived, NEW c \in Callers, NEW n, NEW res, EndDoes(c, n, res)
    PROVE  Arrived'
  <1>0. Lists /\ Ended /\ Sized
    BY Zenon DEF Callings
  <1>1. /\ cur[c] # 0 /\ UNCHANGED <<msgs, bodies, pieces, read>>
        /\ (written' = written /\ sizes' = sizes) \/ Record(cur[c])
    BY Zenon DEF EndDoes, Return, peerVars
  <1>2. \A x, m : ReadAs(x, m)' <=> ReadAs(x, m)
    BY <1>1, Zenon DEF ReadAs
  <1>3. CASE written' = written /\ sizes' = sizes
    <2>1. \A i : Clean(i)' <=> Clean(i)
      BY <1>1, <1>3, CleanSame, Zenon
    <2> SUFFICES ASSUME NEW k \in DOMAIN read, k \in DOMAIN written, CleanUpTo(k)'
                 PROVE  ReadAs(read[k], written[k])
      BY <1>1, <1>2, <1>3, Zenon DEF Arrived
    <2>2. \A i \in 1..k : Clean(i)'
      BY Zenon DEF CleanUpTo, Clean
    <2>3. CleanUpTo(k)
      BY <2>1, <2>2, Zenon DEF CleanUpTo, Clean
    <2> QED
      BY <2>3, Zenon DEF Arrived
  <1>4. CASE Record(cur[c])
    <2>1. /\ Len(written) \in Nat /\ Len(written') = Len(written) + 1
          /\ DOMAIN written = 1..Len(written) /\ DOMAIN written' = 1..Len(written')
          /\ \A i \in 1..Len(written) : written'[i] = written[i] /\ (Clean(i)' <=> Clean(i))
      BY <1>0, <1>1, <1>4, CleanLonger, Zenon
    <2> SUFFICES ASSUME NEW k \in DOMAIN read, k \in DOMAIN written', CleanUpTo(k)'
                 PROVE  ReadAs(read[k], written'[k])
      BY <1>1, <1>2, Zenon DEF Arrived
    <2>2. \A i \in 1..k : Clean(i)'
      BY Zenon DEF CleanUpTo, Clean
    <2>4. k \in 1..Len(read) /\ Len(read) \in Nat
      BY <1>0, LenProperties, Zenon DEF Lists
    <2>5. k \in 1..Len(written) /\ \A i \in 1..k : i \in 1..Len(written)
      <3>1. ASSUME k \notin 1..Len(written)
            PROVE  FALSE
        <4>1. k = Len(written) + 1 /\ \A i \in 1..Len(written) : i \in 1..k
          BY <3>1, <2>1, SMT
        <4>2. Ahead
          BY <4>1, <2>1, <2>2, Zenon DEF Ahead
        <4>3. Len(read) <= Len(written)
          BY <4>2, ZenonT(60) DEF Wired, PeerIs
        <4> QED
          BY <4>1, <4>3, <2>1, <2>4, SMT
      <3> QED
        BY <3>1, <2>1, SMT
    <2>6. CleanUpTo(k)
      BY <2>1, <2>2, <2>5, Zenon DEF CleanUpTo, Clean
    <2> QED
      BY <2>1, <2>5, <2>6, Zenon DEF Arrived
  <1> QED
    BY <1>1, <1>3, <1>4, Zenon

-----------------------------------------------------------------------------
(* The peer.                                                               *)

\* The peer is at a chunk of message m, the i-th of the wire.
AtChunk(E, P, a, i, m, h, z) ==
    /\ i = Len(read) + 1 /\ i \in 1..Len(written) /\ i - 1 = Len(read)
    /\ m = written[i] /\ m \in 1..Len(msgs) /\ h = msgs[m].hdr /\ z = sizes[i]
    /\ z \in Sizes /\ Cuttable(h, a) /\ PeerAt(h, a, z)
    /\ ChunkNext(wire, E[i], P[i], h, bodies[m], z, a)

\* While what it reads can be expressed the peer is at a chunk, or at the end.
LEMMA AtChunkOrEnd ==
    ASSUME Callings, Ahead, NEW E, NEW P, NEW at, NEW base, NEW a,
           Ghosts(E, P, at, base, a), wire # <<>>
    PROVE  \E i, m, h, z : AtChunk(E, P, a, i, m, h, z)
  <1>0. Lists /\ Owners /\ Sized
    BY Zenon DEF Callings
  <1>1. PICK r : r = Len(read)
    OBVIOUS
  <1>2. PICK w : w = Len(written)
    OBVIOUS
  <1>3. r \in Nat /\ w \in Nat
    BY <1>0, <1>1, <1>2, LenProperties, Zenon DEF Lists
  <1>4. BytesAre(E, P) /\ WireIs(E, at, base) /\ PeerIs(P, at, base, a)
    BY Zenon DEF Ghosts
  <1>5. /\ wire \in Seq(Nat) /\ base \in Nat /\ base + Len(wire) <= at[w] /\ at[w] \in Nat
        /\ \A i \in 1..w : \A j \in 1..Len(E[i]), k \in 1..Len(wire) :
              at[i - 1] + j = base + k => wire[k] = E[i][j]
        /\ \A i \in 0..w : at[i] \in Nat
    <2>1. w \in 0..w
      BY <1>3, SMT
    <2> QED
      BY <2>1, <1>2, <1>4, Zenon DEF WireIs
  <1>6. /\ r <= w /\ peerSize = sizes[r + 1]
        /\ part \in [PeerIds -> Seq(Nat)]
        /\ r = w => base = at[r]
        /\ r < w => /\ a \in DOMAIN P[r + 1] /\ base = at[r] + P[r + 1][a]
                    /\ a # 0 => sizes[r + 1] < msgs[written[r + 1]].hdr.len
                    /\ \A k \in PeerIds :
                          IF k = msgs[written[r + 1]].hdr.id
                          THEN PartIs(k, written[r + 1], a) ELSE part[k] = <<>>
    BY <1>1, <1>2, <1>4, Zenon DEF PeerIs
  <1>7. r < w
    <2>1. Len(wire) \in Nat /\ Len(wire) # 0
      BY <1>5, EmptySeq, SMT
    <2>2. r # w
      <3> SUFFICES ASSUME r = w
                   PROVE  FALSE
        OBVIOUS
      <3>1. base = at[w]
        BY <1>6, Zenon
      <3> QED
        BY <2>1, <3>1, <1>5, SMT
    <2> QED
      BY <2>2, <1>3, <1>6, SMT
  <1>8. PICK i : i = r + 1
    OBVIOUS
  <1>9. i \in 1..w /\ i - 1 = r /\ i - 1 \in 0..w /\ i <= r + 1 /\ r \in 0..w
    BY <1>3, <1>7, <1>8, SMT
  <1>10. PICK m : m = written[i]
    OBVIOUS
  <1>11. PICK h : h = msgs[m].hdr
    OBVIOUS
  <1>12. PICK z : z = sizes[i]
    OBVIOUS
  <1>13. z \in Sizes /\ z \in Nat \ {0} /\ m \in 1..Len(msgs) /\ msgs[m] \in Jobs
         /\ bodies[m] \subseteq Nat
    <2>1. z \in Sizes
      <3>1. sizes \in Seq(Sizes) /\ Len(sizes) = w + 1
        BY <1>0, <1>2, Zenon DEF Sized
      <3>2. i \in 1..Len(sizes)
        BY <3>1, <1>3, <1>9, SMT
      <3> QED
        BY <3>1, <3>2, <1>12, ElementOfSeq, Zenon
    <2>2. m \in 1..Len(msgs)
      BY <1>0, <1>2, <1>9, <1>10, Zenon DEF Lists
    <2> QED
      BY <2>1, <2>2, <1>0, SizeFacts, MsgFacts, Zenon
  <1>14. Encoded(E[i], P[i], h, bodies[m], z) /\ Clean(i)
    BY <1>1, <1>2, <1>4, <1>9, <1>10, <1>11, <1>12, Zenon DEF BytesAre, Ahead
  <1>15. a \in DOMAIN P[i] /\ base = at[r] + P[i][a] /\ (a # 0 => z < h.len)
         /\ PartIs(h.id, m, a) /\ h.id \in PeerIds
    <2>1. h.id \in PeerIds
      BY <1>11, <1>13, JobFacts, Zenon
    <2> QED
      BY <2>1, <1>6, <1>7, <1>8, <1>10, <1>11, <1>12, Zenon
  <1>16. Cuttable(h, a)
    <2>1. Expressible(msgs[m], z)
      BY <1>10, <1>12, <1>14, Zenon DEF Clean
    <2>2. IsHeader(h) /\ h.len \in Nat
      BY <1>11, <1>13, JobFacts, Zenon
    <2>3. a # 0 => h.len > z
      BY <2>2, <1>13, <1>15, SMT
    <2>4. h.mfmt = 0 /\ Fitting(h) /\ 2 <= h.id /\ h.id < 320
      BY <2>1, <1>11, Zenon DEF Expressible
    <2>5. h.len > z => h.id < 64 /\ ~HasExtended(h.ts)
      BY <2>1, <1>11, Zenon DEF Expressible
    <2> QED
      BY <2>2, <2>3, <2>4, <2>5, Zenon DEF Cuttable, RtmpHeader
  <1>17. PeerAt(h, a, z)
    <2>1. part[h.id] \in Seq(Nat)
      BY <1>6, <1>15, Zenon
    <2> QED
      BY <2>1, <1>6, <1>8, <1>11, <1>12, <1>15, Zenon DEF PeerAt, PartIs
  <1>18. Shows(wire, E[i], P[i][a])
    <2> SUFFICES ASSUME NEW k \in 1..Len(wire), P[i][a] + k <= Len(E[i])
                 PROVE  wire[k] = E[i][P[i][a] + k]
      BY Zenon DEF Shows
    <2>1. P[i][a] \in Nat /\ E[i] \in Seq(Nat)
      BY <1>14, <1>15, Zenon DEF Encoded, Placed
    <2>2. at[r] \in Nat /\ Len(E[i]) \in Nat /\ k \in Nat /\ k >= 1
      <3>1. Len(E[i]) \in Nat /\ Len(wire) \in Nat
        BY <2>1, <1>5, LenProperties, Zenon
      <3> QED
        BY <3>1, <1>5, <1>9, SMT
    <2>3. P[i][a] + k \in 1..Len(E[i])
      BY <2>1, <2>2, SMTT(30)
    <2>4. at[r] + (P[i][a] + k) = (at[r] + P[i][a]) + k
      BY <2>1, <2>2, SMT
    <2> QED
      BY <2>3, <2>4, <1>5, <1>9, <1>15, Zenon
  <1>19. ChunkNext(wire, E[i], P[i], h, bodies[m], z, a)
    BY <1>5, <1>13, <1>14, <1>15, <1>18, Zenon DEF ChunkNext
  <1>20. AtChunk(E, P, a, i, m, h, z)
    BY <1>1, <1>2, <1>8, <1>9, <1>10, <1>11, <1>12, <1>13, <1>16, <1>17, <1>19, Zenon DEF AtChunk
  <1> QED
    BY <1>20, Zenon

\* While what it reads can be expressed the peer finds chunks.
LEMMA NotLost ==
    ASSUME Callings, Wired, Ahead
    PROVE  HeaderOk(wire) /\ ChunkOk(wire)
  <1>1. PICK E, P, at, base, a : Ghosts(E, P, at, base, a)
    BY Zenon DEF Wired, Ghosts
  <1>2. CASE wire = <<>>
    <2>1. ~Complete(wire)
      BY <1>2, Zenon DEF Complete
    <2> QED
      BY <2>1, <1>2, Zenon DEF HeaderOk, ChunkOk
  <1>3. CASE wire # <<>>
    <2>1. PICK i, m, h, z : AtChunk(E, P, a, i, m, h, z)
      BY <1>1, <1>3, AtChunkOrEnd, Zenon
    <2>2. Cuttable(h, a) /\ PeerAt(h, a, z) /\ ChunkNext(wire, E[i], P[i], h, bodies[m], z, a)
      BY <2>1, Zenon DEF AtChunk
    <2>3. ChunkFound(wire, h, a, z)
      BY <2>2, ChunkSeen, Zenon
    <2> QED
      BY <2>3, Zenon DEF ChunkFound
  <1> QED
    BY <1>2, <1>3, Zenon

\* The chunk at a has l bytes of header and n of payload.
ChunkIs(h, a, z, l, n) ==
    l \in Nat /\ l = Len(Lead(h, a)) /\ n \in Nat /\ n = Span(h, a, z) /\ a \in Nat

\* The peer reads a chunk: l bytes of header and n of payload, which give it data of
\* the message with header h.
ReadDoes(h, l, n, data) ==
    /\ data = part[h.id] \o SubSeq(wire, l + 1, l + n)
    /\ l + n <= Len(wire) /\ wire' = SubSeq(wire, l + n + 1, Len(wire))
    /\ prev' = [prev EXCEPT ![h.id] = Carried(h)]
    /\ part' = [part EXCEPT ![h.id] = IF Len(data) = h.len THEN <<>> ELSE data]
    /\ read' = IF Len(data) = h.len THEN Append(read, [hdr |-> Carried(h), data |-> data])
               ELSE read
    /\ peerSize' = IF Len(data) = h.len /\ h.type = SetChunkSize
                   THEN Told(data) ELSE peerSize
    /\ UNCHANGED <<callVars, writeSize, broken, written, sizes, lost>>

\* The same in the words of PeerReads, with the header g that it completed.
ReadBy(g, l, n) ==
    LET data == part[g.id] \o SubSeq(wire, l + 1, l + n)
        whole == Len(data) = g.len
    IN  /\ Len(wire) >= l + n
        /\ wire' = SubSeq(wire, l + n + 1, Len(wire))
        /\ prev' = [prev EXCEPT ![g.id] = g]
        /\ part' = [part EXCEPT ![g.id] = IF whole THEN <<>> ELSE data]
        /\ read' = IF whole THEN Append(read, [hdr |-> g, data |-> data]) ELSE read
        /\ peerSize' = IF whole /\ g.type = SetChunkSize THEN Told(data) ELSE peerSize

\* That is what PeerReads does at a chunk.
LEMMA ReadFacts ==
    ASSUME PeerReads, NEW h, NEW a, Cuttable(h, a), NEW z, ChunkFound(wire, h, a, z),
           NEW l, NEW n, ChunkIs(h, a, z, l, n)
    PROVE  \E data : ReadDoes(h, l, n, data)
  <1>1. /\ PeerHeaderLen(wire) = l /\ RtmpRead(wire).id = h.id
        /\ Completed(RtmpRead(wire)) = Carried(h) /\ PayloadWanted(RtmpRead(wire)) = n
    <2>1. Complete(wire)
      BY Zenon DEF PeerReads
    <2> QED
      BY <2>1, Zenon DEF ChunkFound, ChunkIs
  <1>2. Carried(h).id = h.id /\ Carried(h).len = h.len /\ Carried(h).type = h.type
    BY CarriedFull, Zenon DEF Cuttable
  <1>3. PICK g : g = Carried(h)
    OBVIOUS
  <1>4. PICK data : data = part[h.id] \o SubSeq(wire, l + 1, l + n)
    OBVIOUS
  <1>5. \E rr \in {RtmpRead(wire)}, from \in {PeerHeaderLen(wire)} :
        \E hh \in {Completed(rr)}, nn \in {PayloadWanted(rr)} : ReadBy(hh, from, nn)
    BY Zenon DEF PeerReads, ReadBy
  <1>6. ReadBy(Completed(RtmpRead(wire)), PeerHeaderLen(wire), PayloadWanted(RtmpRead(wire)))
    BY <1>5, Zenon
  <1>7. ReadBy(g, l, n)
    BY <1>1, <1>3, <1>6, Zenon
  <1>8. g.id = h.id /\ g.len = h.len /\ g.type = h.type
    BY <1>2, <1>3, Zenon
  <1>9. Len(wire) >= l + n <=> l + n <= Len(wire)
    BY SMT
  <1>10. UNCHANGED <<callVars, writeSize, broken, written, sizes, lost>>
    BY Zenon DEF PeerReads
  <1>11. ReadDoes(h, l, n, data)
    BY <1>3, <1>4, <1>7, <1>8, <1>9, <1>10, SMT DEF ReadDoes, ReadBy
  <1> QED
    BY <1>11, Zenon

\* data is s with the bytes l + 1 to l + n of w behind it.
JoinOf(data, s, w, l, n) ==
    /\ data \in Seq(Nat) /\ Len(data) = Len(s) + n
    /\ \A i \in 1..Len(s) : data[i] = s[i]
    /\ \A i \in 1..n : data[Len(s) + i] = w[l + i]

\* That is what is made of them.
LEMMA JoinedIs ==
    ASSUME NEW s \in Seq(Nat), NEW w \in Seq(Nat), NEW l \in Nat, NEW n \in Nat, l + n <= Len(w)
    PROVE  JoinOf(s \o SubSeq(w, l + 1, l + n), s, w, l, n)
  <1>1. Len(w) \in Nat /\ Len(s) \in Nat
    BY LenProperties, Zenon
  <1>2. /\ SubSeq(w, l + 1, l + n) \in Seq(Nat) /\ Len(SubSeq(w, l + 1, l + n)) = n
        /\ \A i \in 1..n : SubSeq(w, l + 1, l + n)[i] = w[l + i]
    BY <1>1, SMT
  <1>3. PICK t \in Seq(Nat) : t = SubSeq(w, l + 1, l + n)
    BY <1>2, Zenon
  <1>4. Len(t) = n /\ \A i \in 1..n : t[i] = w[l + i]
    BY <1>2, <1>3, Zenon
  <1>5. PICK u, k : u = s \o t /\ k = Len(s)
    OBVIOUS
  <1>6. /\ u \in Seq(Nat) /\ Len(u) = k + n
        /\ \A i \in 1..(k + n) : u[i] = IF i <= k THEN s[i] ELSE t[i - k]
    BY <1>4, <1>5, ConcatProperties, ZenonT(60)
  <1>7. k \in Nat
    BY <1>1, <1>5, Zenon
  <1>8. /\ \A i \in 1..k : i \in 1..(k + n) /\ i <= k
        /\ \A i \in 1..n : k + i \in 1..(k + n) /\ ~(k + i <= k) /\ (k + i) - k = i
    BY <1>7, SMT
  <1>9. /\ \A i \in 1..k : u[i] = s[i]
        /\ \A i \in 1..n : u[k + i] = w[l + i]
    BY <1>4, <1>6, <1>8, Zenon
  <1>10. JoinOf(u, s, w, l, n)
    BY <1>5, <1>6, <1>9, Zenon DEF JoinOf
  <1> QED
    BY <1>3, <1>5, <1>10, Zenon

\* What is left of w without its first q bytes.
LeftOf(v, w, q) ==
    /\ v \in Seq(Nat) /\ Len(v) = Len(w) - q
    /\ \A k \in 1..Len(v) : q + k \in 1..Len(w) /\ v[k] = w[q + k]

\* That is what SubSeq makes.
LEMMA LeftIs ==
    ASSUME NEW w \in Seq(Nat), NEW q \in Nat, q <= Len(w)
    PROVE  LeftOf(SubSeq(w, q + 1, Len(w)), w, q)
  <1>1. PICK k : k = Len(w)
    OBVIOUS
  <1>2. k \in Nat /\ q <= k
    BY <1>1, LenProperties, Zenon
  <1>3. PICK v : v = SubSeq(w, q + 1, k)
    OBVIOUS
  <1>4. v \in Seq(Nat) /\ Len(v) = k - q
    BY <1>1, <1>2, <1>3, SMT
  <1>5. \A j \in 1..(k - q) : q + j \in 1..k
    BY <1>2, SMT
  <1>6. \A j \in 1..(k - q) : v[j] = w[q + j]
    BY <1>1, <1>2, <1>3, SMT
  <1>7. LeftOf(v, w, q)
    BY <1>1, <1>4, <1>5, <1>6, Zenon DEF LeftOf
  <1> QED
    BY <1>1, <1>3, <1>7, Zenon

\* The place of a byte after q others.
LEMMA PlaceIs ==
    ASSUME NEW base \in Nat, NEW q \in Nat, NEW x \in Nat
    PROVE  /\ (base + q) + (x - q) = base + x /\ base + q \in Nat
           /\ (base + q) + x = base + (q + x)
  BY SMT

\* The wire without the first q bytes.
LEMMA WireRead ==
    ASSUME NEW E, NEW at, NEW base, WireIs(E, at, base), NEW q \in Nat, q <= Len(wire),
           wire' = SubSeq(wire, q + 1, Len(wire)), written' = written, broken' = broken
    PROVE  WireIs(E, at, base + q)'
  <1>1. PICK w : w = Len(written)
    OBVIOUS
  <1>2. /\ wire \in Seq(Nat) /\ base \in Nat
        /\ \A i \in 0..w : at[i] \in Nat /\ at[i] <= at[w]
        /\ \A i \in 1..w : at[i] = at[i - 1] + Len(E[i])
        /\ base + Len(wire) <= at[w]
        /\ ~broken => base + Len(wire) = at[w]
        /\ \A i \in 1..w : \A j \in 1..Len(E[i]), k \in 1..Len(wire) :
              at[i - 1] + j = base + k => wire[k] = E[i][j]
    BY <1>1, Zenon DEF WireIs
  <1>3. LeftOf(wire', wire, q)
    BY <1>2, LeftIs, Zenon
  <1>4. Len(wire') = Len(wire) - q /\ Len(wire) \in Nat /\ wire' \in Seq(Nat)
        /\ \A k \in 1..Len(wire') : q + k \in 1..Len(wire) /\ wire'[k] = wire[q + k]
    BY <1>2, <1>3, LenProperties, Zenon DEF LeftOf
  <1>5. (base + q) + Len(wire') = base + Len(wire) /\ base + q \in Nat
    <2>1. PICK x \in Nat : x = Len(wire)
      BY <1>4, Zenon
    <2>2. (base + q) + (x - q) = base + x /\ base + q \in Nat
      BY <1>2, SMT
    <2> QED
      BY <2>1, <2>2, <1>4, Zenon
  <1>6. \A k \in 1..Len(wire') : (base + q) + k = base + (q + k)
    <2>1. \A k \in 1..Len(wire') : k \in Nat
      BY <1>4, SMT
    <2> QED
      BY <2>1, <1>2, PlaceIs, Zenon
  <1>7. ASSUME NEW i \in 1..w, NEW j \in 1..Len(E[i]), NEW k \in 1..Len(wire'),
               at[i - 1] + j = (base + q) + k
        PROVE  wire'[k] = E[i][j]
    <2>1. at[i - 1] + j = base + (q + k)
      BY <1>6, <1>7, Zenon
    <2> QED
      BY <2>1, <1>2, <1>4, Zenon
  <1>8. /\ wire' \in Seq(Nat) /\ base + q \in Nat
        /\ \A i \in 0..w : at[i] \in Nat /\ at[i] <= at[w]
        /\ \A i \in 1..w : at[i] = at[i - 1] + Len(E[i])
        /\ (base + q) + Len(wire') <= at[w]
        /\ ~broken => (base + q) + Len(wire') = at[w]
        /\ \A i \in 1..w : \A j \in 1..Len(E[i]), k \in 1..Len(wire') :
              at[i - 1] + j = (base + q) + k => wire'[k] = E[i][j]
    BY <1>2, <1>4, <1>5, <1>7, Zenon
  <1> QED
    BY <1>1, <1>8, Zenon DEF WireIs

\* The first x bytes of the payload of message m.
Payload(data, m, x) ==
    /\ data \in Seq(Nat) /\ Len(data) = x
    /\ \A i \in 1..x : \E y \in bodies[m] : data[i] = Byte(y, i)

\* What the peer has after a chunk is what it had and the payload of the chunk.
LEMMA DataIs ==
    ASSUME Callings, NEW E, NEW P, NEW a, NEW i, NEW m, NEW h, NEW z,
           AtChunk(E, P, a, i, m, h, z), PartIs(h.id, m, a),
           NEW l, NEW n, ChunkIs(h, a, z, l, n),
           NEW data, ReadDoes(h, l, n, data)
    PROVE  Payload(data, m, a + n)
  <1>1. /\ wire \in Seq(Nat) /\ Encoded(E[i], P[i], h, bodies[m], z) /\ a \in DOMAIN P[i]
        /\ Shows(wire, E[i], P[i][a]) /\ part[h.id] \in Seq(Nat) /\ Len(part[h.id]) = a
    BY Zenon DEF AtChunk, ChunkNext, PeerAt
  <1>2. E[i] \in Seq(Nat) /\ P[i][a] \in Nat /\ ChunkAt(E[i], P[i][a], h, bodies[m], a, z)
    BY <1>1, Zenon DEF Encoded, Placed, Linked
  <1>0. l \in Nat /\ n \in Nat /\ a \in Nat /\ l = Len(Lead(h, a)) /\ n = Span(h, a, z)
    BY Zenon DEF ChunkIs
  <1>3. PICK p : p = P[i][a]
    OBVIOUS
  <1>4. /\ p \in Nat /\ Len(wire) \in Nat /\ Len(E[i]) \in Nat /\ p + l + n <= Len(E[i])
        /\ \A k \in 1..n : \E y \in bodies[m] : E[i][p + l + k] = Byte(y, a + k)
        /\ l + n <= Len(wire)
        /\ \A j \in 1..Len(wire) : p + j <= Len(E[i]) => wire[j] = E[i][p + j]
    <2>1. p \in Nat /\ Len(wire) \in Nat /\ Len(E[i]) \in Nat
      BY <1>1, <1>2, <1>3, LenProperties, Zenon
    <2>2. p + l + n <= Len(E[i])
      BY <1>0, <1>2, <1>3, Zenon DEF ChunkAt, Past
    <2>3. \A k \in 1..n : \E y \in bodies[m] : E[i][p + l + k] = Byte(y, a + k)
      BY <1>0, <1>2, <1>3, Zenon DEF ChunkAt
    <2>4. l + n <= Len(wire)
      BY Zenon DEF ReadDoes
    <2>5. \A j \in 1..Len(wire) : p + j <= Len(E[i]) => wire[j] = E[i][p + j]
      BY <1>1, <1>3, Zenon DEF Shows
    <2> QED
      BY <2>1, <2>2, <2>3, <2>4, <2>5, Zenon
  <1>5. /\ data \in Seq(Nat) /\ Len(data) = a + n
        /\ \A k \in 1..a : data[k] = part[h.id][k]
        /\ \A k \in 1..n : data[a + k] = wire[l + k]
    <2>1. JoinOf(data, part[h.id], wire, l, n)
      BY <1>0, <1>1, <1>4, JoinedIs, Zenon DEF ReadDoes
    <2> QED
      BY <2>1, <1>1, Zenon DEF JoinOf
  <1>7. l \in Nat /\ n \in Nat /\ a \in Nat
    BY <1>0, Zenon
  <1>6. ASSUME NEW k \in 1..(a + n)
        PROVE  \E y \in bodies[m] : data[k] = Byte(y, k)
    <2>1. CASE k <= a
      <3>1. k \in 1..a
        BY <2>1, <1>7, SMT
      <3> QED
        BY <3>1, <1>5, Zenon DEF PartIs
    <2>2. CASE ~(k <= a)
      <3>1. PICK d : d = k - a
        OBVIOUS
      <3>0. /\ p \in Nat /\ Len(wire) \in Nat /\ Len(E[i]) \in Nat
            /\ p + l + n <= Len(E[i]) /\ l + n <= Len(wire)
        BY <1>4, Zenon
      <3>2. d \in 1..n /\ a + d = k /\ l + d \in 1..Len(wire) /\ p + (l + d) <= Len(E[i])
            /\ p + (l + d) = p + l + d
        BY <2>2, <3>0, <3>1, <1>7, SMT
      <3>3. data[k] = wire[l + d] /\ wire[l + d] = E[i][p + (l + d)]
        BY <3>2, <1>4, <1>5, Zenon
      <3>4. PICK y \in bodies[m] : E[i][p + l + d] = Byte(y, a + d)
        BY <3>2, <1>4, Zenon
      <3>5. data[k] = Byte(y, k)
        BY <3>2, <3>3, <3>4, Zenon
      <3> QED
        BY <3>5, Zenon
    <2> QED
      BY <2>1, <2>2, Zenon
  <1> QED
    BY <1>5, <1>6, Zenon DEF Payload

\* Reading a chunk leaves alone what was written.
LEMMA ReadKeeps ==
    ASSUME Callings, NEW E, NEW P, NEW at, NEW base, NEW a, Ghosts(E, P, at, base, a),
           NEW h, NEW l \in Nat, NEW n \in Nat, NEW data, ReadDoes(h, l, n, data)
    PROVE  BytesAre(E, P)' /\ WireIs(E, at, base + (l + n))'
  <1>1. BytesAre(E, P) /\ WireIs(E, at, base)
    BY Zenon DEF Ghosts
  <1>2. /\ msgs' = msgs /\ bodies' = bodies /\ pieces' = pieces /\ broken' = broken
        /\ written' = written /\ sizes' = sizes
        /\ l + n <= Len(wire) /\ wire' = SubSeq(wire, l + n + 1, Len(wire))
    BY Zenon DEF ReadDoes, callVars
  <1>3. \A i : Clean(i)' <=> Clean(i)
    BY <1>2, CleanSame, Zenon
  <1>4. BytesAre(E, P)'
    BY <1>1, <1>2, <1>3, Zenon DEF BytesAre
  <1>5. PICK q : q = l + n
    OBVIOUS
  <1>6. q \in Nat
    BY <1>5, SMT
  <1>7. WireIs(E, at, base + q)'
    BY <1>1, <1>2, <1>5, <1>6, WireRead, Zenon
  <1> QED
    BY <1>4, <1>5, <1>7, Zenon

\* What the ghosts say of the message that the peer is in.
LEMMA InMessage ==
    ASSUME NEW E, NEW P, NEW at, NEW base, NEW a, Ghosts(E, P, at, base, a),
           NEW i, NEW m, NEW h, NEW z, AtChunk(E, P, a, i, m, h, z), Callings
    PROVE  /\ base = at[i - 1] + P[i][a] /\ PartIs(h.id, m, a) /\ ~lost
           /\ \A k \in PeerIds : k # h.id => part[k] = <<>>
           /\ part \in [PeerIds -> Seq(Nat)] /\ DOMAIN prev = PeerIds /\ h.id \in PeerIds
  <1>1. PICK r : r = Len(read)
    OBVIOUS
  <1>2. PICK w : w = Len(written)
    OBVIOUS
  <1>3. /\ i = r + 1 /\ i \in 1..w /\ i - 1 = r /\ m = written[i] /\ h = msgs[m].hdr
        /\ h.id \in PeerIds
    BY <1>1, <1>2, Zenon DEF AtChunk, PeerAt
  <1>4. w \in Nat /\ r \in Nat
    BY <1>1, <1>2, LenProperties, Zenon DEF Callings, Lists
  <1>5. r < w
    BY <1>3, <1>4, SMT
  <1>6. PeerIs(P, at, base, a)
    BY Zenon DEF Ghosts
  <1>7. /\ ~lost /\ part \in [PeerIds -> Seq(Nat)] /\ DOMAIN prev = PeerIds
        /\ base = at[r] + P[i][a]
        /\ \A k \in PeerIds : IF k = msgs[written[i]].hdr.id THEN PartIs(k, written[i], a)
                              ELSE part[k] = <<>>
    BY <1>1, <1>2, <1>3, <1>5, <1>6, Zenon DEF PeerIs
  <1> QED
    BY <1>3, <1>7, Zenon

\* A chunk that is not the last of its message takes the peer to the next one.
LEMMA ReadPart ==
    ASSUME Callings, NEW E, NEW P, NEW at, NEW base, NEW a, Ghosts(E, P, at, base, a),
           NEW i, NEW m, NEW h, NEW z, AtChunk(E, P, a, i, m, h, z),
           NEW l, NEW n, ChunkIs(h, a, z, l, n),
           NEW data, ReadDoes(h, l, n, data), a + n # h.len
    PROVE  Ghosts(E, P, at, base + (l + n), a + n)'
  <1>0. Lists
    BY Zenon DEF Callings
  <1>1. /\ base = at[i - 1] + P[i][a] /\ PartIs(h.id, m, a) /\ ~lost
        /\ \A k \in PeerIds : k # h.id => part[k] = <<>>
        /\ part \in [PeerIds -> Seq(Nat)] /\ DOMAIN prev = PeerIds /\ h.id \in PeerIds
    BY InMessage, Zenon
  <1>2. data \in Seq(Nat) /\ Len(data) = a + n
        /\ \A k \in 1..(a + n) : \E y \in bodies[m] : data[k] = Byte(y, k)
    <2>1. Payload(data, m, a + n)
      BY <1>1, DataIs, Zenon
    <2> QED
      BY <2>1, Zenon DEF Payload
  <1>3. /\ prev' = [prev EXCEPT ![h.id] = Carried(h)] /\ part' = [part EXCEPT ![h.id] = data]
        /\ read' = read /\ peerSize' = peerSize
        /\ msgs' = msgs /\ bodies' = bodies /\ written' = written /\ sizes' = sizes
        /\ lost' = lost
    BY <1>2, Zenon DEF ReadDoes, callVars
  <1>19. l \in Nat /\ n \in Nat /\ a \in Nat
    BY Zenon DEF ChunkIs
  <1>4. PICK r : r = Len(read)
    OBVIOUS
  <1>5. PICK w : w = Len(written)
    OBVIOUS
  <1>6. /\ i = r + 1 /\ i \in 1..w /\ i - 1 = r /\ m = written[i] /\ h = msgs[m].hdr
        /\ z = sizes[i] /\ z \in Nat \ {0} /\ IsHeader(h)
        /\ Encoded(E[i], P[i], h, bodies[m], z) /\ a \in DOMAIN P[i]
    BY <1>4, <1>5, Zenon DEF AtChunk, ChunkNext, Cuttable
  <1>7. w \in Nat /\ r \in Nat
    BY <1>0, <1>4, <1>5, LenProperties, Zenon DEF Lists
  <1>8. r < w /\ ~(r = w) /\ r <= w
    BY <1>6, <1>7, SMT
  <1>9. P[i][a] \in Nat /\ (a = 0 \/ a < h.len) /\ Linked(E[i], P[i], h, bodies[m], z, a)
    BY <1>6, Zenon DEF Encoded, Placed
  <1>10. h.len \in Nat /\ a + n <= h.len /\ (a + n < h.len => n = z)
    <2>1. n = Span(h, a, z)
      BY Zenon DEF ChunkIs
    <2> QED
      BY <2>1, <1>6, <1>9, <1>19, SpanIs, SMT
  <1>11. a + n < h.len /\ z < h.len
    BY <1>6, <1>10, <1>19, SMT
  <1>12. a + n \in DOMAIN P[i] /\ P[i][a + n] = P[i][a] + l + n
    BY <1>9, <1>11, Zenon DEF Linked, Past, ChunkIs
  <1>13. base + (l + n) = at[r] + P[i][a + n]
    <2>1. at[r] \in Nat
      <3>1. r \in 0..w
        BY <1>7, <1>8, SMT
      <3> QED
        BY <3>1, <1>5, Zenon DEF Ghosts, WireIs
    <2>2. PICK x, p : x = at[r] /\ p = P[i][a]
      OBVIOUS
    <2>3. (x + p) + (l + n) = x + (p + l + n)
      BY <2>1, <2>2, <1>9, <1>19, SMT
    <2> QED
      BY <2>2, <2>3, <1>1, <1>6, <1>12, Zenon
  <1>14. /\ peerSize = sizes[i] /\ Len(read) <= Len(written)
    BY <1>4, <1>6, Zenon DEF Ghosts, PeerIs
  <1>15. ASSUME NEW k \in PeerIds
         PROVE  IF k = h.id THEN PartIs(k, m, a + n)' ELSE part'[k] = <<>>
    <2>1. CASE k = h.id
      <3>1. part'[k] = data /\ prev'[k] = Carried(h)
        BY <2>1, <1>1, <1>3, Zenon
      <3> QED
        BY <2>1, <3>1, <1>2, <1>3, <1>6, Zenon DEF PartIs
    <2>2. CASE k # h.id
      <3>1. part'[k] = part[k]
        BY <2>2, <1>1, <1>3, Zenon
      <3> QED
        BY <2>2, <3>1, <1>1, Zenon
    <2> QED
      BY <2>1, <2>2, Zenon
  <1>16. part' \in [PeerIds -> Seq(Nat)] /\ DOMAIN prev' = PeerIds
    BY <1>1, <1>2, <1>3, Zenon
  <1>17. Len(read') = r /\ Len(written') = w
    BY <1>3, <1>4, <1>5, Zenon
  <1>18. PeerIs(P, at, base + (l + n), a + n)'
    <2>1. /\ Len(read') <= Len(written') /\ ~lost' /\ peerSize' = sizes'[Len(read') + 1]
      BY <1>1, <1>3, <1>6, <1>8, <1>14, <1>17, Zenon
    <2>2. /\ a + n \in DOMAIN P[Len(read') + 1]
          /\ base + (l + n) = at[Len(read')] + P[Len(read') + 1][a + n]
          /\ sizes'[Len(read') + 1] < msgs'[written'[Len(read') + 1]].hdr.len
      BY <1>3, <1>6, <1>11, <1>12, <1>13, <1>17, Zenon
    <2>3. \A k \in PeerIds :
             IF k = msgs'[written'[Len(read') + 1]].hdr.id
             THEN PartIs(k, written[Len(read) + 1], a + n)' ELSE part'[k] = <<>>
      BY <1>3, <1>4, <1>6, <1>15, <1>17, Zenon
    <2>4. Len(read') # Len(written')
      BY <1>8, <1>17, Zenon
    <2> QED
      BY <2>1, <2>2, <2>3, <2>4, <1>16, Zenon DEF PeerIs
  <1> QED
    BY <1>18, <1>19, ReadKeeps, Zenon DEF Ghosts

\* The message that a byte is of.
LEMMA OwnerIs ==
    ASSUME NEW m \in Nat
    PROVE  (Byte(m, 1) \div 256) - 1 = m
  BY SMT DEF Byte

\* The chunk size of the peer after it has read a message.
LEMMA SizeRead ==
    ASSUME Callings, NEW m \in 1..Len(msgs), NEW data, Payload(data, m, msgs[m].hdr.len)
    PROVE  msgs[m].hdr.type = SetChunkSize => Told(data) = msgs[m].size
  <1>1. Lists /\ Owners
    BY Zenon DEF Callings
  <1>2. msgs[m] \in Jobs /\ m \in Nat /\ m \in DOMAIN msgs
    BY <1>1, MsgFacts, LenProperties, Zenon DEF Lists
  <1> SUFFICES ASSUME msgs[m].hdr.type = SetChunkSize
               PROVE  Told(data) = msgs[m].size
    OBVIOUS
  <1>3. msgs[m].hdr.len \in Nat /\ msgs[m].hdr.len # 0 /\ ~msgs[m].alias /\ msgs[m].size # 0
    BY <1>2, JobFacts, Zenon
  <1>4. 1 \in 1..msgs[m].hdr.len
    BY <1>3, SMT
  <1>5. bodies[m] = {m}
    BY <1>1, <1>3, Zenon DEF Owners
  <1>6. data[1] = Byte(m, 1) /\ data # <<>>
    <2>1. Len(<<>>) = 0
      BY EmptySeq, Zenon
    <2> QED
      BY <2>1, <1>3, <1>4, <1>5, Zenon DEF Payload
  <1>7. (data[1] \div 256) - 1 = m
    BY <1>2, <1>6, OwnerIs, Zenon
  <1> QED
    BY <1>2, <1>3, <1>6, <1>7, Zenon DEF Told

\* The last chunk of a message takes the peer to the next message.
LEMMA ReadWhole ==
    ASSUME Callings, NEW E, NEW P, NEW at, NEW base, NEW a, Ghosts(E, P, at, base, a),
           NEW i, NEW m, NEW h, NEW z, AtChunk(E, P, a, i, m, h, z),
           NEW l, NEW n, ChunkIs(h, a, z, l, n),
           NEW data, ReadDoes(h, l, n, data), a + n = h.len, Ahead'
    PROVE  Ghosts(E, P, at, base + (l + n), 0)'
  <1>0. Lists /\ Sized
    BY Zenon DEF Callings
  <1>1. /\ base = at[i - 1] + P[i][a] /\ PartIs(h.id, m, a) /\ ~lost
        /\ \A k \in PeerIds : k # h.id => part[k] = <<>>
        /\ part \in [PeerIds -> Seq(Nat)] /\ DOMAIN prev = PeerIds /\ h.id \in PeerIds
    BY InMessage, Zenon
  <1>2. Payload(data, m, h.len) /\ Len(data) = h.len
    <2>1. Payload(data, m, a + n)
      BY <1>1, DataIs, Zenon
    <2> QED
      BY <2>1, Zenon DEF Payload
  <1>3. /\ prev' = [prev EXCEPT ![h.id] = Carried(h)] /\ part' = [part EXCEPT ![h.id] = <<>>]
        /\ peerSize' = IF h.type = SetChunkSize THEN Told(data) ELSE peerSize
        /\ msgs' = msgs /\ bodies' = bodies /\ written' = written /\ sizes' = sizes
        /\ pieces' = pieces /\ lost' = lost
        /\ read' = Append(read, [hdr |-> Carried(h), data |-> data])
    BY <1>2, Zenon DEF ReadDoes, callVars
  <1>4. PICK r : r = Len(read)
    OBVIOUS
  <1>5. PICK w : w = Len(written)
    OBVIOUS
  <1>6. /\ i = r + 1 /\ i \in 1..w /\ i - 1 = r /\ m = written[i] /\ h = msgs[m].hdr
        /\ m \in 1..Len(msgs)
        /\ z = sizes[i] /\ z \in Nat \ {0} /\ IsHeader(h)
        /\ Encoded(E[i], P[i], h, bodies[m], z) /\ a \in DOMAIN P[i]
    BY <1>4, <1>5, Zenon DEF AtChunk, ChunkNext, Cuttable
  <1>7. w \in Nat /\ r \in Nat /\ l \in Nat /\ n \in Nat /\ a \in Nat
    BY <1>0, <1>4, <1>5, LenProperties, Zenon DEF Lists, ChunkIs
  <1>8. i <= w /\ i \in Nat /\ r \in 0..w
    BY <1>6, <1>7, SMT
  <1>9. P[i][a] \in Nat /\ Linked(E[i], P[i], h, bodies[m], z, a)
    BY <1>6, Zenon DEF Encoded, Placed
  <1>10. Len(E[i]) = P[i][a] + l + n
    BY <1>9, Zenon DEF Linked, Past, ChunkIs
  <1>11. base + (l + n) = at[i]
    <2>1. at[r] \in Nat /\ at[i] = at[r] + Len(E[i])
      BY <1>5, <1>6, <1>8, Zenon DEF Ghosts, WireIs
    <2>2. PICK x, p : x = at[r] /\ p = P[i][a]
      OBVIOUS
    <2>3. (x + p) + (l + n) = x + (p + l + n)
      BY <2>1, <2>2, <1>7, <1>9, SMTT(30)
    <2> QED
      BY <2>1, <2>2, <2>3, <1>1, <1>6, <1>10, Zenon
  <1>12. peerSize' = sizes[i + 1]
    <2>1. peerSize = sizes[i]
      BY <1>4, <1>6, Zenon DEF Ghosts, PeerIs
    <2>2. sizes[i + 1] = IF msgs[m].size # 0 THEN msgs[m].size ELSE sizes[i]
      BY <1>0, <1>5, <1>6, Zenon DEF Sized
    <2>3. msgs[m].size # 0 <=> h.type = SetChunkSize
      BY <1>0, <1>6, MsgFacts, JobFacts, Zenon
    <2>4. h.type = SetChunkSize => Told(data) = msgs[m].size
      BY <1>2, <1>6, SizeRead, ZenonT(60)
    <2> QED
      BY <2>1, <2>2, <2>3, <2>4, <1>3, Zenon
  <1>13. <<>> \in Seq(Nat) /\ Len(<<>>) = 0
    BY EmptySeq, Zenon
  <1>14. /\ part' \in [PeerIds -> Seq(Nat)] /\ DOMAIN prev' = PeerIds
         /\ \A k \in PeerIds : part'[k] = <<>>
    BY <1>1, <1>3, <1>13, Zenon
  <1>15. \A x : \A k \in PeerIds : PartIs(k, x, 0)'
    <2>1. 1..0 = {}
      BY SMT
    <2> QED
      BY <2>1, <1>13, <1>14, Zenon DEF PartIs
  <1>20. Len(read') = i /\ Len(written') = w /\ ~lost'
    <2>1. Added(read', read, [hdr |-> Carried(h), data |-> data])
      BY <1>0, <1>3, AddedIs, Zenon DEF Lists
    <2> QED
      BY <2>1, <1>1, <1>3, <1>4, <1>5, <1>6, Zenon DEF Added
  <1>16. ASSUME i < w
         PROVE  0 \in DOMAIN P[i + 1] /\ at[i] = at[i] + P[i + 1][0]
    <2>1. i + 1 \in 1..w /\ i + 1 <= i + 1
      BY <1>8, <1>16, <1>7, SMT
    <2>2. Clean(i + 1)
      <3>1. Clean(i + 1)'
        BY <2>1, <1>20, Zenon DEF Ahead
      <3> QED
        BY <3>1, <1>3, CleanSame, Zenon
    <2>3. 0 \in DOMAIN P[i + 1] /\ P[i + 1][0] = 0
      BY <2>1, <2>2, <1>5, Zenon DEF Ghosts, BytesAre, Encoded, Placed
    <2>4. at[i] \in Nat
      <3>1. i \in 0..w
        BY <1>7, <1>8, SMT
      <3> QED
        BY <3>1, <1>5, Zenon DEF Ghosts, WireIs
    <2>5. PICK x : x = at[i]
      OBVIOUS
    <2>6. x = x + 0
      BY <2>4, <2>5, SMT
    <2> QED
      BY <2>3, <2>5, <2>6, Zenon
  <1>17. PICK b : b = base + (l + n)
    OBVIOUS
  <1>18. PeerIs(P, at, b, 0)'
    <2>1. b = at[i]
      BY <1>11, <1>17, Zenon
    <2> QED
      BY <2>1, <1>3, <1>20, <1>8, <1>12, <1>14, <1>15, <1>16, Zenon DEF PeerIs
  <1> QED
    BY <1>7, <1>17, <1>18, ReadKeeps, Zenon DEF Ghosts

\* The peer reads one more message at most.
LEMMA ReadGrows ==
    ASSUME PeerReads
    PROVE  /\ read' = read \/ \E x : read' = Append(read, x)
           /\ UNCHANGED <<callVars, writeSize, broken, written, sizes, lost>> /\ ~lost /\ Complete(wire)
  <1>1. \E rr \in {RtmpRead(wire)}, from \in {PeerHeaderLen(wire)} :
        \E hh \in {Completed(rr)}, nn \in {PayloadWanted(rr)} : ReadBy(hh, from, nn)
    BY Zenon DEF PeerReads, ReadBy
  <1>2. read' = read \/ \E x : read' = Append(read, x)
    <2>1. ASSUME NEW g, NEW l, NEW n, ReadBy(g, l, n)
          PROVE  read' = read \/ \E x : read' = Append(read, x)
      <3>1. PICK data : read' = IF Len(data) = g.len THEN Append(read, [hdr |-> g, data |-> data])
                                ELSE read
        BY <2>1, Zenon DEF ReadBy
      <3> QED
        BY <3>1, Zenon
    <2> QED
      BY <2>1, <1>1, Zenon
  <1> QED
    BY <1>2, Zenon DEF PeerReads

\* Reading at a chunk, while what the peer reads can be expressed.
ReadingAt(E, P, at, base, a, i, m, h, z, l, n, data) ==
    /\ Ghosts(E, P, at, base, a) /\ AtChunk(E, P, a, i, m, h, z)
    /\ ChunkIs(h, a, z, l, n) /\ ReadDoes(h, l, n, data) /\ Payload(data, m, a + n)

\* Then the peer reads a chunk that Write made.
LEMMA ReadsChunk ==
    ASSUME Callings, Wired, Ahead, PeerReads
    PROVE  \E E, P, at, base, a, i, m, h, z, l, n, data :
              ReadingAt(E, P, at, base, a, i, m, h, z, l, n, data)
  <1>1. PICK E, P, at, base, a : Ghosts(E, P, at, base, a)
    BY Zenon DEF Wired, Ghosts
  <1>2. wire # <<>>
    BY ReadGrows, Zenon DEF Complete
  <1>3. PICK i, m, h, z : AtChunk(E, P, a, i, m, h, z)
    BY <1>1, <1>2, AtChunkOrEnd, Zenon
  <1>4. Cuttable(h, a) /\ PeerAt(h, a, z) /\ ChunkNext(wire, E[i], P[i], h, bodies[m], z, a)
    BY <1>3, Zenon DEF AtChunk
  <1>5. ChunkFound(wire, h, a, z)
    BY <1>4, ChunkSeen, Zenon
  <1>6. IsHeader(h) /\ a \in Nat /\ (a = 0 \/ a < h.len) /\ z \in Nat \ {0}
    BY <1>4, Zenon DEF Cuttable, ChunkNext, Encoded, Placed
  <1>7. PICK l, n : l = Len(Lead(h, a)) /\ n = Span(h, a, z)
    OBVIOUS
  <1>8. l \in Nat /\ n \in Nat
    BY <1>6, <1>7, LeadBytes, SpanIs, Zenon
  <1>9. ChunkIs(h, a, z, l, n)
    BY <1>6, <1>7, <1>8, Zenon DEF ChunkIs
  <1>10. PICK data : ReadDoes(h, l, n, data)
    BY <1>4, <1>5, <1>9, ReadFacts, Zenon
  <1>11. PartIs(h.id, m, a)
    BY <1>1, <1>3, InMessage, Zenon
  <1>12. Payload(data, m, a + n)
    BY <1>3, <1>9, <1>10, <1>11, DataIs, Zenon
  <1>13. ReadingAt(E, P, at, base, a, i, m, h, z, l, n, data)
    BY <1>1, <1>3, <1>9, <1>10, <1>12, Zenon DEF ReadingAt
  <1> QED
    BY <1>13, Zenon

\* PeerReads leaves the wire and the peer in step.
LEMMA ReadWired ==
    ASSUME Callings, Wired, PeerReads
    PROVE  Wired'
  <1>0. Lists
    BY Zenon DEF Callings
  <1>1. /\ msgs' = msgs /\ written' = written
        /\ pieces' = pieces /\ sizes' = sizes
        /\ read' = read \/ \E x : read' = Append(read, x)
    BY ReadGrows, Zenon DEF callVars
  <1> SUFFICES ASSUME Ahead'
               PROVE  \E E, P, at, base, a : Ghosts(E, P, at, base, a)'
    BY Zenon DEF Wired, Ghosts
  <1>2. Ahead
    <2>1. Len(read) \in Nat /\ (Len(read') = Len(read) \/ Len(read') = Len(read) + 1)
      <3>1. CASE read' = read
        BY <3>1, <1>0, LenProperties, Zenon DEF Lists
      <3>2. ASSUME NEW x, read' = Append(read, x)
            PROVE  Len(read) \in Nat /\ Len(read') = Len(read) + 1
        <4>1. Added(read', read, x)
          BY <3>2, <1>0, AddedIs, Zenon DEF Lists
        <4> QED
          BY <4>1, Zenon DEF Added
      <3> QED
        BY <3>1, <3>2, <1>1, Zenon
    <2>2. PICK r, s, w : r = Len(read) /\ s = Len(read') /\ w = Len(written)
      OBVIOUS
    <2>3. w \in Nat
      BY <2>2, <1>0, LenProperties, Zenon DEF Lists
    <2>6. \A i : Clean(i)' <=> Clean(i)
      BY <1>1, CleanSame, Zenon
    <2>4. \A i \in 1..w : i <= s + 1 => Clean(i)
      BY <2>2, <2>6, <1>1, Zenon DEF Ahead
    <2>5. \A i \in 1..w : i <= r + 1 => i <= s + 1
      BY <2>1, <2>2, <2>3, SMT
    <2> QED
      BY <2>2, <2>4, <2>5, Zenon DEF Ahead
  <1>3. PICK E, P, at, base, a, i, m, h, z, l, n, data :
           ReadingAt(E, P, at, base, a, i, m, h, z, l, n, data)
    BY <1>2, ReadsChunk, Zenon
  <1>4. /\ Ghosts(E, P, at, base, a) /\ AtChunk(E, P, a, i, m, h, z)
        /\ ChunkIs(h, a, z, l, n) /\ ReadDoes(h, l, n, data)
    BY <1>3, Zenon DEF ReadingAt
  <1>5. CASE a + n = h.len
    <2>1. Ghosts(E, P, at, base + (l + n), 0)'
      BY <1>4, <1>5, ReadWhole, Zenon
    <2> QED
      BY <2>1, Zenon
  <1>6. CASE a + n # h.len
    <2>1. Ghosts(E, P, at, base + (l + n), a + n)'
      BY <1>4, <1>6, ReadPart, Zenon
    <2> QED
      BY <2>1, Zenon
  <1> QED
    BY <1>5, <1>6, Zenon

\* What the peer reads is the message that was written.
LEMMA ReadArrived ==
    ASSUME Callings, Wired, Arrived, PeerReads
    PROVE  Arrived'
  <1>0. Lists
    BY Zenon DEF Callings
  <1>1. /\ msgs' = msgs /\ written' = written /\ bodies' = bodies
        /\ pieces' = pieces /\ sizes' = sizes
        /\ read' = read \/ \E x : read' = Append(read, x)
    BY ReadGrows, Zenon DEF callVars
  <1>2. \A i : Clean(i)' <=> Clean(i)
    BY <1>1, CleanSame, Zenon
  <1>3. \A x, m : ReadAs(x, m)' <=> ReadAs(x, m)
    BY <1>1, Zenon DEF ReadAs
  <1> SUFFICES ASSUME NEW n \in DOMAIN read', n \in DOMAIN written, CleanUpTo(n)'
               PROVE  ReadAs(read'[n], written[n])
    BY <1>1, <1>3, Zenon DEF Arrived
  <1>4. CleanUpTo(n) /\ \A i \in 1..n : Clean(i)
    <2>1. \A i \in 1..n : Clean(i)'
      BY Zenon DEF CleanUpTo, Clean
    <2>2. \A i \in 1..n : Clean(i)
      BY <2>1, <1>2, Zenon
    <2> QED
      BY <2>2, Zenon DEF CleanUpTo, Clean
  <1>5. CASE read' = read
    BY <1>4, <1>5, Zenon DEF Arrived
  <1>6. ASSUME NEW x, read' = Append(read, x)
        PROVE  ReadAs(read'[n], written[n])
    <2>1. Added(read', read, x)
      BY <1>6, <1>0, AddedIs, Zenon DEF Lists
    <2>2. PICK r : r = Len(read)
      OBVIOUS
    <2>3. /\ r \in Nat /\ Len(read') = r + 1 /\ DOMAIN read = 1..r /\ DOMAIN read' = 1..Len(read')
          /\ \A i \in 1..r : read'[i] = read[i]
      BY <2>1, <2>2, Zenon DEF Added
    <2>4. DOMAIN written = 1..Len(written) /\ Len(written) \in Nat
      BY <1>0, LenProperties, Zenon DEF Lists
    <2>5. n \in 1..r \/ n = r + 1
      BY <2>3, SMT
    <2>6. CASE n \in 1..r
      <3>1. read'[n] = read[n] /\ n \in DOMAIN read
        BY <2>3, <2>6, Zenon
      <3> QED
        BY <3>1, <1>4, Zenon DEF Arrived
    <2>7. CASE n = r + 1
      <3>1. Ahead
        <4>1. \A i \in 1..Len(written) : i <= r + 1 => i \in 1..n
          BY <2>3, <2>4, <2>7, SMT
        <4> QED
          BY <4>1, <2>2, <1>4, Zenon DEF Ahead
      <3>2. PICK E, P, at, base, a, i, m, h, z, l, q, data :
               ReadingAt(E, P, at, base, a, i, m, h, z, l, q, data)
        BY <3>1, ReadsChunk, Zenon
      <3>3. /\ i = n /\ m = written[n] /\ h = msgs[m].hdr
        BY <3>2, <2>2, <2>7, Zenon DEF ReadingAt, AtChunk
      <3>4. read' # read
        <4>1. r + 1 # r
          BY <2>3, SMT
        <4> QED
          BY <4>1, <2>2, <2>3, Zenon
      <3>5. Len(data) = h.len /\ read' = Append(read, [hdr |-> Carried(h), data |-> data])
        BY <3>2, <3>4, Zenon DEF ReadingAt, ReadDoes
      <3>6. Added(read', read, [hdr |-> Carried(h), data |-> data])
        BY <3>5, <1>0, AddedIs, Zenon DEF Lists
      <3>7. read'[n] = [hdr |-> Carried(h), data |-> data]
        BY <3>6, <2>2, <2>7, Zenon DEF Added
      <3>8. PICK e : e = read'[n]
        OBVIOUS
      <3>9. e.hdr = Carried(h) /\ e.data = data
        BY <3>7, <3>8, SMT
      <3>10. \A k \in DOMAIN data : \E y \in bodies[m] : data[k] = Byte(y, k)
        <4>1. data \in Seq(Nat) /\ \A k \in 1..Len(data) : \E y \in bodies[m] : data[k] = Byte(y, k)
          BY <3>2, Zenon DEF ReadingAt, Payload
        <4> QED
          BY <4>1, LenProperties, Zenon
      <3>11. h.len = msgs[m].dlen
        <4>1. n \in 1..n
          BY <2>3, <2>7, SMT
        <4> QED
          BY <4>1, <3>3, <1>4, Zenon DEF Clean, Expressible
      <3>12. /\ Len(e.data) = msgs[m].dlen
             /\ \A k \in DOMAIN e.data : \E y \in bodies[m] : e.data[k] = Byte(y, k)
        BY <3>5, <3>9, <3>10, <3>11, Zenon
      <3>13. ReadAs(e, m)
        BY <3>3, <3>9, <3>12, Zenon DEF ReadAs
      <3> QED
        BY <3>3, <3>8, <3>13, Zenon
    <2> QED
      BY <2>5, <2>6, <2>7, Zenon
  <1> QED
    BY <1>1, <1>5, <1>6, Zenon

\* The peer is lost only when it reads what Write cannot express.
LEMMA LostWired ==
    ASSUME Callings, Wired, PeerLost
    PROVE  Wired'
  <1>1. ~Ahead
    BY NotLost, Zenon DEF PeerLost
  <1>2. msgs' = msgs /\ pieces' = pieces /\ written' = written /\ sizes' = sizes /\ read' = read
    BY Zenon DEF PeerLost, callVars, connVars
  <1>4. \A i : Clean(i)' <=> Clean(i)
    BY <1>2, CleanSame, Zenon
  <1>3. ~Ahead'
    BY <1>1, <1>2, <1>4, Zenon DEF Ahead
  <1> QED
    BY <1>3, Zenon DEF Wired

-----------------------------------------------------------------------------
(* The steps.                                                              *)

\* The steps that change no message that is written and nothing on the wire keep the
\* invariant, if they keep what it says of the callers.
LEMMA QuietStep ==
    ASSUME IInv, Callings', Keeps, UNCHANGED <<connVars, peerVars>>
    PROVE  IInv'
  <1>1. Lists /\ Ended /\ Wired /\ Arrived
    BY Zenon DEF IInv, Callings
  <1>2. Wired'
    BY <1>1, WiredKept, Zenon
  <1>3. UNCHANGED <<written, sizes, read>>
    BY Zenon DEF connVars, peerVars
  <1>4. Arrived'
    BY <1>1, <1>3, ArrivedKept, Zenon
  <1> QED
    BY <1>2, <1>4, Zenon DEF IInv

\* Begin keeps the invariant.
LEMMA BeginStep ==
    ASSUME IInv, NEW c \in Callers, NEW j \in Jobs, Begin(c, j)
    PROVE  IInv'
  <1>1. Callings /\ Lists
    BY Zenon DEF IInv, Callings
  <1>2. PICK k : BeginDoes(k, c, j)
    BY <1>1, BeginFacts, Zenon
  <1>3. Callings'
    BY <1>1, <1>2, BeginLists, BeginCalls, Zenon DEF Callings
  <1>4. Keeps
    BY <1>2, Zenon DEF BeginDoes
  <1>5. UNCHANGED <<connVars, peerVars>>
    BY Zenon DEF Begin
  <1> QED
    BY <1>3, <1>4, <1>5, QuietStep, Zenon

\* A turn of the loop of Write keeps the invariant.
LEMMA CopyStep ==
    ASSUME IInv, NEW c \in Callers, CopyPart(c)
    PROVE  IInv'
  <1>1. Callings /\ Lists /\ Calls
    BY Zenon DEF IInv, Callings
  <1>2. Callings'
    BY <1>1, CopyCallings, Zenon
  <1>3. /\ UNCHANGED <<msgs, result, bodies, connVars, peerVars>> /\ cur[c] # 0
        /\ \E x : pieces' = [pieces EXCEPT ![cur[c]] = x]
    BY Zenon DEF CopyPart
  <1>4. result[cur[c]] = "pending"
    BY <1>1, <1>3, Zenon DEF Calls, Pending
  <1>5. \A m : m # cur[c] => pieces'[m] = pieces[m]
    <2>1. PICK x : pieces' = [pieces EXCEPT ![cur[c]] = x]
      BY <1>3, Zenon
    <2>2. \E S : pieces \in Seq(SUBSET S)
      BY <1>1, Zenon DEF Lists
    <2>3. ASSUME NEW m, m # cur[c]
          PROVE  pieces'[m] = pieces[m]
      BY <2>1, <2>2, <2>3, SMT
    <2> QED
      BY <2>3, Zenon
  <1>6. Keeps
    BY <1>3, <1>4, <1>5, Zenon DEF Keeps
  <1> QED
    BY <1>2, <1>3, <1>6, QuietStep, Zenon

\* A status that another client of the process makes keeps the invariant.
LEMMA OtherStep ==
    ASSUME IInv, OtherStatus
    PROVE  IInv'
  <1>1. Callings /\ Lists
    BY Zenon DEF IInv, Callings
  <1>2. Callings' /\ Keeps
    BY <1>1, OtherCallings, OtherFacts, Zenon
  <1>3. UNCHANGED <<connVars, peerVars>>
    BY Zenon DEF OtherStatus
  <1> QED
    BY <1>2, <1>3, QuietStep, Zenon

\* SetWriteSize keeps the invariant.
LEMMA SetStep ==
    ASSUME IInv, NEW z \in Sizes, SetWriteSize(z)
    PROVE  IInv'
  <1>1. Callings
    BY Zenon DEF IInv
  <1>2. Callings'
    BY <1>1, SetCallings, Zenon
  <1>3. UNCHANGED <<callVars, connVars, peerVars>>
    BY Zenon DEF SetWriteSize
  <1>4. Keeps
    BY <1>3, Zenon DEF Keeps, callVars
  <1> QED
    BY <1>2, <1>3, <1>4, QuietStep, Zenon

\* The end of a Write keeps the invariant.
LEMMA EndStep ==
    ASSUME IInv, NEW c \in Callers, Flush(c) \/ FlushFails(c)
    PROVE  IInv'
  <1>1. Callings /\ Lists /\ Wired /\ Arrived
    BY Zenon DEF IInv, Callings
  <1>2. PICK n, res : EndDoes(c, n, res)
    BY <1>1, EndFacts, Zenon
  <1>3. Callings' /\ Wired' /\ Arrived'
    BY <1>1, <1>2, EndCallings, EndWired, EndArrived, Zenon
  <1> QED
    BY <1>3, Zenon DEF IInv

\* The peer keeps the invariant.
LEMMA PeerStep ==
    ASSUME IInv, PeerReads \/ PeerLost
    PROVE  IInv'
  <1>1. Callings /\ Lists /\ Ended /\ Wired /\ Arrived
    BY Zenon DEF IInv, Callings
  <1>2. CASE PeerReads
    <2>1. UNCHANGED <<callVars, writeSize, broken, written, sizes, lost>>
          /\ (read' = read \/ \E x : read' = Append(read, x))
      BY <1>2, ReadGrows, Zenon
    <2>2. \E S : read' \in Seq(S)
      <3>1. \E S : read \in Seq(S)
        BY <1>1, Zenon DEF Lists
      <3>2. ASSUME NEW x, read' = Append(read, x)
            PROVE  \E S : read' \in Seq(S)
        <4>1. Added(read', read, x)
          BY <3>1, <3>2, AddedIs, Zenon
        <4> QED
          BY <4>1, Zenon DEF Added
      <3> QED
        BY <2>1, <3>1, <3>2, Zenon
    <2>3. lost' \in BOOLEAN
      BY <2>1, <1>1, Zenon DEF Lists
    <2>4. Callings'
      BY <2>1, <2>2, <2>3, <1>1, PeerCallings, Zenon
    <2>5. Wired' /\ Arrived'
      BY <1>1, <1>2, ReadWired, ReadArrived, Zenon
    <2> QED
      BY <2>4, <2>5, Zenon DEF IInv
  <1>3. CASE PeerLost
    <2>1. UNCHANGED <<callVars, writeSize, connVars, read>> /\ lost' = TRUE
      BY <1>3, Zenon DEF PeerLost
    <2>2. UNCHANGED <<broken, written, sizes>>
      BY <2>1, Zenon DEF connVars
    <2>3. \E S : read' \in Seq(S)
      BY <2>1, <1>1, Zenon DEF Lists
    <2>4. Callings'
      BY <2>1, <2>2, <2>3, <1>1, PeerCallings, Zenon
    <2>5. Wired'
      BY <1>1, <1>3, LostWired, Zenon
    <2>6. Keeps
      BY <2>1, Zenon DEF Keeps, callVars
    <2>7. Arrived'
      BY <2>1, <2>2, <2>6, <1>1, ArrivedKept, Zenon
    <2> QED
      BY <2>4, <2>5, <2>7, Zenon DEF IInv
  <1> QED
    BY <1>2, <1>3, Zenon

\* Every step keeps the invariant.
LEMMA Inductive ==
    ASSUME IInv, [Next]_vars
    PROVE  IInv'
  <1>1. CASE UNCHANGED vars
    <2>1. UNCHANGED <<callVars, writeSize, connVars, peerVars>>
      BY <1>1, Zenon DEF vars
    <2>2. Keeps
      BY <2>1, Zenon DEF Keeps, callVars
    <2>3. Callings'
      <3>1. Callings /\ Lists
        BY Zenon DEF IInv, Callings
      <3>2. lost' \in BOOLEAN /\ \E S : read' \in Seq(S)
        BY <2>1, <3>1, Zenon DEF peerVars, Lists
      <3>3. UNCHANGED <<broken, written, sizes>>
        BY <2>1, Zenon DEF connVars
      <3> QED
        BY <2>1, <3>1, <3>2, <3>3, PeerCallings, Zenon
    <2> QED
      BY <2>1, <2>2, <2>3, QuietStep, Zenon
  <1>2. ASSUME NEW c \in Callers, Write(c)
        PROVE  IInv'
    BY <1>2, CopyStep, EndStep, Zenon DEF Write
  <1>3. ASSUME NEW c \in Callers, NEW j \in Jobs, Begin(c, j)
        PROVE  IInv'
    BY <1>3, BeginStep, Zenon
  <1>4. ASSUME NEW z \in Sizes, SetWriteSize(z)
        PROVE  IInv'
    BY <1>4, SetStep, Zenon
  <1> QED
    BY <1>1, <1>2, <1>3, <1>4, OtherStep, PeerStep, Zenon DEF Next

-----------------------------------------------------------------------------
(* The beginning, and what the invariant says.                             *)

\* Nothing is written at the beginning, and the peer is at the end of it.
LEMMA InitWired ==
    ASSUME Init
    PROVE  Wired
  <1> DEFINE at == [i \in {0} |-> 0]
             E == [i \in {0} |-> 0]
  <1>1. /\ written = <<>> /\ read = <<>> /\ wire = <<>> /\ broken = FALSE /\ lost = FALSE
        /\ sizes = <<FirstPeerSize>> /\ peerSize = FirstPeerSize
        /\ prev = [i \in PeerIds |-> None] /\ part = [i \in PeerIds |-> <<>>]
    BY Zenon DEF Init
  <1>2. <<>> \in Seq(Nat) /\ Len(<<>>) = 0
    BY EmptySeq, Zenon
  <1>3. Len(written) = 0 /\ Len(read) = 0 /\ Len(wire) = 0 /\ wire \in Seq(Nat)
    BY <1>1, <1>2, Zenon
  <1>4. 1..0 = {} /\ 0..0 = {0} /\ 0 \in Nat /\ 0 <= 0 /\ ~(0 < 0) /\ 0 + 0 = 0
    BY SMT
  <1>5. at[0] = 0
    BY Zenon
  <1>6. peerSize = sizes[Len(read) + 1]
    BY <1>1, <1>3, SMT
  <1> HIDE DEF at, E
  <1>8. BytesAre(E, E)
    BY <1>3, <1>4, Zenon DEF BytesAre
  <1>9. WireIs(E, at, 0)
    <2>1. \A i \in 0..Len(written) : at[i] \in Nat /\ at[i] <= at[Len(written)]
      BY <1>3, <1>4, <1>5, Zenon
    <2>2. 0 + Len(wire) <= at[Len(written)] /\ 0 + Len(wire) = at[Len(written)]
      BY <1>3, <1>5, SMT
    <2>3. 1..Len(written) = {}
      BY <1>3, <1>4, Zenon
    <2> QED
      BY <2>1, <2>2, <2>3, <1>3, <1>4, Zenon DEF WireIs
  <1>10. part \in [PeerIds -> Seq(Nat)] /\ DOMAIN prev = PeerIds /\ \A k \in PeerIds : part[k] = <<>>
    BY <1>1, <1>2, Zenon
  <1>11. PeerIs(E, at, 0, 0)
    BY <1>1, <1>3, <1>4, <1>5, <1>6, <1>10, Zenon DEF PeerIs
  <1> QED
    BY <1>8, <1>9, <1>11, Zenon DEF Wired

\* The invariant holds at the beginning.
LEMMA InitIInv ==
    ASSUME Init
    PROVE  IInv
  <1>1. /\ msgs = <<>> /\ result = <<>> /\ bodies = <<>> /\ written = <<>> /\ read = <<>>
        /\ cur = [c \in Callers |-> 0] /\ pos = [c \in Callers |-> 0]
        /\ out = [c \in Callers |-> <<>>] /\ pieces = <<>>
        /\ broken = FALSE /\ lost = FALSE
        /\ writeSize = FirstWriteSize /\ sizes = <<FirstPeerSize>>
    BY Zenon DEF Init
  <1>2. \A S : <<>> \in Seq(S)
    BY EmptySeq, Zenon
  <1>3. Len(<<>>) = 0
    BY EmptySeq, Zenon
  <1>4. 1..0 = {} /\ 0 \in Nat /\ 0 <= 0
    BY SMT
  <1>5. /\ Len(msgs) = 0 /\ Len(written) = 0 /\ Len(result) = 0 /\ Len(bodies) = 0
        /\ Len(pieces) = 0
    BY <1>1, <1>3, Zenon
  <1>6. \A c \in Callers : cur[c] = 0 /\ out[c] = <<>>
    BY <1>1, Zenon
  <1>7. Lists
    <2>1. /\ cur \in [Callers -> Nat] /\ pos \in [Callers -> Nat] /\ out \in [Callers -> Seq(Nat)]
      BY <1>1, <1>2, <1>4, Zenon
    <2>2. \A c \in Callers : cur[c] <= Len(msgs)
      BY <1>4, <1>5, <1>6, Zenon
    <2>3. /\ msgs \in Seq(Jobs) /\ result \in Seq({"pending", "nil", "err"})
          /\ bodies \in Seq(SUBSET Nat) /\ written \in Seq(Nat) /\ \E S : read \in Seq(S)
          /\ \E S : pieces \in Seq(SUBSET S)
      BY <1>1, <1>2, Zenon
    <2>4. writeSize \in Sizes
      BY <1>1, SizeFacts, Zenon
    <2>5. broken \in BOOLEAN /\ lost \in BOOLEAN
      BY <1>1, Zenon
    <2>6. Len(result) = Len(msgs) /\ Len(bodies) = Len(msgs) /\ Len(pieces) = Len(msgs)
      BY <1>5, Zenon
    <2>7. \A i \in 1..Len(written) : written[i] \in 1..Len(msgs)
      BY <1>4, <1>5, Zenon
    <2> QED
      BY <2>1, <2>2, <2>3, <2>4, <2>5, <2>6, <2>7, Zenon DEF Lists
  <1>8. Calls /\ Buffers
    BY <1>6, Zenon DEF Calls, Buffers
  <1>9. Owners /\ Ended
    BY <1>4, <1>5, Zenon DEF Owners, Ended
  <1>10. Sized
    <2>1. FirstPeerSize \in Sizes
      BY SizeFacts, Zenon
    <2>2. sizes \in Seq(Sizes) /\ Len(sizes) = 0 + 1
      BY <1>1, <2>1, SMT
    <2> QED
      BY <2>2, <1>4, <1>5, Zenon DEF Sized
  <1>11. Arrived
    <2>1. DOMAIN read = {}
      BY <1>1, SMT
    <2> QED
      BY <2>1, Zenon DEF Arrived
  <1> QED
    BY <1>7, <1>8, <1>9, <1>10, <1>11, InitWired, Zenon DEF IInv, Callings

\* While everything written is clean the peer is in step, has one of the chunk
\* sizes, and has read nothing that was not written.
LEMMA CleanFacts ==
    ASSUME IInv, CleanUpTo(Len(written))
    PROVE  ~lost /\ peerSize \in Sizes /\ Len(read) <= Len(written)
  <1>1. Ahead
    BY Zenon DEF Ahead, CleanUpTo, Clean
  <1>2. PICK P, at, base, a : PeerIs(P, at, base, a)
    BY <1>1, Zenon DEF IInv, Wired
  <1>3. PICK r, w : r = Len(read) /\ w = Len(written)
    OBVIOUS
  <1>4. r \in Nat /\ w \in Nat
    BY <1>3, LenProperties, Zenon DEF IInv, Callings, Lists
  <1>5. ~lost /\ r <= w /\ peerSize = sizes[r + 1]
    BY <1>2, <1>3, Zenon DEF PeerIs
  <1>6. sizes \in Seq(Sizes) /\ Len(sizes) = w + 1
    BY <1>3, Zenon DEF IInv, Callings, Sized
  <1>7. r + 1 \in 1..Len(sizes)
    BY <1>4, <1>5, <1>6, SMT
  <1>8. sizes[r + 1] \in Sizes
    BY <1>6, <1>7, ElementOfSeq, Zenon
  <1> QED
    BY <1>3, <1>5, <1>8, Zenon

\* The invariant gives the properties.
LEMMA IInvGives ==
    ASSUME IInv
    PROVE  TypeOK /\ PeerInStep /\ Intact
  <1>1. Lists /\ Calls /\ Sized /\ Arrived
    BY Zenon DEF IInv, Callings
  <1>2. PeerInStep
    BY CleanFacts, Zenon DEF PeerInStep
  <1>3. /\ Len(msgs) \in Nat /\ DOMAIN msgs = 1..Len(msgs) /\ DOMAIN result = 1..Len(msgs)
        /\ DOMAIN bodies = 1..Len(msgs) /\ DOMAIN pieces = 1..Len(msgs)
    BY <1>1, LenProperties, Zenon DEF Lists
  <1>4. ASSUME NEW c \in Callers
        PROVE  /\ cur[c] \in 0..Len(msgs)
               /\ cur[c] # 0 => Pending(cur[c]) /\ Left(c) >= 0
               /\ cur[c] = 0 => out[c] = <<>>
    <2>1. cur[c] \in Nat /\ cur[c] <= Len(msgs)
      BY <1>1, Zenon DEF Lists
    <2>2. cur[c] \in 0..Len(msgs)
      BY <2>1, <1>3, SMT
    <2>3. ASSUME cur[c] # 0
          PROVE  Pending(cur[c]) /\ Left(c) >= 0
      <3>1. cur[c] \in 1..Len(msgs) /\ pos[c] \in Nat
        BY <1>1, <2>3, CurFacts, Zenon
      <3>2. msgs[cur[c]].dlen \in Nat
        BY <1>1, <3>1, MsgFacts, JobFacts, Zenon
      <3>3. Pending(cur[c]) /\ pos[c] <= msgs[cur[c]].dlen
        BY <1>1, <2>3, Zenon DEF Calls
      <3>4. PICK p, q : p = pos[c] /\ q = msgs[cur[c]].dlen
        OBVIOUS
      <3>5. q - p >= 0
        BY <3>1, <3>2, <3>3, <3>4, SMT
      <3> QED
        BY <3>3, <3>4, <3>5, Zenon DEF Left
    <2> QED
      BY <2>2, <2>3, <1>1, Zenon DEF Calls
  <1>5. writeSize \in Sizes /\ {broken, lost} \subseteq BOOLEAN /\ Len(sizes) = Len(written) + 1
    BY <1>1, Zenon DEF Lists, Sized
  <1>6. TypeOK
    BY <1>3, <1>4, <1>5, CleanFacts, Zenon DEF TypeOK
  <1>7. Intact
    <2> SUFFICES ASSUME NEW n \in DOMAIN read, n \in DOMAIN written, CleanUpTo(n)
                 PROVE  /\ read[n].hdr = Carried(msgs[written[n]].hdr)
                        /\ Len(read[n].data) = msgs[written[n]].dlen
                        /\ bodies[written[n]] = {written[n]} =>
                              \A i \in DOMAIN read[n].data :
                                 read[n].data[i] = Byte(written[n], i)
      BY Zenon DEF Intact
    <2>1. ReadAs(read[n], written[n])
      BY <1>1, Zenon DEF Arrived
    <2> QED
      BY <2>1, Zenon DEF ReadAs
  <1> QED
    BY <1>2, <1>6, <1>7, Zenon

-----------------------------------------------------------------------------
(* The theorems.                                                           *)

\* The calls of DefaultWriter.Write, the wire and the peer are always as IInv says.
THEOREM Invariance == Spec => []IInv
  <1>1. Init => IInv
    BY InitIInv
  <1>2. IInv /\ [Next]_vars => IInv'
    BY Inductive
  <1> QED
    BY <1>1, <1>2, PTL DEF Spec

\* The state of DefaultWriter and of its callers has its types, every caller of Write
\* is in a call of its own, and the peer reads no more than what was written while
\* all that was written is clean.
THEOREM TypeCorrect == Spec => []TypeOK
  <1>1. IInv => TypeOK
    BY IInvGives
  <1> QED
    BY <1>1, Invariance, PTL

\* However the calls of DefaultWriter.Write interleave with each other, with
\* SetWriteSize at any moment and with the failure of the connection, a peer that
\* reads as RTMP says finds a chunk wherever it looks for one, until it comes to a
\* chunk that Write cannot express or that Write cut, by the write size it had on each
\* turn of its loop, to other pieces than the chunk size which RTMP has there.
THEOREM StaysInStep == Spec => []PeerInStep
  <1>1. IInv => PeerInStep
    BY IInvGives
  <1> QED
    BY <1>1, Invariance, PTL

\* What the peer reads is what DefaultWriter.Write was given, in the order of the
\* writes to the connection, up to the first chunk as above: the header, the length,
\* and every byte of a payload that shared its memory with no other; of the bytes of
\* a status (Status.AsChunk) that did, nothing is said.
THEOREM ArrivesIntact == Spec => []Intact
  <1>1. IInv => Intact
    BY IInvGives
  <1> QED
    BY <1>1, Invariance, PTL
=============================================================================
