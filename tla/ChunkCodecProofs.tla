-------------------------- MODULE ChunkCodecProofs --------------------------
(***************************************************************************)
(* Header.Read reads what Header.Write writes, for every header that the   *)
(* bytes can express, whatever follows it.                                 *)
(***************************************************************************)
EXTENDS ChunkCodec, Integers, TLAPS

Max32 == 4294967295     \* 0xffffffff

\* The headers that a Header of the code can hold, as far as the codec needs it.
Fields == [bfmt : Nat, mfmt : Nat, id : Nat, ts : Nat, len : Nat, type : Nat,
           msid : Nat, ext : Nat]
Headers == {h \in Fields : /\ h.bfmt < 4 /\ h.mfmt < 4
                           /\ h.msid <= Max32 /\ h.ext <= Max32}

-----------------------------------------------------------------------------
(* Integers and their bytes.                                               *)

\* What the Put functions of spec write are sequences of naturals.
LEMMA PutTypes ==
    ASSUME NEW n \in Nat
    PROVE  /\ PutUint16(n) \in Seq(Nat) /\ Len(PutUint16(n)) = 2
           /\ PutUint24(n) \in Seq(Nat) /\ Len(PutUint24(n)) = 3
           /\ PutUint32(n) \in Seq(Nat) /\ Len(PutUint32(n)) = 4
           /\ LittleEndianPutUint32(n) \in Seq(Nat) /\ Len(LittleEndianPutUint32(n)) = 4
  <1>1. /\ n % 256 \in Nat /\ (n \div 256) % 256 \in Nat
        /\ (n \div 65536) % 256 \in Nat /\ (n \div 16777216) % 256 \in Nat
    BY Z3
  <1> QED
    BY <1>1, SMT DEF PutUint16, PutUint24, PutUint32, LittleEndianPutUint32

\* The bytes of an integer that fits make it up again.
LEMMA Split16 ==
    ASSUME NEW n \in Nat, n < 65536
    PROVE  ((n \div 256) % 256) * 256 + (n % 256) = n
  BY Z3
\* The same for three bytes ...
LEMMA Split24 ==
    ASSUME NEW n \in Nat, n <= Max24
    PROVE  ((n \div 65536) % 256) * 65536 + ((n \div 256) % 256) * 256 + (n % 256) = n
  BY Z3 DEF Max24
\* ... and for four.
LEMMA Split32 ==
    ASSUME NEW n \in Nat, n <= Max32
    PROVE  ((n \div 16777216) % 256) * 16777216 + ((n \div 65536) % 256) * 65536
             + ((n \div 256) % 256) * 256 + (n % 256) = n
  BY Z3 DEF Max32

-----------------------------------------------------------------------------
(* Places in a sequence of bytes.                                          *)

\* s is in b, after its first n bytes.
At(s, b, n) == n + Len(s) <= Len(b) /\ \A i \in 1..Len(s) : b[n + i] = s[i]

\* Where the parts of a concatenation are.
LEMMA Places ==
    ASSUME NEW x \in Seq(Nat), NEW y \in Seq(Nat), NEW z \in Seq(Nat)
    PROVE  LET b == x \o y \o z
           IN  /\ b \in Seq(Nat)
               /\ Len(b) = Len(x) + Len(y) + Len(z)
               /\ At(x, b, 0)
               /\ At(y, b, Len(x))
               /\ At(z, b, Len(x) + Len(y))
  BY SMT DEF At

\* Where the two parts of a concatenation are.
LEMMA TwoPlaces ==
    ASSUME NEW x \in Seq(Nat), NEW y \in Seq(Nat)
    PROVE  /\ x \o y \in Seq(Nat)
           /\ Len(x \o y) = Len(x) + Len(y)
           /\ At(x, x \o y, 0)
           /\ At(y, x \o y, Len(x))
  BY SMT DEF At

\* A part of a part is in the whole.
LEMMA PartOfPart ==
    ASSUME NEW b \in Seq(Nat), NEW s \in Seq(Nat), NEW t \in Seq(Nat), NEW m \in Nat,
           NEW n \in Nat, At(s, b, n), At(t, s, m)
    PROVE  At(t, b, n + m)
  <1>1. Len(b) \in Nat /\ Len(s) \in Nat /\ Len(t) \in Nat
    OBVIOUS
  <1>2. n + Len(s) <= Len(b) /\ m + Len(t) <= Len(s)
    BY Zenon DEF At
  <1>3. ASSUME NEW i \in 1..Len(t)
        PROVE  b[(n + m) + i] = t[i]
    <2>1. i \in Nat /\ m + i \in 1..Len(s)
      BY <1>1, <1>2, SMT
    <2>2. b[n + (m + i)] = s[m + i] /\ s[m + i] = t[i]
      BY <2>1, Zenon DEF At
    <2>3. n + (m + i) = (n + m) + i
      BY <2>1, SMT
    <2> QED
      BY <2>2, <2>3, Zenon
  <1>4. (n + m) + Len(t) <= Len(b)
    BY <1>1, <1>2, SMT
  <1> QED
    BY <1>3, <1>4, Zenon DEF At

\* What Uint32 and LittleEndianUint32 find where Put has put an integer that fits.
LEMMA Reads ==
    ASSUME NEW b \in Seq(Nat), NEW n \in Nat, NEW k \in Nat
    PROVE  /\ At(PutUint16(k), b, n) /\ k < 65536 => Uint16(b, n) = k
           /\ At(PutUint24(k), b, n) /\ k <= Max24 => Uint24(b, n) = k
           /\ At(PutUint32(k), b, n) /\ k <= Max32 => Uint32(b, n) = k
           /\ At(LittleEndianPutUint32(k), b, n) /\ k <= Max32
                => LittleEndianUint32(b, n) = k
  <1>1. ASSUME At(PutUint16(k), b, n), k < 65536
        PROVE  Uint16(b, n) = k
    <2>1. b[n + 1] = (k \div 256) % 256 /\ b[n + 2] = k % 256
      BY <1>1, PutTypes, SMT DEF At, PutUint16
    <2>2. Uint16(b, n) = ((k \div 256) % 256) * 256 + (k % 256)
      BY <2>1, SMT DEF Uint16
    <2>3. ((k \div 256) % 256) * 256 + (k % 256) = k
      BY <1>1, Split16, SMT
    <2> QED
      BY <2>2, <2>3, SMT
  <1>2. ASSUME At(PutUint24(k), b, n), k <= Max24
        PROVE  Uint24(b, n) = k
    <2>1. /\ b[n + 1] = (k \div 65536) % 256 /\ b[n + 2] = (k \div 256) % 256
          /\ b[n + 3] = k % 256
      BY <1>2, PutTypes, SMT DEF At, PutUint24
    <2>2. Uint24(b, n) = ((k \div 65536) % 256) * 65536 + ((k \div 256) % 256) * 256 + (k % 256)
      BY <2>1, SMT DEF Uint24
    <2>3. ((k \div 65536) % 256) * 65536 + ((k \div 256) % 256) * 256 + (k % 256) = k
      BY <1>2, Split24, SMT
    <2> QED
      BY <2>2, <2>3, SMT
  <1>3. ASSUME At(PutUint32(k), b, n), k <= Max32
        PROVE  Uint32(b, n) = k
    <2>1. /\ b[n + 1] = (k \div 16777216) % 256 /\ b[n + 2] = (k \div 65536) % 256
          /\ b[n + 3] = (k \div 256) % 256 /\ b[n + 4] = k % 256
      BY <1>3, PutTypes, SMT DEF At, PutUint32
    <2>2. Uint32(b, n) = ((k \div 16777216) % 256) * 16777216 + ((k \div 65536) % 256) * 65536
                           + ((k \div 256) % 256) * 256 + (k % 256)
      BY <2>1, SMT DEF Uint32
    <2>3. ((k \div 16777216) % 256) * 16777216 + ((k \div 65536) % 256) * 65536
                           + ((k \div 256) % 256) * 256 + (k % 256) = k
      BY <1>3, Split32, SMT
    <2> QED
      BY <2>2, <2>3, SMT
  <1>4. ASSUME At(LittleEndianPutUint32(k), b, n), k <= Max32
        PROVE  LittleEndianUint32(b, n) = k
    <2>1. /\ b[n + 4] = (k \div 16777216) % 256 /\ b[n + 3] = (k \div 65536) % 256
          /\ b[n + 2] = (k \div 256) % 256 /\ b[n + 1] = k % 256
      BY <1>4, PutTypes, SMT DEF At, LittleEndianPutUint32
    <2>2. LittleEndianUint32(b, n) = ((k \div 16777216) % 256) * 16777216
            + ((k \div 65536) % 256) * 65536 + ((k \div 256) % 256) * 256 + (k % 256)
      BY <2>1, SMT DEF LittleEndianUint32
    <2>3. ((k \div 16777216) % 256) * 16777216
            + ((k \div 65536) % 256) * 65536 + ((k \div 256) % 256) * 256 + (k % 256) = k
      BY <1>4, Split32, SMT
    <2> QED
      BY <2>2, <2>3, SMT
  <1> QED
    BY <1>1, <1>2, <1>3, <1>4, SMT

\* The case of Reads that the extended timestamp needs.
LEMMA Reads32 ==
    ASSUME NEW b \in Seq(Nat), NEW n \in Nat, NEW k \in Nat, At(PutUint32(k), b, n),
           k <= Max32
    PROVE  Uint32(b, n) = k
  BY Reads, SMT

-----------------------------------------------------------------------------
(* The parts of a header.                                                  *)

\* BasicHeader.Read finds what BasicHeader.Write wrote.
LEMMA BasicReads ==
    ASSUME NEW h \in Headers, Representable(h)
    PROVE  /\ BasicWrite(h) \in Seq(Nat)
           /\ \A b \in Seq(Nat) : At(BasicWrite(h), b, 0) =>
                 /\ BasicLen(b) = Len(BasicWrite(h))
                 /\ BasicFormat(b) = h.bfmt
                 /\ BasicId(b) = h.id
  <1>0. h.id \in Nat /\ h.bfmt \in Nat /\ h.bfmt < 4
    BY SMT DEF Headers, Fields
  <1> DEFINE f == h.bfmt * 64
  <1>1. CASE h.id < 63
    <2>1. BasicWrite(h) = <<f + h.id>> /\ h.id > 0
      BY <1>0, <1>1, SMT DEF BasicWrite, Representable
    <2>2. (f + h.id) % 64 = h.id /\ (f + h.id) \div 64 = h.bfmt /\ f + h.id \in Nat
      BY <1>0, <1>1, Z3
    <2>0. BasicWrite(h) \in Seq(Nat)
      BY <2>1, <2>2, SMT
    <2> SUFFICES ASSUME NEW b \in Seq(Nat), At(BasicWrite(h), b, 0)
                 PROVE  /\ BasicLen(b) = Len(BasicWrite(h))
                        /\ BasicFormat(b) = h.bfmt /\ BasicId(b) = h.id
      BY <2>0
    <2>3. b[1] = f + h.id /\ Len(BasicWrite(h)) = 1
      BY <2>1, <2>2, SMT DEF At
    <2>4. b[1] % 64 = h.id /\ b[1] \div 64 = h.bfmt
      BY <2>2, <2>3, SMT
    <2> QED
      <3>0. h.id # 63 /\ h.id # 0
        BY <2>1, <1>0, <1>1, SMT
      <3>1. b[1] % 64 # 63 /\ b[1] % 64 # 0
        BY <3>0, <2>4, Zenon
      <3> QED
        BY <3>1, <2>3, <2>4, SMT DEF BasicLen, BasicFormat, BasicId
  <1>2. CASE h.id > 63 /\ h.id < 320
    <2>1. BasicWrite(h) = <<f, h.id - 64>>
      <3>1. (h.id - 64) % 256 = h.id - 64
        BY <1>0, <1>2, Z3
      <3> QED
        BY <3>1, <1>0, <1>2, SMT DEF BasicWrite
    <2>2. f % 64 = 0 /\ f \div 64 = h.bfmt /\ f \in Nat /\ h.id - 64 \in Nat
      BY <1>0, <1>2, Z3
    <2>0. BasicWrite(h) \in Seq(Nat)
      BY <2>1, <2>2, SMT
    <2> SUFFICES ASSUME NEW b \in Seq(Nat), At(BasicWrite(h), b, 0)
                 PROVE  /\ BasicLen(b) = Len(BasicWrite(h))
                        /\ BasicFormat(b) = h.bfmt /\ BasicId(b) = h.id
      BY <2>0
    <2>3. b[1] = f /\ b[2] = h.id - 64 /\ Len(BasicWrite(h)) = 2
      BY <2>1, <2>2, SMT DEF At
    <2>4. b[1] % 64 = 0 /\ b[1] \div 64 = h.bfmt
      BY <2>2, <2>3, SMT
    <2> QED
      BY <2>3, <2>4, <1>0, <1>2, SMT DEF BasicLen, BasicFormat, BasicId, Uint8
  <1>3. CASE h.id >= 320
    <2> DEFINE k == h.id - 64
    <2>1. BasicWrite(h) = <<f + 63>> \o PutUint16(k)
      BY <1>0, <1>3, SMT DEF BasicWrite
    <2>2. /\ (f + 63) % 64 = 63 /\ (f + 63) \div 64 = h.bfmt /\ f + 63 \in Nat
          /\ k \in Nat /\ k < 65536
      <3>1. h.id < 65600
        BY <1>0, <1>3, SMT DEF Representable
      <3> QED
        BY <3>1, <1>0, <1>3, Z3
    <2> HIDE DEF k
    <2>3. PutUint16(k) \in Seq(Nat) /\ Len(PutUint16(k)) = 2 /\ <<f + 63>> \in Seq(Nat)
      BY <2>2, PutTypes, SMT
    <2>4. /\ BasicWrite(h) \in Seq(Nat) /\ Len(BasicWrite(h)) = 3
          /\ BasicWrite(h)[1] = f + 63
          /\ At(PutUint16(k), BasicWrite(h), 1)
      <3>1. Len(<<f + 63>>) = 1 /\ <<f + 63>>[1] = f + 63
        OBVIOUS
      <3>2. /\ BasicWrite(h) \in Seq(Nat)
            /\ Len(BasicWrite(h)) = Len(<<f + 63>>) + Len(PutUint16(k))
            /\ At(<<f + 63>>, BasicWrite(h), 0)
            /\ At(PutUint16(k), BasicWrite(h), Len(<<f + 63>>))
        <4> DEFINE x == <<f + 63>>
        <4>1. BasicWrite(h) = x \o PutUint16(k) /\ x \in Seq(Nat)
          BY <2>1, <2>3, Zenon
        <4> HIDE DEF x
        <4>2. /\ BasicWrite(h) \in Seq(Nat)
              /\ Len(BasicWrite(h)) = Len(x) + Len(PutUint16(k))
              /\ At(x, BasicWrite(h), 0)
              /\ At(PutUint16(k), BasicWrite(h), Len(x))
          BY <4>1, <2>3, TwoPlaces, Zenon
        <4> QED
          BY <4>2, Zenon DEF x
      <3>3. BasicWrite(h)[1] = f + 63
        BY <3>1, <3>2, SMT DEF At
      <3> QED
        BY <3>1, <3>2, <3>3, <2>3, SMT
    <2> SUFFICES ASSUME NEW b \in Seq(Nat), At(BasicWrite(h), b, 0)
                 PROVE  /\ BasicLen(b) = Len(BasicWrite(h))
                        /\ BasicFormat(b) = h.bfmt /\ BasicId(b) = h.id
      BY <2>4
    <2>5. b[1] = f + 63 /\ At(PutUint16(k), b, 1)
      <3>1. b[1] = f + 63
        BY <2>4, SMT DEF At
      <3>2. At(PutUint16(k), b, 0 + 1)
        BY <2>3, <2>4, PartOfPart, 1 \in Nat, 0 \in Nat, Zenon
      <3> QED
        BY <3>1, <3>2, SMT
    <2>6. Uint16(b, 1) = k
      BY <2>2, <2>5, Reads, SMT
    <2>7. b[1] % 64 = 63 /\ b[1] \div 64 = h.bfmt
      BY <2>2, <2>5, SMT
    <2> QED
      <3>1. Uint16(b, 1) + 64 = h.id
        BY <2>6, <1>0, SMT DEF k
      <3> QED
        BY <3>1, <2>4, <2>7, SMT DEF BasicLen, BasicFormat, BasicId
  <1> QED
    BY <1>0, <1>1, <1>2, <1>3, SMT DEF Representable

\* MessageHeader.Read finds the fields that MessageHeader.Write wrote.
LEMMA MessageReads ==
    ASSUME NEW h \in Headers, Fitting(h)
    PROVE  /\ MessageWrite(h) \in Seq(Nat)
           /\ Len(MessageWrite(h)) = MessageLen(h.mfmt)
           /\ \A b \in Seq(Nat), n \in Nat : At(MessageWrite(h), b, n) =>
                 /\ h.mfmt # 3 => Uint24(b, n) = h.ts
                 /\ h.mfmt \in {0, 1} => Uint24(b, n + 3) = h.len /\ Uint8(b, n + 6) = h.type
                 /\ h.mfmt = 0 => LittleEndianUint32(b, n + 7) = h.msid
  <1>0. /\ h.ts \in Nat /\ h.len \in Nat /\ h.type \in Nat /\ h.msid \in Nat
        /\ h.msid <= Max32 /\ h.mfmt \in Nat /\ h.mfmt < 4
    BY SMT DEF Headers, Fields
  <1> DEFINE t == PutUint24(h.ts)
             l == PutUint24(h.len)
             y == <<h.type>>
             s == LittleEndianPutUint32(h.msid)
  <1>1. /\ t \in Seq(Nat) /\ Len(t) = 3 /\ l \in Seq(Nat) /\ Len(l) = 3
        /\ y \in Seq(Nat) /\ Len(y) = 1 /\ s \in Seq(Nat) /\ Len(s) = 4
    BY <1>0, PutTypes, SMT
  <1>2. /\ h.mfmt = 0 => MessageWrite(h) = t \o l \o y \o s
        /\ h.mfmt = 1 => MessageWrite(h) = t \o l \o y
        /\ h.mfmt = 2 => MessageWrite(h) = t
        /\ h.mfmt = 3 => MessageWrite(h) = <<>>
    BY SMT DEF MessageWrite
  <1>3. y[1] = h.type
    OBVIOUS
  <1>4. /\ h.mfmt # 3 => h.ts <= Max24
        /\ h.mfmt \in {0, 1} => h.len <= Max24
    BY DEF Fitting
  <1> HIDE DEF t, l, y, s
  <1>5. /\ t \o l \in Seq(Nat) /\ Len(t \o l) = 6
        /\ At(t, t \o l, 0) /\ At(l, t \o l, 3)
    <2>1. /\ t \o l \in Seq(Nat) /\ Len(t \o l) = Len(t) + Len(l)
          /\ At(t, t \o l, 0) /\ At(l, t \o l, Len(t))
      BY <1>1, TwoPlaces, Zenon
    <2> QED
      BY <2>1, <1>1, SMT
  <1> DEFINE tl == t \o l
  <1> HIDE DEF tl
  <1>6. /\ tl \o y \in Seq(Nat) /\ Len(tl \o y) = 7
        /\ At(tl, tl \o y, 0) /\ At(y, tl \o y, 6)
    <2>1. /\ tl \o y \in Seq(Nat) /\ Len(tl \o y) = Len(tl) + Len(y)
          /\ At(tl, tl \o y, 0) /\ At(y, tl \o y, Len(tl))
      BY <1>1, <1>5, TwoPlaces, Zenon DEF tl
    <2> QED
      BY <2>1, <1>1, <1>5, SMT DEF tl
  <1> DEFINE tly == tl \o y
  <1> HIDE DEF tly
  <1>8. /\ tly \o s \in Seq(Nat) /\ Len(tly \o s) = 11
        /\ At(tly, tly \o s, 0) /\ At(s, tly \o s, 7)
    <2>1. /\ tly \o s \in Seq(Nat) /\ Len(tly \o s) = Len(tly) + Len(s)
          /\ At(tly, tly \o s, 0) /\ At(s, tly \o s, Len(tly))
      BY <1>1, <1>6, TwoPlaces, Zenon DEF tly
    <2> QED
      BY <2>1, <1>1, <1>6, SMT DEF tly
  <1>9. MessageWrite(h) \in Seq(Nat) /\ Len(MessageWrite(h)) = MessageLen(h.mfmt)
    <2>1. CASE h.mfmt = 0
      <3>1. MessageWrite(h) = tly \o s
        BY <2>1, <1>2 DEF tl, tly
      <3> QED
        BY <3>1, <2>1, <1>8, SMT DEF MessageLen
    <2>2. CASE h.mfmt = 1
      <3>1. MessageWrite(h) = tl \o y
        BY <2>2, <1>2 DEF tl
      <3> QED
        BY <3>1, <2>2, <1>6, SMT DEF MessageLen
    <2>3. CASE h.mfmt = 2
      BY <2>3, <1>1, <1>2, SMT DEF MessageLen
    <2>4. CASE h.mfmt = 3
      BY <2>4, <1>2, SMT DEF MessageLen
    <2> QED
      BY <2>1, <2>2, <2>3, <2>4, <1>0, SMT
  <1>10. ASSUME NEW b \in Seq(Nat), NEW n \in Nat, At(tly, b, n)
         PROVE  At(t, b, n) /\ At(l, b, n + 3) /\ b[n + 7] = h.type
    <2>1. tly \in Seq(Nat) /\ tl \in Seq(Nat)
      BY <1>5, <1>6 DEF tl, tly
    <2>2. At(tl, b, n + 0) /\ At(y, b, n + 6)
      BY <2>1, <1>1, <1>6, <1>10, PartOfPart, 0 \in Nat, 6 \in Nat, Zenon DEF tly
    <2>3. At(tl, b, n)
      BY <2>2, SMT
    <2>4. At(t, b, n + 0) /\ At(l, b, n + 3)
      BY <2>1, <2>3, <1>1, <1>5, PartOfPart, 0 \in Nat, 3 \in Nat, Zenon DEF tl
    <2>5. b[n + 6 + 1] = h.type
      BY <2>2, <1>1, <1>3, SMT DEF At
    <2> QED
      BY <2>4, <2>5, SMT
  <1>11. ASSUME NEW b \in Seq(Nat), NEW n \in Nat, At(MessageWrite(h), b, n)
         PROVE  /\ h.mfmt # 3 => At(t, b, n)
                /\ h.mfmt \in {0, 1} => At(l, b, n + 3) /\ b[n + 7] = h.type
                /\ h.mfmt = 0 => At(s, b, n + 7)
    <2>0. tly \in Seq(Nat)
      BY <1>6 DEF tly
    <2>1. CASE h.mfmt = 0
      <3>1. MessageWrite(h) = tly \o s
        BY <2>1, <1>2 DEF tl, tly
      <3>2. At(tly, b, n + 0) /\ At(s, b, n + 7)
        BY <3>1, <2>0, <1>1, <1>8, <1>11, PartOfPart, 0 \in Nat, 7 \in Nat, Zenon
      <3>3. At(tly, b, n)
        BY <3>2, SMT
      <3> QED
        BY <3>2, <3>3, <1>10
    <2>2. CASE h.mfmt = 1
      <3>1. MessageWrite(h) = tly
        BY <2>2, <1>2 DEF tl, tly
      <3> QED
        BY <3>1, <2>2, <1>10, <1>11, SMT
    <2>3. CASE h.mfmt = 2
      BY <2>3, <1>2, <1>11, SMT
    <2>4. CASE h.mfmt = 3
      BY <2>4, SMT
    <2> QED
      BY <2>1, <2>2, <2>3, <2>4, <1>0, SMT
  <1>12. ASSUME NEW b \in Seq(Nat), NEW n \in Nat, At(MessageWrite(h), b, n)
        PROVE  /\ h.mfmt # 3 => Uint24(b, n) = h.ts
               /\ h.mfmt \in {0, 1} => Uint24(b, n + 3) = h.len /\ Uint8(b, n + 6) = h.type
               /\ h.mfmt = 0 => LittleEndianUint32(b, n + 7) = h.msid
    <2>1. h.mfmt # 3 => Uint24(b, n) = h.ts
      BY <1>0, <1>4, <1>11, <1>12, Reads, SMT DEF t
    <2>2. h.mfmt \in {0, 1} => Uint24(b, n + 3) = h.len
      BY <1>0, <1>4, <1>11, <1>12, Reads, SMT DEF l
    <2>3. h.mfmt \in {0, 1} => Uint8(b, n + 6) = h.type
      BY <1>11, <1>12, SMT DEF Uint8
    <2>4. h.mfmt = 0 => LittleEndianUint32(b, n + 7) = h.msid
      BY <1>0, <1>11, <1>12, Reads, SMT DEF s
    <2> QED
      BY <2>1, <2>2, <2>3, <2>4
  <1> QED
    BY <1>9, <1>12, SMT

\* A header that fits and is written is read back from behind its basic header, to
\* its last byte and no further.
LEMMA FieldsRead ==
    ASSUME NEW h \in Headers, Fitting(h), BasicWrite(h) \in Seq(Nat), NEW b \in Seq(Nat),
           At(HeaderWrite(h), b, 0), BasicFormat(b) = h.bfmt
    PROVE  /\ HeaderWrite(h) \in Seq(Nat)
           /\ ~EndsEarly(b, Len(BasicWrite(h)))
           /\ HeaderEnd(b, Len(BasicWrite(h))) = Len(HeaderWrite(h))
           /\ FieldsOf(b, Len(BasicWrite(h)), h.id) = Carried(h)
           /\ At(BasicWrite(h), b, 0)
  <1> DEFINE x == BasicWrite(h)
             y == MessageWrite(h)
             z == IF HasExtended(h.ts) THEN PutUint32(h.ext) ELSE <<>>
             w == x \o y \o z
             n == Len(x)
  <1>0. /\ h \in Fields /\ h.ext \in Nat /\ h.ext <= Max32
        /\ h.mfmt \in Nat /\ h.mfmt < 4 /\ h.bfmt = h.mfmt /\ h.ts \in Nat
    BY SMT DEF Headers, Fields, Fitting
  <1>1. x \in Seq(Nat) /\ y \in Seq(Nat) /\ z \in Seq(Nat) /\ Len(y) = MessageLen(h.mfmt)
    <2>1. PutUint32(h.ext) \in Seq(Nat) /\ <<>> \in Seq(Nat)
      BY <1>0, PutTypes, SMT
    <2> QED
      BY <2>1, MessageReads, Zenon
  <1>2. HeaderWrite(h) = w
    BY Zenon DEF HeaderWrite
  <1>3. /\ HasExtended(h.ts) => Len(z) = 4 /\ z = PutUint32(h.ext)
        /\ ~HasExtended(h.ts) => Len(z) = 0
    BY <1>0, PutTypes, SMT
  <1> HIDE DEF x, y, z
  <1>4. /\ w \in Seq(Nat)
        /\ Len(w) = Len(x) + Len(y) + Len(z)
        /\ At(x, w, 0) /\ At(y, w, Len(x)) /\ At(z, w, Len(x) + Len(y))
    BY <1>1, Places, Zenon
  <1> HIDE DEF w
  <1>5. At(w, b, 0) /\ Len(b) \in Nat /\ Len(w) <= Len(b)
    <2>1. At(w, b, 0) /\ 0 + Len(w) <= Len(b)
      BY <1>2, Zenon DEF At
    <2> QED
      BY <2>1, <1>4, SMT
  <1>6. /\ Len(x) \in Nat /\ Len(y) \in Nat /\ Len(z) \in Nat
        /\ Len(x) + Len(y) \in Nat
    BY <1>1, SMT
  <1>7. At(x, b, 0) /\ At(y, b, Len(x)) /\ At(z, b, Len(x) + Len(y))
    <2>1. At(x, b, 0 + 0) /\ At(y, b, 0 + Len(x)) /\ At(z, b, 0 + (Len(x) + Len(y)))
      BY <1>1, <1>4, <1>5, <1>6, PartOfPart, 0 \in Nat, Zenon
    <2> QED
      BY <2>1, <1>6, SMT
  <1>8. BasicFormat(b) = h.mfmt
    BY <1>0
  <1>9. /\ h.mfmt # 3 => Uint24(b, n) = h.ts
        /\ h.mfmt \in {0, 1} => /\ Uint24(b, n + 3) = h.len
                                /\ Uint8(b, n + 6) = h.type
        /\ h.mfmt = 0 => LittleEndianUint32(b, n + 7) = h.msid
    BY <1>6, <1>7, MessageReads, Zenon DEF y
  <1>10. TimestampAt(b, n) = IF h.mfmt = 3 THEN 0 ELSE h.ts
    BY <1>8, <1>9, Zenon DEF TimestampAt
  <1>11. HasExtended(TimestampAt(b, n)) <=> HasExtended(h.ts)
    BY <1>0, <1>10, SMT DEF HasExtended, Fitting, Max24
  <1>12. ExtendedAt(b, n) = Len(x) + Len(y)
    BY <1>1, <1>8, Zenon DEF ExtendedAt
  <1>13. HeaderEnd(b, n) = Len(w)
    <2>1. HeaderEnd(b, n) = Len(x) + Len(y) + (IF HasExtended(h.ts) THEN 4 ELSE 0)
      BY <1>11, <1>12, Zenon DEF HeaderEnd
    <2>2. CASE HasExtended(h.ts)
      <3>1. HeaderEnd(b, n) = Len(x) + Len(y) + 4
        BY <2>1, <2>2, Zenon
      <3> QED
        BY <3>1, <2>2, <1>3, <1>4, Zenon
    <2>3. CASE ~HasExtended(h.ts)
      <3>1. HeaderEnd(b, n) = Len(x) + Len(y) + 0
        BY <2>1, <2>3, Zenon
      <3> QED
        BY <3>1, <2>3, <1>3, <1>4, Zenon
    <2> QED
      BY <2>2, <2>3, Zenon
  <1>14. HasExtended(h.ts) => Uint32(b, ExtendedAt(b, n)) = h.ext
    <2> SUFFICES ASSUME HasExtended(h.ts)
                 PROVE  Uint32(b, ExtendedAt(b, n)) = h.ext
      OBVIOUS
    <2> DEFINE q == Len(x) + Len(y)
    <2>1. At(PutUint32(h.ext), b, q) /\ q \in Nat
      BY <1>3, <1>6, <1>7, Zenon
    <2> HIDE DEF q
    <2>2. Uint32(b, q) = h.ext
      BY <2>1, <1>0, Reads32, Zenon
    <2> QED
      BY <2>2, <1>12, Zenon DEF q
  <1>15. ~EndsEarly(b, n)
    BY <1>4, <1>5, <1>6, <1>12, <1>13, SMT DEF EndsEarly
  <1>16. FieldsOf(b, n, h.id) = Carried(h)
    <2>1. FieldsOf(b, n, h.id) =
            [bfmt |-> h.mfmt, mfmt |-> h.mfmt, id |-> h.id,
             ts   |-> IF h.mfmt = 3 THEN 0 ELSE h.ts,
             len  |-> IF h.mfmt \in {0, 1} THEN h.len ELSE 0,
             type |-> IF h.mfmt \in {0, 1} THEN h.type ELSE 0,
             msid |-> IF h.mfmt = 0 THEN h.msid ELSE 0,
             ext  |-> IF HasExtended(h.ts) THEN h.ext ELSE 0]
      BY <1>8, <1>9, <1>10, <1>11, <1>14, Zenon DEF FieldsOf
    <2>2. HasExtended(h.ts) => h.mfmt # 3
      BY SMT DEF HasExtended, Fitting
    <2>3. (IF h.mfmt # 3 /\ HasExtended(h.ts) THEN h.ext ELSE 0)
            = (IF HasExtended(h.ts) THEN h.ext ELSE 0)
      BY <2>2, Zenon
    <2> QED
      BY <2>1, <2>3, <1>0, Zenon DEF Carried
  <1> QED
    BY <1>2, <1>4, <1>7, <1>13, <1>15, <1>16, Zenon DEF x

\* A header begins with its basic header.
LEMMA BasicFirst ==
    ASSUME NEW h \in Headers, Fitting(h), BasicWrite(h) \in Seq(Nat)
    PROVE  /\ HeaderWrite(h) \in Seq(Nat) /\ At(BasicWrite(h), HeaderWrite(h), 0)
           /\ Len(BasicWrite(h)) <= Len(HeaderWrite(h))
  <1> DEFINE x == BasicWrite(h)
             y == MessageWrite(h)
             z == IF HasExtended(h.ts) THEN PutUint32(h.ext) ELSE <<>>
             w == HeaderWrite(h)
  <1>1. x \in Seq(Nat) /\ y \in Seq(Nat) /\ z \in Seq(Nat)
    <2>1. PutUint32(h.ext) \in Seq(Nat) /\ <<>> \in Seq(Nat)
      <3>1. h.ext \in Nat
        BY SMT DEF Headers, Fields
      <3> QED
        BY <3>1, PutTypes, SMT
    <2> QED
      BY <2>1, MessageReads, Zenon
  <1>2. w = x \o y \o z
    BY Zenon DEF HeaderWrite
  <1> HIDE DEF w, x, y, z
  <1>3. w \in Seq(Nat) /\ At(x, w, 0) /\ Len(w) = Len(x) + Len(y) + Len(z)
    BY <1>1, <1>2, Places, Zenon
  <1>4. Len(x) <= Len(w)
    BY <1>1, <1>3, SMT
  <1> QED
    BY <1>3, <1>4, Zenon DEF x, w

-----------------------------------------------------------------------------
\* Every header that the bytes can express is read back as it was written, and the
\* read ends where the header does (Header.Write, Header.Read, and the headers of
\* which they are made).
THEOREM HeaderRoundTrip ==
    ASSUME NEW h \in Headers, Representable(h), NEW rest \in Seq(Nat)
    PROVE  RoundTrips(h, rest)
  <1> DEFINE x == BasicWrite(h)
             w == HeaderWrite(h)
             b == w \o rest
  <1>1. Fitting(h) /\ x \in Seq(Nat)
    <2>1. Fitting(h)
      BY DEF Representable
    <2>2. x \in Seq(Nat)
      BY BasicReads, Zenon
    <2> QED
      BY <2>1, <2>2
  <1>2. w \in Seq(Nat) /\ At(x, w, 0) /\ Len(x) <= Len(w) /\ Len(w) \in Nat
    <2>1. w \in Seq(Nat) /\ At(x, w, 0) /\ Len(x) <= Len(w)
      BY <1>1, BasicFirst, Zenon
    <2> QED
      BY <2>1, SMT
  <1> HIDE DEF w, x
  <1>3. b \in Seq(Nat) /\ At(w, b, 0) /\ Len(b) = Len(w) + Len(rest)
    BY <1>2, TwoPlaces, Zenon
  <1> HIDE DEF b
  <1>4. At(x, b, 0)
    <2>1. At(x, b, 0 + 0)
      BY <1>1, <1>2, <1>3, PartOfPart, 0 \in Nat, Zenon
    <2> QED
      BY <2>1, SMT
  <1>5. BasicLen(b) = Len(x) /\ BasicFormat(b) = h.bfmt /\ BasicId(b) = h.id
    <2>1. At(BasicWrite(h), b, 0)
      BY <1>4, Zenon DEF x
    <2> QED
      BY <2>1, <1>3, BasicReads, Zenon DEF x
  <1>6. /\ ~EndsEarly(b, Len(x)) /\ HeaderEnd(b, Len(x)) = Len(w)
        /\ FieldsOf(b, Len(x), h.id) = Carried(h)
    BY <1>1, <1>3, <1>5, FieldsRead, Zenon DEF x, w
  <1>7. Len(b) >= 1
    <2>1. BasicLen(b) \in {1, 2, 3}
      BY Zenon DEF BasicLen
    <2>2. Len(x) >= 1
      BY <2>1, <1>5, SMT
    <2> QED
      BY <2>2, <1>1, <1>2, <1>3, SMT
  <1>8. ~HeaderShort(b) /\ HeaderLen(b) = Len(w) /\ HeaderRead(b) = Carried(h)
    <2>1. ~(Len(b) < 1)
      BY <1>3, <1>7, SMT
    <2> QED
      BY <2>1, <1>5, <1>6, Zenon DEF HeaderShort, HeaderLen, HeaderRead
  <1> QED
    BY <1>8, Zenon DEF RoundTrips, b, w
=============================================================================
