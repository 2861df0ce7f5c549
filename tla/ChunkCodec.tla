----------------------------- MODULE ChunkCodec -----------------------------
(***************************************************************************)
(* The chunk header as bytes: package spec's binary helpers, BasicHeader,  *)
(* MessageHeader, ExtendedTimestamp and Header.  A header is a record of   *)
(* the two format ids (of the basic and of the message header), the chunk  *)
(* stream id, the timestamp, the length, the type, the message stream id   *)
(* and the extended timestamp.  TimestampDelta is left out: only Read sets *)
(* it, from the format, and nothing here looks at it.                      *)
(***************************************************************************)
EXTENDS Naturals, Sequences

Max24 == 16777215       \* 0xffffff

-----------------------------------------------------------------------------
(* spec: integers as bytes, each cut to the width of its type.             *)

PutUint16(n) == <<(n \div 256) % 256, n % 256>>
PutUint24(n) == <<(n \div 65536) % 256, (n \div 256) % 256, n % 256>>
PutUint32(n) == <<(n \div 16777216) % 256, (n \div 65536) % 256,
                  (n \div 256) % 256, n % 256>>
LittleEndianPutUint32(n) == <<n % 256, (n \div 256) % 256,
                              (n \div 65536) % 256, (n \div 16777216) % 256>>

\* Uint32 of a slice of up to four bytes that begins after the from-th byte of b;
\* pad puts zeros before it.
Uint8(b, from)  == b[from + 1]
Uint16(b, from) == b[from + 1] * 256 + b[from + 2]
Uint24(b, from) == b[from + 1] * 65536 + b[from + 2] * 256 + b[from + 3]
Uint32(b, from) == b[from + 1] * 16777216 + b[from + 2] * 65536
                     + b[from + 3] * 256 + b[from + 4]
LittleEndianUint32(b, from) == b[from + 4] * 16777216 + b[from + 3] * 65536
                                 + b[from + 2] * 256 + b[from + 1]

-----------------------------------------------------------------------------
(* BasicHeader.                                                            *)

\* BasicHeader.Write: one, two or three bytes.
BasicWrite(h) ==
    CASE h.id < 64 -> <<h.bfmt * 64 + h.id>>
      [] h.id >= 64 /\ h.id < 320 -> <<h.bfmt * 64, (h.id - 64) % 256>>
      [] OTHER -> <<h.bfmt * 64 + 63>> \o PutUint16(h.id - 64)

\* BasicHeader.Read: the low six bits of the first byte are the id, or a mark for
\* one (0) or two (63) more bytes.
BasicFormat(b) == b[1] \div 64
BasicLen(b) == CASE b[1] % 64 = 63 -> 3 [] b[1] % 64 = 0 -> 2 [] OTHER -> 1
BasicId(b) == CASE b[1] % 64 = 63 -> Uint16(b, 1) + 64
                [] b[1] % 64 = 0 -> Uint8(b, 1) + 64
                [] OTHER -> b[1] % 64

-----------------------------------------------------------------------------
(* MessageHeader and Header.                                               *)

\* MessageHeader.Write: the fields that the format has.
MessageWrite(h) ==
    CASE h.mfmt = 0 -> PutUint24(h.ts) \o PutUint24(h.len) \o <<h.type>>
                         \o LittleEndianPutUint32(h.msid)
      [] h.mfmt = 1 -> PutUint24(h.ts) \o PutUint24(h.len) \o <<h.type>>
      [] h.mfmt = 2 -> PutUint24(h.ts)
      [] OTHER -> <<>>

\* The bytes that MessageHeader.Read reads for a format.
MessageLen(f) == CASE f = 0 -> 11 [] f = 1 -> 7 [] f = 2 -> 3 [] OTHER -> 0

\* HasExtendedTimestamp
HasExtended(ts) == ts = Max24

\* Header.Write
HeaderWrite(h) ==
    BasicWrite(h) \o MessageWrite(h)
      \o (IF HasExtended(h.ts) THEN PutUint32(h.ext) ELSE <<>>)

\* What follows a basic header of n bytes in b: the timestamp, which format 3 does
\* not have, where the extended timestamp begins, and where the header ends.
TimestampAt(b, n) == IF BasicFormat(b) = 3 THEN 0 ELSE Uint24(b, n)
ExtendedAt(b, n)  == n + MessageLen(BasicFormat(b))
HeaderEnd(b, n)   == ExtendedAt(b, n) + (IF HasExtended(TimestampAt(b, n)) THEN 4 ELSE 0)

\* Does b end before the header is complete?
EndsEarly(b, n) == \/ Len(b) < n
                   \/ Len(b) < ExtendedAt(b, n)
                   \/ Len(b) < HeaderEnd(b, n)

\* The header with the chunk stream id found in its first n bytes.
FieldsOf(b, n, id) ==
    LET f == BasicFormat(b)
    IN  [bfmt |-> f, mfmt |-> f, id |-> id, ts |-> TimestampAt(b, n),
         len  |-> IF f \in {0, 1} THEN Uint24(b, n + 3) ELSE 0,
         type |-> IF f \in {0, 1} THEN Uint8(b, n + 6) ELSE 0,
         msid |-> IF f = 0 THEN LittleEndianUint32(b, n + 7) ELSE 0,
         ext  |-> IF HasExtended(TimestampAt(b, n)) THEN Uint32(b, ExtendedAt(b, n))
                  ELSE 0]

\* Header.Read into an empty Header: the bytes it reads, whether b ends before it
\* has read them, and what it finds if not.
HeaderLen(b)   == HeaderEnd(b, BasicLen(b))
HeaderShort(b) == Len(b) < 1 \/ EndsEarly(b, BasicLen(b))
HeaderRead(b)  == FieldsOf(b, BasicLen(b), BasicId(b))

-----------------------------------------------------------------------------
(* What the header carries.                                                *)

\* The fields that format h.mfmt has room for, the others being 0.
Carried(h) ==
    [bfmt |-> h.bfmt, mfmt |-> h.mfmt, id |-> h.id,
     ts   |-> IF h.mfmt = 3 THEN 0 ELSE h.ts,
     len  |-> IF h.mfmt \in {0, 1} THEN h.len ELSE 0,
     type |-> IF h.mfmt \in {0, 1} THEN h.type ELSE 0,
     msid |-> IF h.mfmt = 0 THEN h.msid ELSE 0,
     ext  |-> IF h.mfmt # 3 /\ HasExtended(h.ts) THEN h.ext ELSE 0]

\* A header that the fields have room for: no timestamp or length beyond 24 bits,
\* and no extended timestamp in format 3.
Fitting(h) ==
    /\ h.bfmt = h.mfmt
    /\ h.mfmt # 3 => h.ts <= Max24
    /\ h.mfmt = 3 => h.ts # Max24
    /\ h.mfmt \in {0, 1} => h.len <= Max24

\* The headers that Read can find again: not those with the ids 0 and 63, whose one
\* byte is a mark, and no id beyond 16 bits.
Representable(h) ==
    /\ Fitting(h)
    /\ (0 < h.id /\ h.id < 63) \/ (63 < h.id /\ h.id < 65600)

\* A header that was written is read back as it was, to its last byte and no
\* further, whatever follows it.
RoundTrips(h, rest) ==
    LET b == HeaderWrite(h) \o rest
    IN  /\ ~HeaderShort(b)
        /\ HeaderLen(b) = Len(HeaderWrite(h))
        /\ HeaderRead(b) = Carried(h)
=============================================================================
