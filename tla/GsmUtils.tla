------------------------------- MODULE GsmUtils -------------------------------
(***************************************************************************)
(* How the messages of the network are decoded, src/usbmodem/src/Core/     *)
(* GsmUtils.cpp and the BinaryBufferReader it reads with.  A string is a   *)
(* sequence of bytes, 0 .. 255; what cannot be decoded is None.  The       *)
(* tables of the 7-bit alphabet are not copied: a character is named by    *)
(* the table it stands in and its place there.                             *)
(***************************************************************************)
EXTENDS Integers, Sequences, SequencesExt

None == [ok |-> FALSE]

\* Bits lo .. hi of a byte.
Bits(byte, lo, hi) == (byte \div 2 ^ lo) % 2 ^ (hi - lo + 1)
Bit(byte, n) == Bits(byte, n, n) = 1

-----------------------------------------------------------------------------
(* BinaryBufferReader: the data and an offset.                               *)

Avail(data, at, n) == at + n <= Len(data)
UInt8(data, at) == data[at + 1]
UInt16BE(data, at) == 256 * data[at + 1] + data[at + 2]
ReadString(data, at, n) == SubSeq(data, at + 1, at + n)

-----------------------------------------------------------------------------
(* Alphabets. *)

\* unpack7bit(): character i has the rest of one byte and the beginning of the next.
Unpack7bit(data, max) ==
  LET total == IF max <= (Len(data) * 8) \div 7 THEN max ELSE (Len(data) * 8) \div 7
      Char(i) ==
        LET at    == (i * 7) \div 8 + 1
            shift == (i * 7) % 8
            size  == IF 8 - shift < 7 THEN 8 - shift ELSE 7
        IN  Bits(data[at], shift, shift + size - 1)
            + (IF size < 7 THEN Bits(data[at + 1], 0, 6 - size) * 2 ^ size ELSE 0)
  IN  [i \in 1 .. total |-> Char(i - 1)]

Escape == 27
Extended == {10, 20, 27, 40, 41, 47, 60, 61, 62, 64, 101}
Space == <<"basic", 32>>

\* convertGsmToUtf8(): an escape takes the next character from the second table.
ConvertGsmToUtf8(septets) ==
  LET Add(acc, c) ==
        CASE acc.escape /\ c \in Extended -> [out |-> Append(acc.out, <<"ext", c>>),
                                              escape |-> FALSE]
          [] acc.escape /\ c \notin Extended ->
               [out |-> acc.out \o <<Space, <<"basic", c>>>>, escape |-> FALSE]
          [] ~ acc.escape /\ c = Escape -> [acc EXCEPT !.escape = TRUE]
          [] OTHER -> [acc EXCEPT !.out = Append(@, <<"basic", c>>)]
      all == FoldLeft(Add, [out |-> <<>>, escape |-> FALSE], septets)
  IN  IF all.escape THEN Append(all.out, Space) ELSE all.out

\* strAppendCodepoint(): UTF-8, empty for an invalid code.  The last code of each
\* of the two longer ranges, 0xFFFF and 0x10FFFF, is taken for one of the next.
StrAppendCodepoint(value) ==
  LET Tail6(n) == 128 + Bits(value, n, n + 5)
  IN  CASE value < 128 -> <<value>>
        [] value \in 128 .. 2047 -> <<192 + value \div 64, Tail6(0)>>
        [] value \in 2048 .. 65534 /\ value \notin 56320 .. 57343 ->
             <<224 + value \div 4096, Tail6(6), Tail6(0)>>
        [] value \in 65535 .. 1114110 ->
             <<240 + value \div 262144, Tail6(12), Tail6(6), Tail6(0)>>
        [] OTHER -> <<>>

\* convertUcs2ToUtf8(): a high surrogate needs a low one after it.
ConvertUcs2ToUtf8(data) ==
  LET RECURSIVE From(_)
      From(at) ==
        IF at >= Len(data) THEN [ok |-> TRUE, text |-> <<>>]
        ELSE LET w1    == UInt16BE(data, at)
                 pair  == w1 \in 55296 .. 56319
                 low   == IF pair /\ Avail(data, at, 4) THEN UInt16BE(data, at + 2) ELSE 0
                 value == IF pair THEN (w1 - 55296) * 1024 + (low - 56320) + 65536 ELSE w1
                 rest  == From(at + IF pair THEN 4 ELSE 2)
             IN  IF (pair => low \in 56320 .. 57343) /\ StrAppendCodepoint(value) # <<>>
                    /\ rest.ok
                 THEN [ok |-> TRUE, text |-> StrAppendCodepoint(value) \o rest.text]
                 ELSE None
  IN  IF Len(data) % 2 = 0 THEN From(0) ELSE None

\* decodeBcd(): the first half-byte of ones ends the number.
DecodeBcd(data) ==
  LET halves == [i \in 1 .. 2 * Len(data) |->
                   IF i % 2 = 1 THEN Bits(data[(i + 1) \div 2], 0, 3)
                   ELSE Bits(data[i \div 2], 4, 7)]
  IN  SubSeq(halves, 1, SelectInSeq(Append(halves, 15), LAMBDA h : h = 15) - 1)

-----------------------------------------------------------------------------
(* Data coding schemes. *)

CharsetOf(bits) == CASE bits = 0 -> "7bit" [] bits = 1 -> "8bit" [] OTHER -> "ucs2"

\* decodeSmsDcs()
DecodeSmsDcs(dcs) ==
  LET group == Bits(dcs, 4, 7)
  IN  CASE group <= 7 /\ Bits(dcs, 2, 3) # 3 -> [ok |-> TRUE, enc |-> CharsetOf(Bits(dcs, 2, 3)),
                                                 compression |-> Bit(dcs, 5)]
        [] group \in {12, 13} -> [ok |-> TRUE, enc |-> "7bit", compression |-> FALSE]
        [] group = 14 -> [ok |-> TRUE, enc |-> "ucs2", compression |-> FALSE]
        [] group = 15 -> [ok |-> TRUE, enc |-> CharsetOf(Bits(dcs, 2, 2)), compression |-> FALSE]
        [] OTHER -> None

\* decodeCbsDcs(), without the language, which nothing reads.
DecodeCbsDcs(dcs) ==
  LET group == Bits(dcs, 4, 7)
      Plain(enc) == [ok |-> TRUE, enc |-> enc, compression |-> FALSE, iso |-> FALSE]
  IN  CASE group \in {0, 2, 3} -> Plain("7bit")
        [] group = 1 -> [Plain(IF dcs % 16 = 1 THEN "ucs2" ELSE "7bit") EXCEPT !.iso = TRUE]
        [] group \in 4 .. 7 /\ Bits(dcs, 2, 3) # 3 ->
             [Plain(CharsetOf(Bits(dcs, 2, 3))) EXCEPT !.compression = Bit(dcs, 5)]
        [] group = 15 -> Plain(CharsetOf(Bits(dcs, 2, 2)))
        [] OTHER -> None

\* decodeCbsDcsString(): the text of a USSD, of which only the bytes are counted.
DecodeCbsDcsString(data, dcs) ==
  LET coding == DecodeCbsDcs(dcs)
  IN  IF ~ coding.ok \/ coding.compression \/ coding.iso THEN None
      ELSE CASE coding.enc = "7bit" ->
                  [ok |-> TRUE,
                   text |-> ConvertGsmToUtf8(Unpack7bit(data, (Len(data) * 8) \div 7))]
             [] coding.enc = "8bit" -> [ok |-> TRUE, text |-> data]
             [] OTHER -> ConvertUcs2ToUtf8(data)

-----------------------------------------------------------------------------
(* The parts of a message. *)

\* decodePduAddr(): the length counts bytes with the type for the service centre,
\* half-bytes without it for the others.
DecodePduAddr(data, at, smsc) ==
  LET len   == UInt8(data, at)
      bytes == IF smsc THEN len - 1 ELSE (len + 1) \div 2
      type  == Bits(UInt8(data, at + 1), 4, 6)
      raw   == ReadString(data, at + 2, bytes)
      chars == IF smsc THEN (bytes * 8) \div 7 ELSE (len * 4) \div 7
  IN  IF Avail(data, at, 1) /\ len = 0
      THEN [ok |-> TRUE, at |-> at + 1, type |-> 0, number |-> <<>>]
      ELSE IF ~ Avail(data, at, 2) \/ ~ Avail(data, at, 2 + bytes) THEN None
      ELSE [ok |-> TRUE, at |-> at + 2 + bytes, type |-> type,
            number |-> IF type = 5 THEN ConvertGsmToUtf8(Unpack7bit(raw, chars))
                       ELSE DecodeBcd(raw)]

\* decodePduDateTime(): the local time and its distance from UTC in minutes; the
\* timestamp is the difference.
DecodePduDateTime(data, at) ==
  LET Field(i) == Bits(data[at + i], 0, 3) * 10 + Bits(data[at + i], 4, 7)
      zone     == data[at + 7]
      minutes  == (Bits(zone, 0, 2) * 10 + Bits(zone, 4, 7)) * 15
      tz       == IF Bit(zone, 3) THEN - minutes ELSE minutes
  IN  IF /\ Avail(data, at, 7)
         /\ Field(1) <= 99 /\ Field(2) \in 1 .. 12 /\ Field(3) \in 1 .. 31
         /\ Field(4) <= 23 /\ Field(5) <= 59 /\ Field(6) <= 59
         /\ tz <= 14 * 60 /\ tz >= - 12 * 60
      THEN [ok |-> TRUE, at |-> at + 7, tz |-> tz,
            local |-> <<Field(1) + IF Field(1) > 80 THEN 1900 ELSE 2000, Field(2), Field(3),
                        Field(4), Field(5), Field(6)>>]
      ELSE None

\* decodePduValidityPeriodFormat(): only skipped, nothing reads it.
DecodePduValidityPeriod(data, at, vpf) ==
  LET size == CASE vpf = 0 -> 0 [] vpf = 2 -> 1 [] OTHER -> 7
  IN  IF vpf = 3 THEN DecodePduDateTime(data, at)
      ELSE IF Avail(data, at, size) THEN [ok |-> TRUE, at |-> at + size] ELSE None

\* decodeUserDataHeader(): the elements it knows, and the length with its own byte.
\* The first of the ports is called the source, though it is the destination.
DecodeUserDataHeader(data) ==
  LET size == data[1] + 1
      udh  == SubSeq(data, 1, size)
      RECURSIVE From(_, _)
      From(at, header) ==
        IF at >= size THEN [header EXCEPT !.ok = TRUE]
        ELSE IF ~ Avail(udh, at, 2) THEN None
        ELSE LET type == UInt8(udh, at)
                 len  == UInt8(udh, at + 1)
                 Concatenated(ref, p) == [header EXCEPT !.concatenated =
                                            <<ref, UInt8(udh, p), UInt8(udh, p + 1)>>]
                 wanted == CASE type = 0 -> 3 [] type = 4 -> 2 [] type \in {5, 8} -> 4
                             [] OTHER -> len
             IN  IF len # wanted \/ ~ Avail(udh, at, 2 + len) THEN None
                 ELSE From(at + 2 + len,
                           CASE type = 0 -> Concatenated(UInt8(udh, at + 2), at + 3)
                             [] type = 8 -> Concatenated(UInt16BE(udh, at + 2), at + 4)
                             [] type = 4 -> [header EXCEPT !.ports = <<UInt8(udh, at + 2),
                                                                      UInt8(udh, at + 3)>>]
                             [] type = 5 -> [header EXCEPT !.ports = <<UInt16BE(udh, at + 2),
                                                                      UInt16BE(udh, at + 4)>>]
                             [] OTHER -> header)
  IN  IF data = <<>> \/ size > Len(data) THEN None
      ELSE From(1, [ok |-> FALSE, size |-> size, concatenated |-> <<>>, ports |-> <<>>])

\* udlToBytes()
UdlToBytes(udl, dcs) ==
  LET coding == DecodeSmsDcs(dcs)
  IN  IF ~ coding.ok THEN 0
      ELSE IF ~ coding.compression /\ coding.enc = "7bit" THEN ((udl + 1) * 7) \div 8
      ELSE udl

MaxDataSize == 140

-----------------------------------------------------------------------------
(* Messages. *)

\* The end of decodePduDeliver() and of decodePduSubmit(): length and user data.
UserData(data, at, pdu) ==
  LET udl   == UInt8(data, at)
      bytes == UdlToBytes(udl, pdu.dcs)
  IN  IF ~ Avail(data, at, 1) \/ bytes > MaxDataSize \/ ~ Avail(data, at + 1, bytes) THEN None
      ELSE pdu @@ [udl |-> udl, data |-> ReadString(data, at + 1, bytes)]

\* decodePduDeliver()
DecodePduDeliver(data, at, flags) ==
  LET src == DecodePduAddr(data, at, FALSE)
      dt  == DecodePduDateTime(data, src.at + 2)
  IN  IF ~ src.ok \/ ~ Avail(data, src.at, 2) \/ ~ dt.ok THEN None
      ELSE UserData(data, dt.at, [ok |-> TRUE, type |-> "deliver", udhi |-> Bit(flags, 6),
                                  addr |-> src, dt |-> dt, dcs |-> UInt8(data, src.at + 1)])

\* decodePduSubmit()
DecodePduSubmit(data, at, flags) ==
  LET dst == DecodePduAddr(data, at + 1, FALSE)
      vp  == DecodePduValidityPeriod(data, dst.at + 2, Bits(flags, 3, 4))
  IN  IF ~ Avail(data, at, 1) \/ ~ dst.ok \/ ~ Avail(data, dst.at, 2) \/ ~ vp.ok THEN None
      ELSE UserData(data, vp.at, [ok |-> TRUE, type |-> "submit", udhi |-> Bit(flags, 6),
                                  addr |-> dst, dcs |-> UInt8(data, dst.at + 1)])

\* decodePdu(): the direction decides between the types with the same bits.
DecodePdu(data, toSmsc) ==
  LET smsc  == DecodePduAddr(data, 0, TRUE)
      flags == UInt8(data, smsc.at)
  IN  IF ~ smsc.ok \/ ~ Avail(data, smsc.at, 1) THEN None
      ELSE CASE ~ toSmsc /\ Bits(flags, 0, 1) = 0 -> DecodePduDeliver(data, smsc.at + 1, flags)
             [] toSmsc /\ Bits(flags, 0, 1) = 1 -> DecodePduSubmit(data, smsc.at + 1, flags)
             [] OTHER -> None

\* Mutant of DecodeSmsDcsData: the fill bits after the header are not counted.
NoFillBits(pdu) ==
  LET coding == DecodeSmsDcs(pdu.dcs)
      header == IF pdu.udhi THEN DecodeUserDataHeader(pdu.data)
                ELSE [ok |-> TRUE, size |-> 0, concatenated |-> <<>>, ports |-> <<>>]
      skip   == IF coding.enc = "7bit" THEN (header.size * 8) \div 7 ELSE header.size
      all    == IF coding.enc = "7bit" THEN Unpack7bit(pdu.data, pdu.udl) ELSE pdu.data
      bytes  == SubSeq(all, skip + 1, Len(all))
      ucs2   == ConvertUcs2ToUtf8(bytes)
  IN  IF ~ coding.ok \/ ~ header.ok \/ (coding.enc = "ucs2" /\ ~ ucs2.ok) THEN None
      ELSE [ok |-> TRUE, concatenated |-> header.concatenated, ports |-> header.ports,
            text |-> CASE coding.enc = "7bit" -> ConvertGsmToUtf8(bytes)
                       [] coding.enc = "8bit" -> bytes
                       [] OTHER -> ucs2.text]

\* decodeSmsDcsData(): the header counts for as many characters as its bytes and
\* the fill bits take.  One longer than the data throws, here it leaves no text.
DecodeSmsDcsData(pdu) ==
  LET coding == DecodeSmsDcs(pdu.dcs)
      header == IF pdu.udhi THEN DecodeUserDataHeader(pdu.data)
                ELSE [ok |-> TRUE, size |-> 0, concatenated |-> <<>>, ports |-> <<>>]
      skip   == IF coding.enc = "7bit" THEN (header.size * 8 + 6) \div 7 ELSE header.size
      all    == IF coding.enc = "7bit" THEN Unpack7bit(pdu.data, pdu.udl) ELSE pdu.data
      bytes  == SubSeq(all, skip + 1, Len(all))
      ucs2   == ConvertUcs2ToUtf8(bytes)
  IN  IF ~ coding.ok \/ ~ header.ok \/ (coding.enc = "ucs2" /\ ~ ucs2.ok) THEN None
      ELSE [ok |-> TRUE, concatenated |-> header.concatenated, ports |-> header.ports,
            text |-> CASE coding.enc = "7bit" -> ConvertGsmToUtf8(bytes)
                       [] coding.enc = "8bit" -> bytes
                       [] OTHER -> ucs2.text]

=============================================================================
