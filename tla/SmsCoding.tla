------------------------------ MODULE SmsCoding ------------------------------
(***************************************************************************)
(* Messages as the network writes them, 3GPP TS 23.040 and 23.038, and     *)
(* what src/usbmodem/src/Core/GsmUtils.cpp makes of them.  The writing is  *)
(* the reference; it is not part of the repository.                        *)
(***************************************************************************)
EXTENDS GsmUtils, TLC

CONSTANT Messages  \* messages of the network, and texts of USSD

VARIABLES
  message,  \* what was sent
  decoded   \* what was decoded of it, <<>> before

codingVars == <<message, decoded>>

\* A character is <<table, code>>.
Codes(text) == [i \in DOMAIN text |-> text[i][2]]
NoMessage == [type |-> "none"]

-----------------------------------------------------------------------------
(* The reference: how messages are written. *)

Swapped(n) == ((n % 10) * 16) + (n \div 10)
RECURSIVE SumBits(_, _)
SumBits(f, n) == IF n < 0 THEN 0 ELSE f[n] * 2 ^ n + SumBits(f, n - 1)

\* Septets one after the other, the lowest bit first.
Packed(septets) ==
  LET BitAt(k) == IF k \div 7 < Len(septets) THEN Bits(septets[k \div 7 + 1], k % 7, k % 7) ELSE 0
  IN  [i \in 1 .. (Len(septets) * 7 + 7) \div 8 |->
         SumBits([b \in 0 .. 7 |-> BitAt(8 * (i - 1) + b)], 7)]

Septets(text) ==
  FlattenSeq([i \in DOMAIN text |-> IF text[i][1] = "ext" THEN <<27, text[i][2]>>
                                    ELSE <<text[i][2]>>])

Utf16(char) ==
  LET c == char[2]
      Pair(w) == <<w \div 256, w % 256>>
  IN  IF c < 65536 THEN Pair(c)
      ELSE Pair(55296 + ((c - 65536) \div 1024)) \o Pair(56320 + ((c - 65536) % 1024))

Utf8(char) ==
  LET c == char[2]
      Tail6(n) == 128 + ((c \div n) % 64)
  IN  IF c < 128 THEN <<c>>
      ELSE IF c < 2048 THEN <<192 + c \div 64, Tail6(1)>>
      ELSE IF c < 65536 THEN <<224 + c \div 4096, Tail6(64), Tail6(1)>>
      ELSE <<240 + c \div 262144, Tail6(4096), Tail6(64), Tail6(1)>>

FlatMap(Op(_), s) == FlattenSeq([i \in DOMAIN s |-> Op(s[i])])

\* The halves of a number's bytes, padded with ones.
Bcd(digits) ==
  LET all == IF Len(digits) % 2 = 1 THEN Append(digits, 15) ELSE digits
  IN  [i \in 1 .. Len(all) \div 2 |-> all[2 * i - 1] + 16 * all[2 * i]]

Address(a) ==
  IF a.type = 5
  THEN <<(Len(a.number) * 7 + 3) \div 4, 128 + 16 * 5>> \o Packed(Septets(a.number))
  ELSE <<Len(a.number), 129 + 16 * a.type>> \o Bcd(a.number)

Centre(a) ==
  IF a.number = <<>> THEN <<0>>
  ELSE <<Len(Bcd(a.number)) + 1, 129 + 16 * a.type>> \o Bcd(a.number)

Time(t) ==
  [i \in 1 .. 6 |-> Swapped(t.local[i] % 100)]
  \o <<LET q == (IF t.tz < 0 THEN - t.tz ELSE t.tz) \div 15
       IN  ((q % 10) * 16) + (q \div 10) + (IF t.tz < 0 THEN 8 ELSE 0)>>

Header(h) ==
  IF h = <<>> THEN <<>>
  ELSE <<2 + Len(h[2]), h[1], Len(h[2])>> \o h[2]

\* User data length and user data.
User(m) ==
  LET head == Header(m.header)
      fill == (Len(head) * 8 + 6) \div 7
      body == Packed([i \in 1 .. fill |-> 0] \o Septets(m.text))
      data == CASE m.enc = "7bit" -> [i \in DOMAIN body |-> IF i <= Len(head) THEN head[i]
                                                           ELSE body[i]]
                [] m.enc = "8bit" -> head \o Codes(m.text)
                [] OTHER          -> head \o FlatMap(Utf16, m.text)
  IN  <<IF m.enc = "7bit" THEN fill + Len(Septets(m.text)) ELSE Len(data)>> \o data

Flags(m) == (IF m.header = <<>> THEN 0 ELSE 64)
            + (IF m.type = "deliver" THEN 4 ELSE 1 + 8 * m.vpf)

Sent(m) ==
  Centre(m.smsc) \o <<Flags(m)>> \o
  (IF m.type = "deliver"
   THEN Address(m.addr) \o <<0, m.dcs>> \o Time(m.time)
   ELSE <<33>> \o Address(m.addr) \o <<0, m.dcs>> \o
        (CASE m.vpf = 0 -> <<>> [] m.vpf = 1 -> <<1, 2, 3, 4, 5, 6, 7>> [] m.vpf = 2 -> <<167>>
           [] OTHER -> Time(m.time)))
  \o User(m)

\* The bytes of a text without a message around it; the last character of a 7-bit
\* one is a carriage return when there is room for one more.
UssdData(m) ==
  LET septets == Septets(m.text)
  IN  CASE m.enc = "7bit" -> Packed(IF Len(septets) % 8 = 7 THEN Append(septets, 13) ELSE septets)
        [] m.enc = "8bit" -> Codes(m.text)
        [] OTHER          -> FlatMap(Utf16, m.text)

-----------------------------------------------------------------------------
(* Decoding. *)

CodingInit == message \in Messages /\ decoded = <<>>

\* decodePduToSms(): a message, then its user data.
DecodeMessage ==
  /\ message.type \in {"deliver", "submit"} /\ decoded = <<>>
  /\ LET pdu  == DecodePdu(Sent(message), message.type = "submit")
         data == IF pdu.ok THEN DecodeSmsDcsData(pdu) ELSE None
     IN  decoded' = IF data.ok THEN <<pdu, data>> ELSE <<None>>
  /\ UNCHANGED message

\* handleUssdResponse()
DecodeUssd ==
  /\ message.type = "ussd" /\ decoded = <<>>
  /\ decoded' = <<DecodeCbsDcsString(UssdData(message), message.dcs)>>
  /\ UNCHANGED message

CodingNext == DecodeMessage \/ DecodeUssd

-----------------------------------------------------------------------------
(* Properties. *)

\* The text as the program shows it.
Shown(m) ==
  CASE m.enc = "7bit" -> m.text [] m.enc = "8bit" -> Codes(m.text)
    [] OTHER -> FlatMap(Utf8, m.text)

\* 0xFFFF and 0x10FFFF are taken for codes of the next length (GsmUtils.cpp:680-690).
Writable(m) == m.enc = "ucs2" => {65535, 1114111} \cap ToSet(Codes(m.text)) = {}

\* A message is decoded to what was sent: the numbers, the time, the text and the
\* header that joins its parts, with all the lengths and offsets, in half-bytes,
\* in septets and in bytes, that depend on one another; and so is a text of USSD,
\* but for one that leaves room for a character: its padding is shown.
DecodedAsSent ==
  decoded # <<>> /\ Writable(message) =>
    LET first  == decoded[1]
        second == decoded[2]
    IN  IF message.type = "ussd"
        THEN /\ first.ok
             /\ first.text = IF message.enc = "7bit" /\ Len(Septets(message.text)) % 8 = 7
                             THEN Append(message.text, <<"basic", 13>>) ELSE Shown(message)
        ELSE /\ first.ok
             /\ first.addr.type = message.addr.type /\ first.addr.number = message.addr.number
             /\ message.type = "deliver" =>
                  first.dt.local = message.time.local /\ first.dt.tz = message.time.tz
             /\ second.text = Shown(message)
             /\ second.concatenated =
                  (CASE message.header = <<>> -> <<>>
                     [] message.header[1] = 0 -> message.header[2]
                     [] message.header[1] = 8 -> <<256 * message.header[2][1] + message.header[2][2],
                                                   message.header[2][3], message.header[2][4]>>
                     [] OTHER -> <<>>)

=============================================================================
