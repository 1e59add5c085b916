---------------------------- MODULE ProtocolMessage ----------------------------
(***************************************************************************)
(* The header of a frame: protocol_message announces in four bytes, the    *)
(* most significant first, how long the body behind them is. Network has   *)
(* what is done with the frames.                                           *)
(***************************************************************************)
EXTENDS Integers, Sequences

MaxBodyLength == 240 * 1000

\* body_length: what is longer than the buffer is cut.
BodyLength(size) == IF size > MaxBodyLength THEN MaxBodyLength ELSE size

\* encode_header: & 255 and >> 8.
Low(n) == n % 256
Shifted(n) == n \div 256
EncodeHeader(length) ==
  << Low(Shifted(Shifted(Shifted(length)))), Low(Shifted(Shifted(length))), Low(Shifted(length)), Low(length) >>

\* set_message: the header is encoded from the length that is left, of which that
\* many bytes of the message follow.
SetMessage(size) ==
  [header |-> EncodeHeader(BodyLength(size)), copied |-> BodyLength(size)]

\* decode_header: an int whose sign bit may be set, read as unsigned.
Announced(header) == 256 * (256 * (256 * header[1] + header[2]) + header[3]) + header[4]
DecodeHeader(header) ==
  IF Announced(header) > MaxBodyLength
  THEN [accepted |-> FALSE, length |-> 0]
  ELSE [accepted |-> TRUE, length |-> Announced(header)]
=============================================================================
