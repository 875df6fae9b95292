------------------------------- MODULE Frame -------------------------------
(***************************************************************************)
(* The frames that messages travel in (transport/websocket_frame.go), as   *)
(* far as they keep the stream together: how long the payload is said to   *)
(* be, and how many bytes a reader takes from the stream.  A payload is    *)
(* its length; that a mask undoes itself is left out.  The frames of the   *)
(* browser are external (RFC 6455): as short as they can be, and masked.   *)
(***************************************************************************)
EXTENDS Naturals, Sequences

(* Lengths that buildTextFrame has bytes for: it writes the low 32 bits. *)
Lengths == {n \in Nat : n \div 65536 < 65536}

(* The bytes of a length, the lowest first. *)
B0(n) == n % 256
B1(n) == (n \div 256) % 256
B2(n) == (n \div 65536) % 256
B3(n) == (n \div 16777216) % 256

(* What buildTextFrame puts before n bytes of payload. *)
buildTextFrame(n) ==
  IF n < 126 THEN <<129, n>>
  ELSE IF n <= 65535 THEN <<129, 126, B1(n), B0(n)>>
  ELSE <<129, 127, 0, 0, 0, 0, B3(n), B2(n), B1(n), B0(n)>>

(* What a browser puts there: the same with the mask bit and a key. *)
BrowserFrame(n, k) ==
  IF n < 126 THEN <<129, 128 + n, k[1], k[2], k[3], k[4]>>
  ELSE IF n <= 65535 THEN <<129, 254, B1(n), B0(n), k[1], k[2], k[3], k[4]>>
  ELSE <<129, 255, 0, 0, 0, 0, B3(n), B2(n), B1(n), B0(n), k[1], k[2], k[3], k[4]>>

(* binary.BigEndian. *)
Uint16(s, i) == s[i] * 256 + s[i + 1]
Uint32(s, i) == (Uint16(s, i) * 256 + s[i + 2]) * 256 + s[i + 3]

Failed == [payload |-> 0, taken |-> 0]

(* readFrame: the length of the payload, and what is taken from the stream *)
(* with it.  Fragments and all but text end the connection.                *)
readFrame(s) ==
  LET short == s[2] % 128
      payload == CASE short = 126 -> Uint16(s, 3)
                   [] short = 127 -> Uint32(s, 3) * 65536 * 65536 + Uint32(s, 7)
                   [] OTHER -> short
      extended == CASE short = 126 -> 2 [] short = 127 -> 8 [] OTHER -> 0
      mask == IF s[2] >= 128 THEN 4 ELSE 0
  IN  IF s[1] < 128 \/ s[1] % 16 # 1 THEN Failed
      ELSE [payload |-> payload, taken |-> 2 + extended + mask + payload]

-----------------------------------------------------------------------------
(* What is written is read: the payload as long as it is, the stream as    *)
(* far as the frame goes, so that the next frame begins where it does.     *)
ReadWhole(s, n) == readFrame(s) = [payload |-> n, taken |-> Len(s) + n]
=============================================================================
