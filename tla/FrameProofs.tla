----------------------------- MODULE FrameProofs -----------------------------
(***************************************************************************)
(* Frames of every length.  Numbers this large are for the SMT solver only. *)
(***************************************************************************)
EXTENDS Frame, TLAPS

LEMMA BytesBack ==
  ASSUME NEW n \in Lengths
  PROVE  /\ n <= 65535 => B1(n) * 256 + B0(n) = n
         /\ ((B3(n) * 256 + B2(n)) * 256 + B1(n)) * 256 + B0(n) = n
<1>1. n \in Nat /\ n \div 65536 < 65536
  BY SMT DEF Lengths
<1>2. n = (n \div 256) * 256 + (n % 256) /\ n \div 256 \in Nat
  BY SMT, <1>1
<1>3. n \div 256 = (n \div 65536) * 256 + ((n \div 256) % 256)
  BY SMT, <1>1
<1>4. n \div 65536 = (n \div 16777216) * 256 + ((n \div 65536) % 256)
  BY SMT, <1>1
<1>5. (n \div 16777216) % 256 = n \div 16777216
  BY SMT, <1>1
<1>6. n <= 65535 => (n \div 256) % 256 = n \div 256
  BY SMT, <1>1
<1> QED
  BY SMT, <1>2, <1>3, <1>4, <1>5, <1>6 DEF B0, B1, B2, B3

(* What readFrame makes of the bytes it looks at, without a mask and with. *)
LEMMA HeaderRead ==
  ASSUME NEW s, NEW n \in Nat, s[1] = 129,
         \/ n < 126 /\ s[2] = n /\ Len(s) = 2
         \/ s[2] = 126 /\ Uint16(s, 3) = n /\ Len(s) = 4
         \/ s[2] = 127 /\ Uint32(s, 3) = 0 /\ Uint32(s, 7) = n /\ Len(s) = 10
         \/ n < 126 /\ s[2] = 128 + n /\ Len(s) = 6
         \/ s[2] = 254 /\ Uint16(s, 3) = n /\ Len(s) = 8
         \/ s[2] = 255 /\ Uint32(s, 3) = 0 /\ Uint32(s, 7) = n /\ Len(s) = 14
  PROVE  ReadWhole(s, n)
<1>1. ~(s[1] < 128 \/ s[1] % 16 # 1)
  BY SMT
<1>2. CASE n < 126 /\ s[2] = n /\ Len(s) = 2
  <2>1. s[2] % 128 = n /\ (s[2] >= 128 <=> FALSE)
    BY SMT, <1>2
  <2> QED
    BY SMT, <1>1, <1>2, <2>1 DEF ReadWhole, readFrame
<1>3. CASE s[2] = 126 /\ Uint16(s, 3) = n /\ Len(s) = 4
  <2>1. s[2] % 128 = 126 /\ (s[2] >= 128 <=> FALSE)
    BY SMT, <1>3
  <2> QED
    BY SMT, <1>1, <1>3, <2>1 DEF ReadWhole, readFrame
<1>4. CASE s[2] = 127 /\ Uint32(s, 3) = 0 /\ Uint32(s, 7) = n /\ Len(s) = 10
  <2>1. s[2] % 128 = 127 /\ (s[2] >= 128 <=> FALSE)
    BY SMT, <1>4
  <2> QED
    BY SMT, <1>1, <1>4, <2>1 DEF ReadWhole, readFrame
<1>5. CASE n < 126 /\ s[2] = 128 + n /\ Len(s) = 6
  <2>1. s[2] % 128 = n /\ (s[2] >= 128 <=> TRUE)
    BY SMT, <1>5
  <2> QED
    BY SMT, <1>1, <1>5, <2>1 DEF ReadWhole, readFrame
<1>6. CASE s[2] = 254 /\ Uint16(s, 3) = n /\ Len(s) = 8
  <2>1. s[2] % 128 = 126 /\ (s[2] >= 128 <=> TRUE)
    BY SMT, <1>6
  <2> QED
    BY SMT, <1>1, <1>6, <2>1 DEF ReadWhole, readFrame
<1>7. CASE s[2] = 255 /\ Uint32(s, 3) = 0 /\ Uint32(s, 7) = n /\ Len(s) = 14
  <2>1. s[2] % 128 = 127 /\ (s[2] >= 128 <=> TRUE)
    BY SMT, <1>7
  <2> QED
    BY SMT, <1>1, <1>7, <2>1 DEF ReadWhole, readFrame
<1> QED
  BY SMT, <1>2, <1>3, <1>4, <1>5, <1>6, <1>7

(* A frame that buildTextFrame or a browser makes of a message of any      *)
(* length is read by readFrame as this message, to its end and no further, *)
(* on both sides of the lengths at which the encoding changes.             *)
THEOREM FramesAreRead ==
  ASSUME NEW n \in Lengths, NEW k
  PROVE  ReadWhole(buildTextFrame(n), n) /\ ReadWhole(BrowserFrame(n, k), n)
<1> DEFINE plain == buildTextFrame(n)
           masked == BrowserFrame(n, k)
<1>1. n \in Nat
  BY SMT DEF Lengths
<1>2. CASE n < 126
  <2>1. plain[1] = 129 /\ plain[2] = n /\ Len(plain) = 2
    BY SMT, <1>1, <1>2 DEF buildTextFrame
  <2>2. masked[1] = 129 /\ masked[2] = 128 + n /\ Len(masked) = 6
    BY SMT, <1>1, <1>2 DEF BrowserFrame
  <2> HIDE DEF plain, masked
  <2>3. ReadWhole(plain, n)
    BY SMT, <1>1, <1>2, <2>1, HeaderRead
  <2>4. ReadWhole(masked, n)
    BY SMT, <1>1, <1>2, <2>2, HeaderRead
  <2> QED
    BY SMT, <2>3, <2>4 DEF plain, masked
<1>3. CASE n \in 126 .. 65535
  <2>1. plain[1] = 129 /\ plain[2] = 126 /\ Len(plain) = 4
        /\ plain[3] = B1(n) /\ plain[4] = B0(n)
    BY SMT, <1>1, <1>3 DEF buildTextFrame
  <2>2. masked[1] = 129 /\ masked[2] = 254 /\ Len(masked) = 8
        /\ masked[3] = B1(n) /\ masked[4] = B0(n)
    BY SMT, <1>1, <1>3 DEF BrowserFrame
  <2> HIDE DEF plain, masked
  <2>3. Uint16(plain, 3) = n /\ Uint16(masked, 3) = n
    BY SMT, <1>1, <1>3, <2>1, <2>2, BytesBack DEF Uint16
  <2>4. ReadWhole(plain, n)
    BY SMT, <1>1, <2>1, <2>3, HeaderRead
  <2>5. ReadWhole(masked, n)
    BY SMT, <1>1, <2>2, <2>3, HeaderRead
  <2> QED
    BY SMT, <2>4, <2>5 DEF plain, masked
<1>4. CASE n > 65535
  <2>1. /\ plain[1] = 129 /\ plain[2] = 127 /\ Len(plain) = 10
        /\ plain[3] = 0 /\ plain[4] = 0 /\ plain[5] = 0 /\ plain[6] = 0
        /\ plain[7] = B3(n) /\ plain[8] = B2(n) /\ plain[9] = B1(n) /\ plain[10] = B0(n)
    BY SMT, <1>1, <1>4 DEF buildTextFrame
  <2>2. /\ masked[1] = 129 /\ masked[2] = 255 /\ Len(masked) = 14
        /\ masked[3] = 0 /\ masked[4] = 0 /\ masked[5] = 0 /\ masked[6] = 0
        /\ masked[7] = B3(n) /\ masked[8] = B2(n) /\ masked[9] = B1(n) /\ masked[10] = B0(n)
    BY SMT, <1>1, <1>4 DEF BrowserFrame
  <2> HIDE DEF plain, masked
  <2>3. /\ Uint32(plain, 3) = 0 /\ Uint32(plain, 7) = n
        /\ Uint32(masked, 3) = 0 /\ Uint32(masked, 7) = n
    BY SMT, <2>1, <2>2, BytesBack DEF Uint16, Uint32
  <2>4. ReadWhole(plain, n)
    BY SMT, <1>1, <2>1, <2>3, HeaderRead
  <2>5. ReadWhole(masked, n)
    BY SMT, <1>1, <2>2, <2>3, HeaderRead
  <2> QED
    BY SMT, <2>4, <2>5 DEF plain, masked
<1> QED
  BY SMT, <1>1, <1>2, <1>3, <1>4
=============================================================================
