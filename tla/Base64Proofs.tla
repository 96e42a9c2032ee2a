----------------------------- MODULE Base64Proofs -----------------------------
(***************************************************************************)
(* Proofs about the base64 codec: decoding inverts encoding, for every     *)
(* byte string, and stays within the buffer asked for.                     *)
(***************************************************************************)
EXTENDS Base64, TLAPS

\* The characters of the alphabet in the encoding of len bytes.
Chars(len) == (4 * len + 2) \div 3

-----------------------------------------------------------------------------
(* Arithmetic of the lengths *)

LEMMA Lengths ==
    ASSUME NEW len \in Nat
    PROVE  /\ Chars(len) \in Nat
           /\ Chars(len) < Base64encode_len(len)
           /\ Base64encode_len(len) \in Nat
           /\ nbytesdecoded(Chars(len)) = len
  <1>1. PICK q \in Nat, r \in 0..2 : len = 3 * q + r
    <2>1. len = 3 * (len \div 3) + (len % 3) /\ len \div 3 \in Nat /\ (len % 3) \in 0..2
      OBVIOUS
    <2> QED
      BY <2>1
  <1>2. CASE r = 0
    BY <1>1, <1>2 DEF Chars, Base64encode_len, nbytesdecoded
  <1>3. CASE r = 1
    BY <1>1, <1>3 DEF Chars, Base64encode_len, nbytesdecoded
  <1>4. CASE r = 2
    BY <1>1, <1>4 DEF Chars, Base64encode_len, nbytesdecoded
  <1> QED
    BY <1>1, <1>2, <1>3, <1>4

\* Place j of the text, in group q with rest m.
LEMMA Place ==
    ASSUME NEW len \in Nat, NEW q \in Nat, NEW m \in 0..3
    PROVE  4 * q + m + 1 <= Chars(len) <=> 3 * q + m <= len /\ 3 * q < len
  BY DEF Chars

-----------------------------------------------------------------------------
(* Arithmetic of the groups *)

LEMMA SextetType ==
    ASSUME NEW m \in 0..3, NEW b1 \in Byte, NEW b2 \in Byte, NEW b3 \in Byte
    PROVE  SextetOf(m, b1, b2, b3) \in Sextet
  <1>1. CASE m = 0
    BY <1>1 DEF SextetOf, Sextet, Byte
  <1>2. CASE m = 1
    BY <1>2 DEF SextetOf, Sextet, Byte
  <1>3. CASE m = 2
    BY <1>3 DEF SextetOf, Sextet, Byte
  <1>4. CASE m = 3
    BY <1>4 DEF SextetOf, Sextet, Byte
  <1> QED
    BY <1>1, <1>2, <1>3, <1>4

\* A byte is made of the same two sextets it was split into.
LEMMA GroupInverse ==
    ASSUME NEW b1 \in Byte, NEW b2 \in Byte, NEW b3 \in Byte
    PROVE  /\ OctetOf(0, SextetOf(0, b1, b2, b3), SextetOf(1, b1, b2, b3)) = b1
           /\ OctetOf(1, SextetOf(1, b1, b2, b3), SextetOf(2, b1, b2, b3)) = b2
           /\ OctetOf(2, SextetOf(2, b1, b2, b3), SextetOf(3, b1, b2, b3)) = b3
  <1>1. ((b1 \div 4) * 4 + ((b1 % 4) * 16 + b2 \div 16) \div 16) % 256 = b1
    BY DEF Byte
  <1>2. (((b1 % 4) * 16 + b2 \div 16) * 16 + ((b2 % 16) * 4 + b3 \div 64) \div 4) % 256
            = b2
    BY DEF Byte
  <1>3. (((b2 % 16) * 4 + b3 \div 64) * 64 + (b3 % 64)) % 256 = b3
    BY DEF Byte
  <1> DEFINE c(m) == SextetOf(m, b1, b2, b3)
  <1>4. /\ c(0) = b1 \div 4
        /\ c(1) = (b1 % 4) * 16 + b2 \div 16
        /\ c(2) = (b2 % 16) * 4 + b3 \div 64
        /\ c(3) = b3 % 64
    BY DEF SextetOf
  <1>5. /\ OctetOf(0, c(0), c(1)) = (c(0) * 4 + c(1) \div 16) % 256
        /\ OctetOf(1, c(1), c(2)) = (c(1) * 16 + c(2) \div 4) % 256
        /\ OctetOf(2, c(2), c(3)) = (c(2) * 64 + c(3)) % 256
    BY DEF OctetOf
  <1> HIDE DEF c
  <1>6. /\ OctetOf(0, c(0), c(1)) = b1
        /\ OctetOf(1, c(1), c(2)) = b2
        /\ OctetOf(2, c(2), c(3)) = b3
    BY <1>1, <1>2, <1>3, <1>4, <1>5
  <1> QED
    BY <1>6 DEF c

-----------------------------------------------------------------------------
(* The text *)

\* Byte k of a string, 0 past its end.
ByteAt(s, k) == IF k <= Len(s) THEN s[k] ELSE 0

LEMMA BytesOf ==
    ASSUME NEW s \in Seq(Byte), NEW k \in Nat \ {0}
    PROVE  ByteAt(s, k) \in Byte
  <1>1. \A i \in 1..Len(s) : s[i] \in Byte
    OBVIOUS
  <1>2. 0 \in Byte
    BY DEF Byte
  <1> QED
    BY <1>1, <1>2 DEF ByteAt

LEMMA EncodedAt ==
    ASSUME NEW s \in Seq(Byte), NEW q \in Nat, NEW m \in 0..3,
           4 * q + m + 1 <= Chars(Len(s))
    PROVE  /\ Base64encode(s)[4 * q + m + 1] =
                  SextetOf(m, ByteAt(s, 3 * q + 1), ByteAt(s, 3 * q + 2),
                           ByteAt(s, 3 * q + 3))
           /\ Base64encode(s)[4 * q + m + 1] \in Sextet
  <1> DEFINE j == 4 * q + m + 1
             size == Base64encode_len(Len(s))
  <1>1. /\ Len(s) \in Nat /\ size \in Nat
        /\ Chars(Len(s)) \in Nat /\ Chars(Len(s)) < size
    BY Lengths
  <1>2. j \in 1..size /\ j # size
    BY <1>1
  <1>3. (j - 1) \div 4 = q /\ (j - 1) % 4 = m
    OBVIOUS
  <1>4. Len(s) \in Nat /\ ~(3 * q + m > Len(s))
    BY <1>1, Place
  <1>5. Base64encode(s)[j] = SextetOf(m, ByteAt(s, 3 * q + 1), ByteAt(s, 3 * q + 2),
                                      ByteAt(s, 3 * q + 3))
    BY <1>2, <1>3, <1>4 DEF Base64encode, ByteAt
  <1>6. 3 * q + 1 \in Nat \ {0} /\ 3 * q + 2 \in Nat \ {0} /\ 3 * q + 3 \in Nat \ {0}
    OBVIOUS
  <1>7. Base64encode(s)[j] \in Sextet
    BY <1>5, <1>6, BytesOf, SextetType
  <1> QED
    BY <1>5, <1>7

LEMMA EncodedLength ==
    ASSUME NEW s \in Seq(Byte)
    PROVE  nprbytes(Base64encode(s)) = Chars(Len(s))
  <1> DEFINE t == Base64encode(s)
             n == Chars(Len(s))
             size == Base64encode_len(Len(s))
  <1>1. Len(s) \in Nat /\ size \in Nat /\ n \in Nat /\ n < size
    BY Lengths
  <1>2. Len(t) = size
    BY <1>1 DEF Base64encode
  <1>3. \A i \in 1..n : t[i] # NotBasis
    <2> TAKE i \in 1..n
    <2>1. PICK q \in Nat, m \in 0..3 : i = 4 * q + m + 1
      <3>1. /\ i = 4 * ((i - 1) \div 4) + ((i - 1) % 4) + 1
            /\ (i - 1) \div 4 \in Nat /\ ((i - 1) % 4) \in 0..3
        BY <1>1
      <3> QED
        BY <3>1
    <2>2. t[i] \in Sextet
      BY <2>1, EncodedAt
    <2>3. NotBasis \notin Sextet
      BY DEF Sextet, NotBasis
    <2> QED
      BY <2>2, <2>3, Zenon
  <1>4. t[n + 1] = NotBasis
    <2>1. PICK q \in Nat, m \in 0..3 : n = 4 * q + m
      <3>1. n = 4 * (n \div 4) + (n % 4) /\ n \div 4 \in Nat /\ (n % 4) \in 0..3
        BY <1>1
      <3> QED
        BY <3>1
    <2>2. n \div 4 = q /\ n % 4 = m
      BY <2>1
    <2>3. 3 * q + m > Len(s) \/ n + 1 = size
      BY <1>1, <2>1 DEF Chars, Base64encode_len
    <2>4. n + 1 \in 1..size /\ (n + 1) - 1 = n
      BY <1>1
    <2> QED
      BY <1>1, <2>2, <2>3, <2>4 DEF Base64encode
  <1>5. n \in 0..(Len(t) - 1)
    BY <1>1, <1>2
  <1>6. \A k \in 0..(Len(t) - 1) :
            t[k + 1] = NotBasis /\ (\A i \in 1..k : t[i] # NotBasis) => k = n
    <2> TAKE k \in 0..(Len(t) - 1)
    <2> HAVE t[k + 1] = NotBasis /\ (\A i \in 1..k : t[i] # NotBasis)
    <2> HIDE DEF t, n, size
    <2>1. ~ k < n
      BY <1>1, <1>2, <1>3
    <2>2. ~ n < k
      BY <1>1, <1>2, <1>4
    <2> QED
      BY <1>1, <1>2, <2>1, <2>2
  <1> HIDE DEF t, n, size
  <1>7. nprbytes(t) = n
    BY <1>3, <1>4, <1>5, <1>6 DEF nprbytes
  <1> QED
    BY <1>7 DEF t, n

-----------------------------------------------------------------------------
(* Decoding inverts encoding *)

\* What is decoded from the encoding of a byte string is the string, whatever
\* its length, and a NUL.
THEOREM DecodeInvertsEncode ==
    ASSUME NEW s \in Seq(Byte)
    PROVE  /\ Len(Base64decode(Base64encode(s))) = Len(s) + 1
           /\ \A k \in 1..Len(s) : Base64decode(Base64encode(s))[k] = s[k]
           /\ Base64decode(Base64encode(s))[Len(s) + 1] = 0
  <1> DEFINE t == Base64encode(s)
             d == Base64decode(t)
  <1>1. Len(s) \in Nat
    OBVIOUS
  <1>2. nbytesdecoded(nprbytes(t)) = Len(s)
    BY <1>1, EncodedLength, Lengths
  <1>3. d = [k \in 1..(Len(s) + 1) |->
                IF k = Len(s) + 1 THEN 0
                ELSE OctetOf((k - 1) % 3,
                             t[4 * ((k - 1) \div 3) + ((k - 1) % 3) + 1],
                             t[4 * ((k - 1) \div 3) + ((k - 1) % 3) + 2])]
    BY <1>2 DEF Base64decode
  <1>4. Len(d) = Len(s) + 1 /\ d[Len(s) + 1] = 0
    BY <1>1, <1>3
  <1>5. \A k \in 1..Len(s) : d[k] = s[k]
    <2> TAKE k \in 1..Len(s)
    <2>1. PICK q \in Nat, m \in 0..2 : k = 3 * q + m + 1
      <3>1. /\ k = 3 * ((k - 1) \div 3) + ((k - 1) % 3) + 1
            /\ (k - 1) \div 3 \in Nat /\ ((k - 1) % 3) \in 0..2
        BY <1>1
      <3> QED
        BY <3>1
    <2>2. (k - 1) \div 3 = q /\ (k - 1) % 3 = m
      BY <2>1
    <2>3. d[k] = OctetOf(m, t[4 * q + m + 1], t[4 * q + m + 2])
      BY <1>1, <1>3, <2>2
    <2> DEFINE c(i) == SextetOf(i, ByteAt(s, 3 * q + 1), ByteAt(s, 3 * q + 2),
                                   ByteAt(s, 3 * q + 3))
    <2>4. t[4 * q + m + 1] = c(m)
      <3>1. 4 * q + m + 1 <= Chars(Len(s))
        BY <1>1, <2>1, Place
      <3> QED
        BY <2>1, <3>1, EncodedAt
    <2>5. t[4 * q + m + 2] = c(m + 1)
      <3>1. m + 1 \in 0..3 /\ 4 * q + (m + 1) + 1 = 4 * q + m + 2
        OBVIOUS
      <3>2. 4 * q + (m + 1) + 1 <= Chars(Len(s))
        BY <1>1, <2>1, <3>1, Place
      <3>3. t[4 * q + (m + 1) + 1] = c(m + 1)
        BY <3>1, <3>2, EncodedAt
      <3> QED
        BY <3>1, <3>3
    <2>6. /\ ByteAt(s, 3 * q + 1) \in Byte /\ ByteAt(s, 3 * q + 2) \in Byte
          /\ ByteAt(s, 3 * q + 3) \in Byte
      BY <1>1, <2>1, BytesOf
    <2>7. OctetOf(m, c(m), c(m + 1)) = ByteAt(s, 3 * q + m + 1)
      <3>1. CASE m = 0
        BY <2>6, <3>1, GroupInverse
      <3>2. CASE m = 1
        BY <2>6, <3>2, GroupInverse
      <3>3. CASE m = 2
        BY <2>6, <3>3, GroupInverse
      <3> QED
        BY <3>1, <3>2, <3>3
    <2>8. ByteAt(s, k) = s[k]
      BY <1>1 DEF ByteAt
    <2> HIDE DEF c, d, t
    <2> QED
      BY <2>1, <2>3, <2>4, <2>5, <2>7, <2>8
  <1> QED
    BY <1>4, <1>5

\* Whatever the text is, the buffer of Base64decode_len holds what Base64decode
\* stores, the NUL included.
THEOREM DecodeFits ==
    ASSUME NEW t, nprbytes(t) \in Nat
    PROVE  Len(Base64decode(t)) \in 1..Base64decode_len(t)
  <1> DEFINE n == nbytesdecoded(nprbytes(t))
  <1>1. n \in Nat /\ n + 1 <= Base64decode_len(t)
    BY DEF nbytesdecoded, Base64decode_len
  <1>2. Len(Base64decode(t)) = n + 1
    BY <1>1 DEF Base64decode
  <1> QED
    BY <1>1, <1>2
=============================================================================
