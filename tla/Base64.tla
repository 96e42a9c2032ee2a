-------------------------------- MODULE Base64 --------------------------------
(***************************************************************************)
(* The base64 codec (src/src/base64.c) as functions on byte strings.       *)
(*                                                                         *)
(* A character of encoded text is known by its place in basis_64, as       *)
(* pr2six gives it; every other character, the padding '=' and the final   *)
(* NUL among them, is NotBasis.  Text is a C string: it ends with NotBasis.*)
(* The loops that take three bytes, or four characters, at a time are      *)
(* given by what they store at each place.                                 *)
(***************************************************************************)
EXTENDS Integers, Sequences

Byte == 0..255
Sextet == 0..63
NotBasis == 64

-----------------------------------------------------------------------------
(* Encoding *)

\* The buffer Base64encode needs for len bytes, the NUL included.
Base64encode_len(len) == ((len + 2) \div 3) * 4 + 1

\* Four characters for three bytes b1, b2, b3.
SextetOf(m, b1, b2, b3) ==
    CASE m = 0 -> b1 \div 4
      [] m = 1 -> (b1 % 4) * 16 + b2 \div 16
      [] m = 2 -> (b2 % 16) * 4 + b3 \div 64
      [] m = 3 -> b3 % 64

\* A last group of one or two bytes counts the missing ones as 0, and pads.
Base64encode(string) ==
    LET byte(k) == IF k <= Len(string) THEN string[k] ELSE 0
    IN  [j \in 1..Base64encode_len(Len(string)) |->
            LET i == 3 * ((j - 1) \div 4)   \* the bytes before this group
                m == (j - 1) % 4
            IN  IF i + m > Len(string) \/ j = Base64encode_len(Len(string))
                THEN NotBasis
                ELSE SextetOf(m, byte(i + 1), byte(i + 2), byte(i + 3))]

-----------------------------------------------------------------------------
(* Decoding *)

\* The characters before the first one that is not of the alphabet.
nprbytes(bufcoded) ==
    CHOOSE n \in 0..(Len(bufcoded) - 1) :
        /\ bufcoded[n + 1] = NotBasis
        /\ \A i \in 1..n : bufcoded[i] # NotBasis

\* The buffer Base64decode needs: an upper bound, the NUL included.
Base64decode_len(bufcoded) == ((nprbytes(bufcoded) + 3) \div 4) * 3 + 1

\* The bytes Base64decode returns for n characters: three for each four, one
\* for the last two, two for the last three, none for a single last one.
nbytesdecoded(n) == ((n + 3) \div 4) * 3 - ((4 - (n % 4)) % 4)

\* Three bytes for four characters; byte m comes from two of them, c and d.
OctetOf(m, c, d) ==
    CASE m = 0 -> (c * 4 + d \div 16) % 256
      [] m = 1 -> (c * 16 + d \div 4) % 256
      [] m = 2 -> (c * 64 + d) % 256

\* What is stored in bufplain: the bytes and a NUL.
Base64decode(bufcoded) ==
    LET n == nbytesdecoded(nprbytes(bufcoded))
    IN  [k \in 1..(n + 1) |->
            LET i == 4 * ((k - 1) \div 3)   \* the characters before this group
                m == (k - 1) % 3
            IN  IF k = n + 1 THEN 0
                ELSE OctetOf(m, bufcoded[i + m + 1], bufcoded[i + m + 2])]
=============================================================================
