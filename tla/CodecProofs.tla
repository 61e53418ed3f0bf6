---------------------------- MODULE CodecProofs ----------------------------
(***************************************************************************)
(* What the codecs do for inputs of every length: both checksums are the   *)
(* CRC-16 they claim to be, a frame opens to its payload and to nothing    *)
(* else when a byte of it is changed, a field is read as it was written,   *)
(* and an identifier gives back what it was made of.                       *)
(***************************************************************************)
EXTENDS Codec, CoreProofs

\* Exclusive or, nibble by nibble.

\* Half a byte.
Nibble == 0..15
Word   == {x \in Nat : x <= 65535}

\* The bit of x whose weight is b.
Bit(x, b) == (x \div b) % 2

\* A nibble is a number up to 15.
LEMMA InNibble == \A x : x \in Nibble <=> x \in Nat /\ x <= 15
BY DEF Nibble

\* A word is a number up to 65535.
LEMMA InWord == \A x : x \in Word <=> x \in Nat /\ x <= 65535
BY DEF Word

\* A nibble is four bits.
LEMMA NibbleBits ==
  ASSUME NEW x \in Nibble
  PROVE  /\ \A b \in {1, 2, 4, 8} : Bit(x, b) \in {0, 1}
         /\ x = Bit(x, 1) + 2 * Bit(x, 2) + 4 * Bit(x, 4) + 8 * Bit(x, 8)
<1>1. x \in Nat /\ x <= 15
  BY InNibble
<1>2. PICK p \in Nat, q \in Nat, r \in Nat :
        /\ p = x \div 2 /\ q = x \div 4 /\ r = x \div 8
        /\ q = p \div 2 /\ r = q \div 2
  <2>1. x \div 2 \in Nat /\ x \div 4 \in Nat /\ x \div 8 \in Nat
    BY <1>1
  <2>2. x \div 4 = (x \div 2) \div 2 /\ x \div 8 = (x \div 4) \div 2
    BY <1>1
  <2> QED
    BY <2>1, <2>2
<1>3. /\ x = 2 * p + (x % 2) /\ p = 2 * q + (p % 2) /\ q = 2 * r + (q % 2)
      /\ x % 2 \in {0, 1} /\ p % 2 \in {0, 1} /\ q % 2 \in {0, 1}
  BY <1>1, <1>2
<1>4. r \in {0, 1} /\ r % 2 = r
  BY <1>1, <1>3
<1>5. Bit(x, 1) = x % 2 /\ Bit(x, 2) = p % 2 /\ Bit(x, 4) = q % 2 /\ Bit(x, 8) = r
  BY <1>1, <1>2, <1>4 DEF Bit
<1> QED
  BY <1>1, <1>3, <1>4, <1>5

\* Four bits make a nibble, and are its bits.
LEMMA BitsOfSum ==
  ASSUME NEW p \in {0, 1}, NEW q \in {0, 1}, NEW r \in {0, 1}, NEW s \in {0, 1}, NEW x,
         x = p + 2 * q + 4 * r + 8 * s
  PROVE  x \in Nibble /\ Bit(x, 1) = p /\ Bit(x, 2) = q /\ Bit(x, 4) = r /\ Bit(x, 8) = s
<1>1. x \in Nat /\ x <= 15
  OBVIOUS
<1>2. x \div 1 = x /\ x % 2 = p
  OBVIOUS
<1>3. x \div 2 = q + 2 * r + 4 * s /\ (q + 2 * r + 4 * s) % 2 = q
  OBVIOUS
<1>4. x \div 4 = r + 2 * s /\ (r + 2 * s) % 2 = r
  OBVIOUS
<1>5. x \div 8 = s /\ s % 2 = s
  OBVIOUS
<1> QED
  BY <1>1, <1>2, <1>3, <1>4, <1>5, InNibble DEF Bit

\* The table of NibbleXor works bit by bit.
LEMMA NibbleXorBits ==
  ASSUME NEW x \in Nibble, NEW y \in Nibble
  PROVE  /\ NibbleXor[x][y] \in Nibble
         /\ \A b \in {1, 2, 4, 8} :
              Bit(NibbleXor[x][y], b) = IF Bit(x, b) = Bit(y, b) THEN 0 ELSE 1
<1> DEFINE d(b) == IF Bit(x, b) = Bit(y, b) THEN 0 ELSE 1
<1>1. NibbleXor[x][y] = d(1) + 2 * d(2) + 4 * d(4) + 8 * d(8)
  BY DEF NibbleXor, Nibble, Bit
<1>2. d(1) \in {0, 1} /\ d(2) \in {0, 1} /\ d(4) \in {0, 1} /\ d(8) \in {0, 1}
  OBVIOUS
<1> HIDE DEF d
<1>3. /\ NibbleXor[x][y] \in Nibble
      /\ \A b \in {1, 2, 4, 8} : Bit(NibbleXor[x][y], b) = d(b)
  BY <1>1, <1>2, BitsOfSum
<1> QED
  BY <1>3 DEF d

\* Nibbles with the same bits are the same.
LEMMA SameBits ==
  ASSUME NEW x \in Nibble, NEW y \in Nibble,
         \A b \in {1, 2, 4, 8} : Bit(x, b) = Bit(y, b)
  PROVE  x = y
BY NibbleBits

\* The laws of exclusive or, for nibbles.
LEMMA NibbleXorLaws ==
  ASSUME NEW x \in Nibble, NEW y \in Nibble, NEW z \in Nibble
  PROVE  /\ NibbleXor[x][y] = NibbleXor[y][x]
         /\ NibbleXor[NibbleXor[x][y]][z] = NibbleXor[x][NibbleXor[y][z]]
         /\ NibbleXor[x][0] = x
         /\ NibbleXor[x][x] = 0
<1>0. 0 \in Nibble /\ \A b \in {1, 2, 4, 8} : Bit(0, b) = 0
  BY DEF Nibble, Bit
<1>b. \A b \in {1, 2, 4, 8} : Bit(x, b) \in {0, 1} /\ Bit(y, b) \in {0, 1} /\ Bit(z, b) \in {0, 1}
  BY NibbleBits
<1>1. NibbleXor[x][y] = NibbleXor[y][x]
  BY NibbleXorBits, SameBits
<1>2. NibbleXor[NibbleXor[x][y]][z] = NibbleXor[x][NibbleXor[y][z]]
  <2>1. /\ NibbleXor[x][y] \in Nibble /\ NibbleXor[y][z] \in Nibble
        /\ NibbleXor[NibbleXor[x][y]][z] \in Nibble /\ NibbleXor[x][NibbleXor[y][z]] \in Nibble
    BY NibbleXorBits
  <2>2. ASSUME NEW b \in {1, 2, 4, 8}
        PROVE  Bit(NibbleXor[NibbleXor[x][y]][z], b) = Bit(NibbleXor[x][NibbleXor[y][z]], b)
    BY SMTT(40), <1>b, <2>1, NibbleXorBits
  <2> QED
    BY <2>1, <2>2, SameBits
<1>3. NibbleXor[x][0] = x
  BY <1>0, <1>b, NibbleXorBits, SameBits
<1>4. NibbleXor[x][x] = 0
  BY <1>0, NibbleXorBits, SameBits
<1> QED
  BY <1>1, <1>2, <1>3, <1>4

-----------------------------------------------------------------------------
\* A word is four nibbles.
Join(a, b, c, d) == a + 16 * b + 256 * c + 4096 * d
\* The nibble of x whose weight is w.
At(x, w) == (x \div w) % 16

\* A nibble at the bottom, read and dropped.
LEMMA OneNibble ==
  ASSUME NEW x \in Nat
  PROVE  /\ x = 16 * (x \div 16) + (x % 16)
         /\ x \div 16 \in Nat
         /\ x % 16 \in Nat /\ x % 16 <= 15
OBVIOUS

\* The lowest nibble, and what is above it.
LEMMA NextNibble ==
  ASSUME NEW x \in Nat
  PROVE  /\ x \div 1 = x
         /\ x \div 256 = (x \div 16) \div 16
         /\ x \div 4096 = (x \div 256) \div 16
OBVIOUS

\* A number with a nibble put under it.
LEMMA PutNibble ==
  ASSUME NEW k \in Nat, NEW a \in Nat, a <= 15
  PROVE  (a + 16 * k) % 16 = a /\ (a + 16 * k) \div 16 = k
OBVIOUS

\* Every word is its four nibbles.
LEMMA WordIsNibbles ==
  ASSUME NEW x \in Word
  PROVE  /\ At(x, 1) \in Nibble /\ At(x, 16) \in Nibble
         /\ At(x, 256) \in Nibble /\ At(x, 4096) \in Nibble
         /\ x = Join(At(x, 1), At(x, 16), At(x, 256), At(x, 4096))
<1>1. x \in Nat /\ x <= 65535
  BY InWord
<1>2. PICK p \in Nat, q \in Nat, r \in Nat :
        /\ p = x \div 16 /\ q = x \div 256 /\ r = x \div 4096
        /\ q = p \div 16 /\ r = q \div 16
  BY <1>1, OneNibble, NextNibble
<1>3. /\ x = 16 * p + (x % 16) /\ p = 16 * q + (p % 16) /\ q = 16 * r + (q % 16)
      /\ x % 16 \in Nat /\ x % 16 <= 15 /\ p % 16 \in Nat /\ p % 16 <= 15
      /\ q % 16 \in Nat /\ q % 16 <= 15
  BY <1>1, <1>2, OneNibble
<1>4. r <= 15 /\ r % 16 = r
  BY <1>1, <1>3
<1>5. /\ At(x, 1) = x % 16 /\ At(x, 16) = p % 16
      /\ At(x, 256) = q % 16 /\ At(x, 4096) = r
  BY <1>1, <1>2, <1>4, NextNibble DEF At
<1>6. /\ At(x, 1) \in Nibble /\ At(x, 16) \in Nibble
      /\ At(x, 256) \in Nibble /\ At(x, 4096) \in Nibble
  BY <1>3, <1>4, <1>5, InNibble
<1>7. x = (x % 16) + 16 * (p % 16) + 256 * (q % 16) + 4096 * r
  BY <1>1, <1>3
<1> QED
  BY <1>5, <1>6, <1>7 DEF Join

\* Four nibbles make a word, and are its nibbles.
LEMMA NibblesOfJoin ==
  ASSUME NEW a \in Nibble, NEW b \in Nibble, NEW c \in Nibble, NEW d \in Nibble
  PROVE  /\ Join(a, b, c, d) \in Word
         /\ At(Join(a, b, c, d), 1) = a /\ At(Join(a, b, c, d), 16) = b
         /\ At(Join(a, b, c, d), 256) = c /\ At(Join(a, b, c, d), 4096) = d
<1>1. /\ a \in Nat /\ a <= 15 /\ b \in Nat /\ b <= 15
      /\ c \in Nat /\ c <= 15 /\ d \in Nat /\ d <= 15
  BY InNibble
<1>2. PICK q \in Nat, p \in Nat, x \in Nat :
        q = c + 16 * d /\ p = b + 16 * q /\ x = a + 16 * p
  <2>1. c + 16 * d \in Nat
    BY <1>1
  <2>2. b + 16 * (c + 16 * d) \in Nat
    BY <1>1
  <2>3. a + 16 * (b + 16 * (c + 16 * d)) \in Nat
    BY <1>1
  <2> QED
    BY <2>1, <2>2, <2>3
<1>3. x = Join(a, b, c, d) /\ x <= 65535
  BY <1>1, <1>2 DEF Join
<1>4. x % 16 = a /\ x \div 16 = p /\ p % 16 = b /\ p \div 16 = q /\ q % 16 = c /\ q \div 16 = d
  BY <1>1, <1>2, PutNibble
<1>5. d % 16 = d
  BY <1>1
<1>6. At(x, 1) = a /\ At(x, 16) = b /\ At(x, 256) = c /\ At(x, 4096) = d
  BY <1>4, <1>5, NextNibble DEF At
<1> QED
  BY <1>3, <1>6, InWord

\* Exclusive or of words works nibble by nibble.
LEMMA XorNibbles ==
  ASSUME NEW x \in Word, NEW y \in Word
  PROVE  /\ x ^^ y \in Word
         /\ \A w \in {1, 16, 256, 4096} : At(x ^^ y, w) = NibbleXor[At(x, w)][At(y, w)]
<1> DEFINE n(w) == NibbleXor[At(x, w)][At(y, w)]
<1>1. x ^^ y = n(1) * 1 + n(16) * 16 + n(256) * 256 + n(4096) * 4096
  <2>1. <<x, y>> \in Nat \X Nat /\ <<x, y>>[1] = x /\ <<x, y>>[2] = y
    BY DEF Word
  <2> QED
    BY <2>1 DEF ^^, At
<1>2. n(1) \in Nibble /\ n(16) \in Nibble /\ n(256) \in Nibble /\ n(4096) \in Nibble
  BY WordIsNibbles, NibbleXorBits
<1> HIDE DEF n
<1>3. x ^^ y = Join(n(1), n(16), n(256), n(4096))
  BY <1>1, <1>2, InNibble DEF Join
<1>4. /\ x ^^ y \in Word
      /\ \A w \in {1, 16, 256, 4096} : At(x ^^ y, w) = n(w)
  BY <1>2, <1>3, NibblesOfJoin
<1> QED
  BY <1>4 DEF n

\* Words with the same nibbles are the same.
LEMMA SameNibbles ==
  ASSUME NEW x \in Word, NEW y \in Word,
         \A w \in {1, 16, 256, 4096} : At(x, w) = At(y, w)
  PROVE  x = y
BY WordIsNibbles

\* Zero has no bit set in any nibble.
LEMMA ZeroNibbles ==
  \A w \in {1, 16, 256, 4096} : At(0, w) = 0
<1>1. 0 \in Nibble /\ Join(0, 0, 0, 0) = 0
  BY DEF Join, Nibble
<1> QED
  BY <1>1, NibblesOfJoin

\* The laws of exclusive or, for words.
LEMMA XorLaws ==
  ASSUME NEW x \in Word, NEW y \in Word, NEW z \in Word
  PROVE  /\ x ^^ y = y ^^ x
         /\ (x ^^ y) ^^ z = x ^^ (y ^^ z)
         /\ x ^^ 0 = x
         /\ x ^^ x = 0
<1>0. /\ 0 \in Word /\ 0 \in Nibble
      /\ \A w \in {1, 16, 256, 4096} : At(0, w) = 0
  BY ZeroNibbles, InWord, InNibble
<1>n. \A w \in {1, 16, 256, 4096} : At(x, w) \in Nibble /\ At(y, w) \in Nibble /\ At(z, w) \in Nibble
  BY WordIsNibbles
<1>1. x ^^ y = y ^^ x
  <2>1. x ^^ y \in Word /\ y ^^ x \in Word
    BY <1>0, XorNibbles
  <2>2. ASSUME NEW w \in {1, 16, 256, 4096}
        PROVE  At(x ^^ y, w) = At(y ^^ x, w)
    <3>1. At(x ^^ y, w) = NibbleXor[At(x, w)][At(y, w)]
      BY <1>0, XorNibbles
    <3>2. At(y ^^ x, w) = NibbleXor[At(y, w)][At(x, w)]
      BY XorNibbles
    <3>3. At(x, w) \in Nibble /\ At(y, w) \in Nibble /\ At(0, w) = 0
      BY <1>0, <1>n
    <3> QED
      BY <3>1, <3>2, <3>3, NibbleXorLaws
  <2> QED
    BY <2>1, <2>2, SameNibbles
<1>2. (x ^^ y) ^^ z = x ^^ (y ^^ z)
  <2>1. x ^^ y \in Word /\ y ^^ z \in Word /\ (x ^^ y) ^^ z \in Word /\ x ^^ (y ^^ z) \in Word
    BY XorNibbles
  <2>2. ASSUME NEW w \in {1, 16, 256, 4096}
        PROVE  At((x ^^ y) ^^ z, w) = At(x ^^ (y ^^ z), w)
    <3>1. At((x ^^ y) ^^ z, w) = NibbleXor[NibbleXor[At(x, w)][At(y, w)]][At(z, w)]
      BY <2>1, XorNibbles
    <3>2. At(x ^^ (y ^^ z), w) = NibbleXor[At(x, w)][NibbleXor[At(y, w)][At(z, w)]]
      BY <2>1, XorNibbles
    <3>3. At(x, w) \in Nibble /\ At(y, w) \in Nibble /\ At(z, w) \in Nibble
      BY <1>n
    <3> QED
      BY <3>1, <3>2, <3>3, NibbleXorLaws
  <2> QED
    BY <2>1, <2>2, SameNibbles
<1>3. x ^^ 0 = x
  <2>1. x ^^ 0 \in Word /\ x \in Word
    BY <1>0, XorNibbles
  <2>2. ASSUME NEW w \in {1, 16, 256, 4096}
        PROVE  At(x ^^ 0, w) = At(x, w)
    <3>1. At(x ^^ 0, w) = NibbleXor[At(x, w)][At(0, w)]
      BY <1>0, XorNibbles
    <3>3. At(x, w) \in Nibble /\ At(y, w) \in Nibble /\ At(0, w) = 0
      BY <1>0, <1>n
    <3> QED
      BY <3>1, <3>3, NibbleXorLaws
  <2> QED
    BY <2>1, <2>2, SameNibbles
<1>4. x ^^ x = 0
  <2>1. x ^^ x \in Word /\ 0 \in Word
    BY <1>0, XorNibbles
  <2>2. ASSUME NEW w \in {1, 16, 256, 4096}
        PROVE  At(x ^^ x, w) = At(0, w)
    <3>1. At(x ^^ x, w) = NibbleXor[At(x, w)][At(x, w)]
      BY <1>0, XorNibbles
    <3>3. At(x, w) \in Nibble /\ At(y, w) \in Nibble /\ At(0, w) = 0
      BY <1>0, <1>n
    <3> QED
      BY <3>1, <3>3, NibbleXorLaws
  <2> QED
    BY <2>1, <2>2, SameNibbles
<1> QED
  BY <1>1, <1>2, <1>3, <1>4

\* Exclusive or with the same word can be taken away.
LEMMA XorCancels ==
  ASSUME NEW x \in Word, NEW y \in Word, NEW z \in Word, x ^^ z = y ^^ z
  PROVE  x = y
<1>1. (x ^^ z) ^^ z = x ^^ (z ^^ z) /\ (y ^^ z) ^^ z = y ^^ (z ^^ z)
  BY XorLaws
<1> QED
  BY <1>1, XorLaws

-----------------------------------------------------------------------------
\* The shift register is linear.

\* The shift register holds a word.
LEMMA ShiftType ==
  ASSUME NEW w \in Word
  PROVE  ShiftOnce(w) \in Word /\ ShiftNibble(w) \in Word /\ ShiftByte(w) \in Word
<1>1. ASSUME NEW x \in Word PROVE ShiftOnce(x) \in Word
  <2>1. x \div 2 \in Word
    BY InWord
  <2>2. 33800 \in Word
    BY InWord
  <2> QED
    BY <2>1, <2>2, XorNibbles DEF ShiftOnce
<1>2. ASSUME NEW x \in Word PROVE ShiftNibble(x) \in Word
  BY <1>1 DEF ShiftNibble
<1> QED
  BY <1>1, <1>2 DEF ShiftByte

\* Half a word: every nibble takes its top bit from the next one.
HalfIn(n, m) == (n \div 2) + 8 * (m % 2)

\* Half a nibble under the low bit of the next one is a nibble.
LEMMA Halves ==
  ASSUME NEW n \in Nibble
  PROVE  /\ n = 2 * (n \div 2) + (n % 2)
         /\ n \div 2 \in Nat /\ n \div 2 <= 7
         /\ n % 2 \in {0, 1}
BY InNibble

\* Its bits are those of the nibble, one place down.
LEMMA HalfBits ==
  ASSUME NEW n \in Nibble, NEW m \in Nibble
  PROVE  /\ HalfIn(n, m) \in Nibble
         /\ Bit(HalfIn(n, m), 1) = Bit(n, 2)
         /\ Bit(HalfIn(n, m), 2) = Bit(n, 4)
         /\ Bit(HalfIn(n, m), 4) = Bit(n, 8)
         /\ Bit(HalfIn(n, m), 8) = Bit(m, 1)
<1> DEFINE p == Bit(n, 2) q == Bit(n, 4) r == Bit(n, 8) s == Bit(m, 1)
<1>1. /\ Bit(n, 1) \in {0, 1} /\ p \in {0, 1} /\ q \in {0, 1} /\ r \in {0, 1} /\ s \in {0, 1}
      /\ n = Bit(n, 1) + 2 * p + 4 * q + 8 * r
  BY NibbleBits
<1>2. m % 2 = s
  BY InNibble DEF Bit
<1> HIDE DEF p, q, r, s
<1>3. n \div 2 = p + 2 * q + 4 * r
  BY <1>1
<1>4. HalfIn(n, m) = p + 2 * q + 4 * r + 8 * s
  BY <1>1, <1>2, <1>3 DEF HalfIn
<1>5. /\ HalfIn(n, m) \in Nibble
      /\ Bit(HalfIn(n, m), 1) = p /\ Bit(HalfIn(n, m), 2) = q
      /\ Bit(HalfIn(n, m), 4) = r /\ Bit(HalfIn(n, m), 8) = s
  BY <1>1, <1>4, BitsOfSum
<1> QED
  BY <1>5 DEF p, q, r, s

\* Half of four nibbles, nibble by nibble.
LEMMA HalfOfJoin ==
  ASSUME NEW a \in Nibble, NEW b \in Nibble, NEW c \in Nibble, NEW d \in Nibble
  PROVE  Join(a, b, c, d) \div 2 = Join(HalfIn(a, b), HalfIn(b, c), HalfIn(c, d), HalfIn(d, 0))
<1>1. PICK a1 \in Nat, a0 \in {0, 1} : a = 2 * a1 + a0 /\ a1 = a \div 2 /\ a0 = a % 2
  BY Halves
<1>2. PICK b1 \in Nat, b0 \in {0, 1} : b = 2 * b1 + b0 /\ b1 = b \div 2 /\ b0 = b % 2
  BY Halves
<1>3. PICK c1 \in Nat, c0 \in {0, 1} : c = 2 * c1 + c0 /\ c1 = c \div 2 /\ c0 = c % 2
  BY Halves
<1>4. PICK d1 \in Nat, d0 \in {0, 1} : d = 2 * d1 + d0 /\ d1 = d \div 2 /\ d0 = d % 2
  BY Halves
<1>n. a \in Nat /\ b \in Nat /\ c \in Nat /\ d \in Nat
  BY InNibble
<1>5. PICK k \in Nat : k = a1 + 8 * b + 128 * c + 2048 * d
  <2>1. a1 + 8 * b + 128 * c + 2048 * d \in Nat
    BY <1>1, <1>n
  <2> QED
    BY <2>1
<1>6. Join(a, b, c, d) = 2 * k + a0
  <2>1. a = 2 * a1 + a0
    BY <1>1
  <2> QED
    BY <1>5, <1>n, <2>1 DEF Join
<1>7. (2 * k + a0) \div 2 = k
  BY <1>1, <1>5
<1>z. HalfIn(d, 0) = d1
  BY <1>4 DEF HalfIn
<1>8. Join(HalfIn(a, b), HalfIn(b, c), HalfIn(c, d), HalfIn(d, 0)) =
        (a1 + 8 * b0) + 16 * (b1 + 8 * c0) + 256 * (c1 + 8 * d0) + 4096 * d1
  BY <1>1, <1>2, <1>3, <1>4, <1>z DEF Join, HalfIn
<1>9. k = (a1 + 8 * b0) + 16 * (b1 + 8 * c0) + 256 * (c1 + 8 * d0) + 4096 * d1
  <2>1. b = 2 * b1 + b0 /\ c = 2 * c1 + c0 /\ d = 2 * d1 + d0
    BY <1>2, <1>3, <1>4
  <2> QED
    BY <1>5, <2>1
<1> QED
  BY <1>6, <1>7, <1>8, <1>9

\* Half of a word, nibble by nibble.
LEMMA HalfWord ==
  ASSUME NEW x \in Word
  PROVE  /\ x \div 2 \in Word
         /\ At(x \div 2, 1) = HalfIn(At(x, 1), At(x, 16))
         /\ At(x \div 2, 16) = HalfIn(At(x, 16), At(x, 256))
         /\ At(x \div 2, 256) = HalfIn(At(x, 256), At(x, 4096))
         /\ At(x \div 2, 4096) = HalfIn(At(x, 4096), 0)
<1> DEFINE a == At(x, 1) b == At(x, 16) c == At(x, 256) d == At(x, 4096)
<1>1. /\ a \in Nibble /\ b \in Nibble /\ c \in Nibble /\ d \in Nibble /\ 0 \in Nibble
      /\ x = Join(a, b, c, d)
  BY WordIsNibbles, InNibble
<1> HIDE DEF a, b, c, d
<1>2. /\ HalfIn(a, b) \in Nibble /\ HalfIn(b, c) \in Nibble
      /\ HalfIn(c, d) \in Nibble /\ HalfIn(d, 0) \in Nibble
  BY <1>1, HalfBits
<1>3. x \div 2 = Join(HalfIn(a, b), HalfIn(b, c), HalfIn(c, d), HalfIn(d, 0))
  BY <1>1, HalfOfJoin
<1>4. /\ x \div 2 \in Word
      /\ At(x \div 2, 1) = HalfIn(a, b) /\ At(x \div 2, 16) = HalfIn(b, c)
      /\ At(x \div 2, 256) = HalfIn(c, d) /\ At(x \div 2, 4096) = HalfIn(d, 0)
  BY <1>2, <1>3, NibblesOfJoin
<1> QED
  BY <1>4 DEF a, b, c, d

\* Halving a nibble commutes with exclusive or.
LEMMA HalfInXor ==
  ASSUME NEW n \in Nibble, NEW m \in Nibble, NEW k \in Nibble, NEW l \in Nibble
  PROVE  HalfIn(NibbleXor[n][k], NibbleXor[m][l]) = NibbleXor[HalfIn(n, m)][HalfIn(k, l)]
<1>1. NibbleXor[n][k] \in Nibble /\ NibbleXor[m][l] \in Nibble
  BY NibbleXorBits
<1>2. HalfIn(n, m) \in Nibble /\ HalfIn(k, l) \in Nibble
  BY HalfBits
<1>3. HalfIn(NibbleXor[n][k], NibbleXor[m][l]) \in Nibble /\ NibbleXor[HalfIn(n, m)][HalfIn(k, l)] \in Nibble
  BY <1>1, <1>2, HalfBits, NibbleXorBits
<1>4. ASSUME NEW b \in {1, 2, 4, 8}
      PROVE  Bit(HalfIn(NibbleXor[n][k], NibbleXor[m][l]), b) = Bit(NibbleXor[HalfIn(n, m)][HalfIn(k, l)], b)
  <2>1. CASE b = 1
    BY <1>1, <1>2, <2>1, HalfBits, NibbleXorBits
  <2>2. CASE b = 2
    BY <1>1, <1>2, <2>2, HalfBits, NibbleXorBits
  <2>3. CASE b = 4
    BY <1>1, <1>2, <2>3, HalfBits, NibbleXorBits
  <2>4. CASE b = 8
    BY <1>1, <1>2, <2>4, HalfBits, NibbleXorBits
  <2> QED
    BY <2>1, <2>2, <2>3, <2>4
<1> QED
  BY <1>3, <1>4, SameBits

\* Halving a word commutes with exclusive or.
LEMMA HalfXor ==
  ASSUME NEW x \in Word, NEW y \in Word
  PROVE  (x ^^ y) \div 2 = (x \div 2) ^^ (y \div 2)
<1>1. x ^^ y \in Word /\ x \div 2 \in Word /\ y \div 2 \in Word
  BY XorNibbles, HalfWord
<1>2. (x ^^ y) \div 2 \in Word /\ (x \div 2) ^^ (y \div 2) \in Word
  BY <1>1, XorNibbles, HalfWord
<1>n. \A w \in {1, 16, 256, 4096} : At(x, w) \in Nibble /\ At(y, w) \in Nibble
  BY WordIsNibbles
<1>z. 0 \in Nibble /\ NibbleXor[0][0] = 0
  BY InNibble, NibbleXorLaws
<1>3. ASSUME NEW w \in {1, 16, 256, 4096}
      PROVE  At((x ^^ y) \div 2, w) = At((x \div 2) ^^ (y \div 2), w)
  <2>0. At((x \div 2) ^^ (y \div 2), w) = NibbleXor[At(x \div 2, w)][At(y \div 2, w)]
    BY <1>1, XorNibbles
  <2>00. \A v \in {1, 16, 256, 4096} : At(x ^^ y, v) = NibbleXor[At(x, v)][At(y, v)]
    BY XorNibbles
  <2>1. CASE w = 1
    <3>1. At((x ^^ y) \div 2, 1) = HalfIn(At(x ^^ y, 1), At(x ^^ y, 16))
      BY <1>1, HalfWord
    <3>2. At(x \div 2, 1) = HalfIn(At(x, 1), At(x, 16)) /\ At(y \div 2, 1) = HalfIn(At(y, 1), At(y, 16))
      BY HalfWord
    <3> QED
      BY <1>n, <2>0, <2>00, <2>1, <3>1, <3>2, HalfInXor
  <2>2. CASE w = 16
    <3>1. At((x ^^ y) \div 2, 16) = HalfIn(At(x ^^ y, 16), At(x ^^ y, 256))
      BY <1>1, HalfWord
    <3>2. At(x \div 2, 16) = HalfIn(At(x, 16), At(x, 256)) /\ At(y \div 2, 16) = HalfIn(At(y, 16), At(y, 256))
      BY HalfWord
    <3> QED
      BY <1>n, <2>0, <2>00, <2>2, <3>1, <3>2, HalfInXor
  <2>3. CASE w = 256
    <3>1. At((x ^^ y) \div 2, 256) = HalfIn(At(x ^^ y, 256), At(x ^^ y, 4096))
      BY <1>1, HalfWord
    <3>2. At(x \div 2, 256) = HalfIn(At(x, 256), At(x, 4096)) /\ At(y \div 2, 256) = HalfIn(At(y, 256), At(y, 4096))
      BY HalfWord
    <3> QED
      BY <1>n, <2>0, <2>00, <2>3, <3>1, <3>2, HalfInXor
  <2>4. CASE w = 4096
    <3>1. At((x ^^ y) \div 2, 4096) = HalfIn(At(x ^^ y, 4096), 0)
      BY <1>1, HalfWord
    <3>2. At(x \div 2, 4096) = HalfIn(At(x, 4096), 0) /\ At(y \div 2, 4096) = HalfIn(At(y, 4096), 0)
      BY HalfWord
    <3> QED
      BY SMTT(40), <1>n, <1>z, <2>0, <2>00, <2>4, <3>1, <3>2, HalfInXor
  <2> QED
    BY <2>1, <2>2, <2>3, <2>4
<1> QED
  BY <1>2, <1>3, SameNibbles

\* The lowest bit of a word is that of its lowest nibble.
LEMMA Parity ==
  ASSUME NEW x \in Word
  PROVE  x % 2 = Bit(At(x, 1), 1) /\ x % 2 \in {0, 1}
<1>1. x \in Nat
  BY InWord
<1>2. At(x, 1) = x % 16
  BY <1>1, NextNibble DEF At
<1>3. (x % 16) \div 1 = x % 16 /\ (x % 16) % 2 = x % 2
  BY <1>1
<1> QED
  BY <1>1, <1>2, <1>3 DEF Bit

\* The lowest bits of two words add up.
LEMMA ParityXor ==
  ASSUME NEW x \in Word, NEW y \in Word
  PROVE  (x ^^ y) % 2 = IF x % 2 = y % 2 THEN 0 ELSE 1
<1>1. x ^^ y \in Word /\ At(x ^^ y, 1) = NibbleXor[At(x, 1)][At(y, 1)]
  BY XorNibbles
<1>2. At(x, 1) \in Nibble /\ At(y, 1) \in Nibble
  BY WordIsNibbles
<1>3. Bit(NibbleXor[At(x, 1)][At(y, 1)], 1) = IF Bit(At(x, 1), 1) = Bit(At(y, 1), 1) THEN 0 ELSE 1
  BY <1>2, NibbleXorBits
<1> QED
  BY <1>1, <1>3, Parity

\* One shift of the register commutes with exclusive or: the CRC is linear.
LEMMA ShiftOnceXor ==
  ASSUME NEW x \in Word, NEW y \in Word
  PROVE  ShiftOnce(x ^^ y) = ShiftOnce(x) ^^ ShiftOnce(y)
<1> DEFINE P == 33800
           a == x \div 2
           b == y \div 2
<1>1. a \in Word /\ b \in Word /\ P \in Word /\ x ^^ y \in Word
  BY HalfWord, XorNibbles, InWord
<1>2. (x ^^ y) \div 2 = a ^^ b
  BY HalfXor
<1>3. ShiftOnce(x) = (IF x % 2 = 1 THEN a ^^ P ELSE a) /\ ShiftOnce(y) = (IF y % 2 = 1 THEN b ^^ P ELSE b)
  BY DEF ShiftOnce
<1>4. ShiftOnce(x ^^ y) = IF (x ^^ y) % 2 = 1 THEN (a ^^ b) ^^ P ELSE a ^^ b
  BY <1>2 DEF ShiftOnce
<1>5. (x ^^ y) % 2 = (IF x % 2 = y % 2 THEN 0 ELSE 1) /\ x % 2 \in {0, 1} /\ y % 2 \in {0, 1}
  BY Parity, ParityXor
<1> HIDE DEF a, b, P
<1>6. (a ^^ P) ^^ (b ^^ P) = a ^^ b
  <2>1. b ^^ P \in Word /\ P ^^ P = 0 /\ b ^^ P = P ^^ b
    BY <1>1, XorNibbles, XorLaws
  <2>2. (a ^^ P) ^^ (b ^^ P) = a ^^ (P ^^ (P ^^ b))
    BY <1>1, <2>1, XorLaws
  <2>3. P ^^ (P ^^ b) = 0 ^^ b /\ 0 ^^ b = b ^^ 0 /\ b ^^ 0 = b
    BY <1>1, <2>1, XorLaws, InWord
  <2> QED
    BY <2>2, <2>3
<1>7. (a ^^ P) ^^ b = (a ^^ b) ^^ P /\ a ^^ (b ^^ P) = (a ^^ b) ^^ P
  <2>1. (a ^^ P) ^^ b = a ^^ (P ^^ b) /\ P ^^ b = b ^^ P /\ (a ^^ b) ^^ P = a ^^ (b ^^ P)
    BY <1>1, XorLaws
  <2> QED
    BY <2>1
<1>8. CASE x % 2 = 1 /\ y % 2 = 1
  BY <1>3, <1>4, <1>5, <1>6, <1>8
<1>9. CASE x % 2 = 1 /\ y % 2 = 0
  BY <1>3, <1>4, <1>5, <1>7, <1>9
<1>10. CASE x % 2 = 0 /\ y % 2 = 1
  BY <1>3, <1>4, <1>5, <1>7, <1>10
<1>11. CASE x % 2 = 0 /\ y % 2 = 0
  BY <1>3, <1>4, <1>5, <1>11
<1> QED
  BY <1>5, <1>8, <1>9, <1>10, <1>11

\* So do four shifts, and eight.
LEMMA ShiftXor ==
  ASSUME NEW x \in Word, NEW y \in Word
  PROVE  /\ ShiftNibble(x ^^ y) = ShiftNibble(x) ^^ ShiftNibble(y)
         /\ ShiftByte(x ^^ y) = ShiftByte(x) ^^ ShiftByte(y)
<1>1. ASSUME NEW a \in Word, NEW b \in Word
      PROVE  ShiftNibble(a ^^ b) = ShiftNibble(a) ^^ ShiftNibble(b)
  <2>1. PICK a1 \in Word, b1 \in Word : a1 = ShiftOnce(a) /\ b1 = ShiftOnce(b)
    BY ShiftType
  <2>2. PICK a2 \in Word, b2 \in Word : a2 = ShiftOnce(a1) /\ b2 = ShiftOnce(b1)
    BY ShiftType
  <2>3. PICK a3 \in Word, b3 \in Word : a3 = ShiftOnce(a2) /\ b3 = ShiftOnce(b2)
    BY ShiftType
  <2>4. /\ ShiftOnce(a ^^ b) = a1 ^^ b1 /\ ShiftOnce(a1 ^^ b1) = a2 ^^ b2
        /\ ShiftOnce(a2 ^^ b2) = a3 ^^ b3 /\ ShiftOnce(a3 ^^ b3) = ShiftOnce(a3) ^^ ShiftOnce(b3)
    BY <2>1, <2>2, <2>3, ShiftOnceXor
  <2> QED
    BY <2>1, <2>2, <2>3, <2>4 DEF ShiftNibble
<1>2. ShiftNibble(x) \in Word /\ ShiftNibble(y) \in Word
  BY ShiftType
<1> QED
  BY <1>1, <1>2 DEF ShiftByte

-----------------------------------------------------------------------------
\* Four and eight shifts at once: the two short cuts of crc.rs.

\* An even word is shifted without the polynomial.
LEMMA Doubled ==
  ASSUME NEW k \in Nat, 2 * k <= 65535
  PROVE  ShiftOnce(2 * k) = k
<1>1. (2 * k) % 2 = 0 /\ (2 * k) \div 2 = k
  OBVIOUS
<1> QED
  BY <1>1 DEF ShiftOnce

\* Four shifts bring a word's upper nibbles down, when its lowest is zero.
LEMMA ShiftNibbleDown ==
  ASSUME NEW h \in Nat, h <= 4095
  PROVE  ShiftNibble(16 * h) = h
<1>1. /\ ShiftOnce(2 * (8 * h)) = 8 * h /\ ShiftOnce(2 * (4 * h)) = 4 * h
      /\ ShiftOnce(2 * (2 * h)) = 2 * h /\ ShiftOnce(2 * h) = h
  <2>1. 8 * h \in Nat /\ 4 * h \in Nat /\ 2 * h \in Nat
    OBVIOUS
  <2>2. 2 * (8 * h) <= 65535 /\ 2 * (4 * h) <= 65535 /\ 2 * (2 * h) <= 65535 /\ 2 * h <= 65535
    OBVIOUS
  <2> QED
    BY <2>1, <2>2, Doubled
<1>2. 2 * (8 * h) = 16 * h /\ 2 * (4 * h) = 8 * h /\ 2 * (2 * h) = 4 * h
  OBVIOUS
<1> QED
  BY <1>1, <1>2 DEF ShiftNibble

\* Eight shifts bring the upper byte down, when the lower one is zero.
LEMMA ShiftByteDown ==
  ASSUME NEW h \in Nat, h <= 255
  PROVE  ShiftByte(256 * h) = h
<1>1. 16 * h \in Nat /\ 16 * h <= 4095 /\ 256 * h = 16 * (16 * h) /\ h <= 4095
  OBVIOUS
<1> QED
  BY <1>1, ShiftNibbleDown DEF ShiftByte

\* 4225 spreads a nibble over the word.
LEMMA SpreadShape ==
  ASSUME NEW t \in Nibble
  PROVE  /\ t * 4225 = Join(t, HalfIn(0, t), HalfIn(t, 0), t)
         /\ t * 4225 \in Word
<1>0. t \in Nat /\ 0 \in Nibble
  BY InNibble
<1>1. HalfIn(0, t) = 8 * (t % 2) /\ HalfIn(t, 0) = t \div 2
  <2>1. 0 \div 2 = 0 /\ 0 % 2 = 0
    OBVIOUS
  <2>2. t \div 2 \in Nat /\ t % 2 \in Nat
    BY <1>0
  <2> QED
    BY <1>0, <2>1, <2>2 DEF HalfIn
<1>2. PICK p \in Nat, q \in Nat : t = 2 * p + q /\ p = t \div 2 /\ q = t % 2
  BY <1>0, Halves
<1>3. (2 * p + q) * 4225 = (2 * p + q) + 16 * (8 * q) + 256 * p + 4096 * (2 * p + q)
  OBVIOUS
<1>4. t * 4225 = Join(t, HalfIn(0, t), HalfIn(t, 0), t)
  <2>1. HalfIn(0, t) = 8 * q /\ HalfIn(t, 0) = p /\ t = 2 * p + q
    BY <1>1, <1>2
  <2> QED
    BY <1>3, <2>1 DEF Join
<1>5. HalfIn(0, t) \in Nibble /\ HalfIn(t, 0) \in Nibble
  BY <1>0, HalfBits
<1> QED
  BY <1>4, <1>5, NibblesOfJoin

\* Four nibbles, as one hypothesis.
Nibbles(a, b, c, d) == a \in Nibble /\ b \in Nibble /\ c \in Nibble /\ d \in Nibble

\* Exclusive or of two words given by their nibbles.
LEMMA JoinXor ==
  ASSUME NEW a, NEW b, NEW c, NEW d, Nibbles(a, b, c, d),
         NEW p, NEW q, NEW r, NEW s, Nibbles(p, q, r, s)
  PROVE  Join(a, b, c, d) ^^ Join(p, q, r, s) =
           Join(NibbleXor[a][p], NibbleXor[b][q], NibbleXor[c][r], NibbleXor[d][s])
<1> DEFINE x == Join(a, b, c, d)
           y == Join(p, q, r, s)
           z == Join(NibbleXor[a][p], NibbleXor[b][q], NibbleXor[c][r], NibbleXor[d][s])
<1> USE DEF Nibbles
<1>1. /\ NibbleXor[a][p] \in Nibble /\ NibbleXor[b][q] \in Nibble
      /\ NibbleXor[c][r] \in Nibble /\ NibbleXor[d][s] \in Nibble
  BY NibbleXorBits
<1>2. x \in Word /\ At(x, 1) = a /\ At(x, 16) = b /\ At(x, 256) = c /\ At(x, 4096) = d
  BY NibblesOfJoin
<1>3. y \in Word /\ At(y, 1) = p /\ At(y, 16) = q /\ At(y, 256) = r /\ At(y, 4096) = s
  BY NibblesOfJoin
<1>4. /\ z \in Word /\ At(z, 1) = NibbleXor[a][p] /\ At(z, 16) = NibbleXor[b][q]
      /\ At(z, 256) = NibbleXor[c][r] /\ At(z, 4096) = NibbleXor[d][s]
  <2>1. PICK e \in Nibble, f \in Nibble, g \in Nibble, h \in Nibble :
          /\ e = NibbleXor[a][p] /\ f = NibbleXor[b][q]
          /\ g = NibbleXor[c][r] /\ h = NibbleXor[d][s]
    BY <1>1
  <2>2. z = Join(e, f, g, h)
    BY <2>1
  <2> HIDE DEF z
  <2> QED
    BY SMTT(40), <2>1, <2>2, NibblesOfJoin
<1> HIDE DEF x, y, z
<1>5. x ^^ y \in Word /\ \A w \in {1, 16, 256, 4096} : At(x ^^ y, w) = NibbleXor[At(x, w)][At(y, w)]
  BY <1>2, <1>3, XorNibbles
<1>6. \A w \in {1, 16, 256, 4096} : At(x ^^ y, w) = At(z, w)
  BY <1>2, <1>3, <1>4, <1>5
<1>7. x ^^ y = z
  BY <1>4, <1>5, <1>6, SameNibbles
<1> QED
  BY <1>7 DEF x, y, z

\* The three terms TakeNibble adds are the nibble times 4225.
LEMMA SpreadXor ==
  ASSUME NEW s \in Nibble, NEW t \in Nibble
  PROVE  NibbleXor[s][t] * 4225 = (s * 4225) ^^ (t * 4225)
<1>0. 0 \in Nibble /\ NibbleXor[s][t] \in Nibble /\ NibbleXor[0][0] = 0
  BY InNibble, NibbleXorBits, NibbleXorLaws
<1>1. /\ HalfIn(0, s) \in Nibble /\ HalfIn(s, 0) \in Nibble
      /\ HalfIn(0, t) \in Nibble /\ HalfIn(t, 0) \in Nibble
  BY <1>0, HalfBits
<1>2. /\ HalfIn(0, NibbleXor[s][t]) = NibbleXor[HalfIn(0, s)][HalfIn(0, t)]
      /\ HalfIn(NibbleXor[s][t], 0) = NibbleXor[HalfIn(s, 0)][HalfIn(t, 0)]
  BY <1>0, HalfInXor
<1> DEFINE e == HalfIn(0, s) f == HalfIn(s, 0) g == HalfIn(0, t) h == HalfIn(t, 0)
<1>3. /\ s * 4225 = Join(s, HalfIn(0, s), HalfIn(s, 0), s)
      /\ t * 4225 = Join(t, HalfIn(0, t), HalfIn(t, 0), t)
      /\ NibbleXor[s][t] * 4225 =
           Join(NibbleXor[s][t], HalfIn(0, NibbleXor[s][t]), HalfIn(NibbleXor[s][t], 0), NibbleXor[s][t])
  BY <1>0, SpreadShape
<1> HIDE DEF e, f, g, h
<1>4. Join(s, e, f, s) ^^ Join(t, g, h, t) =
        Join(NibbleXor[s][t], NibbleXor[e][g], NibbleXor[f][h], NibbleXor[s][t])
  <2>1. Nibbles(s, e, f, s) /\ Nibbles(t, g, h, t)
    BY <1>1 DEF e, f, g, h, Nibbles
  <2> QED
    BY <2>1, JoinXor
<1> QED
  BY <1>2, <1>3, <1>4 DEF e, f, g, h

\* A nibble is a word like any other.
LEMMA NibbleWord ==
  ASSUME NEW t \in Nibble
  PROVE  t = Join(t, 0, 0, 0) /\ t \in Word
BY InNibble, InWord DEF Join

\* Exclusive or of nibbles and of words are the same.
LEMMA NibbleWordXor ==
  ASSUME NEW s \in Nibble, NEW t \in Nibble
  PROVE  s ^^ t = NibbleXor[s][t]
<1>0. 0 \in Nibble /\ NibbleXor[0][0] = 0 /\ NibbleXor[s][t] \in Nibble
  BY SMTT(40), InNibble, NibbleXorLaws, NibbleXorBits
<1>1. Join(s, 0, 0, 0) ^^ Join(t, 0, 0, 0) = Join(NibbleXor[s][t], 0, 0, 0)
  BY <1>0, JoinXor DEF Nibbles
<1> QED
  BY <1>0, <1>1, NibbleWord

\* Four shifts of a nibble spread it.
LEMMA ShiftNibbleSpreads ==
  ASSUME NEW t \in Nibble
  PROVE  ShiftNibble(t) = t * 4225
<1> DEFINE G(n) == n \in Nibble /\ ShiftNibble(n) = n * 4225
<1>1. ASSUME NEW m, NEW n, G(m), G(n)
      PROVE  G(NibbleXor[m][n])
  <2>1. m \in Word /\ n \in Word /\ m ^^ n = NibbleXor[m][n]
    BY <1>1, NibbleWord, NibbleWordXor
  <2>2. ShiftNibble(m ^^ n) = ShiftNibble(m) ^^ ShiftNibble(n)
    BY <2>1, ShiftXor
  <2>3. NibbleXor[m][n] \in Nibble
    BY <1>1, NibbleXorBits
  <2> QED
    BY <1>1, <2>1, <2>2, <2>3, SpreadXor
<1>2. /\ ShiftOnce(33800) = 16900 /\ ShiftOnce(16900) = 8450 /\ ShiftOnce(8450) = 4225
      /\ ShiftOnce(8) = 4 /\ ShiftOnce(4) = 2 /\ ShiftOnce(2) = 1
  <2>1. 33800 = 2 * 16900 /\ 16900 = 2 * 8450 /\ 8450 = 2 * 4225 /\ 8 = 2 * 4 /\ 4 = 2 * 2 /\ 2 = 2 * 1
    OBVIOUS
  <2> QED
    BY <2>1, Doubled
<1>3. ShiftOnce(1) = 33800
  <2>1. 1 % 2 = 1 /\ 1 \div 2 = 0
    OBVIOUS
  <2>2. 0 \in Word /\ 33800 \in Word
    BY InWord
  <2>3. 0 ^^ 33800 = 33800
    BY <2>2, XorLaws
  <2> QED
    BY <2>1, <2>3 DEF ShiftOnce
<1>4. G(1) /\ G(2) /\ G(4) /\ G(8)
  BY <1>2, <1>3, InNibble DEF ShiftNibble
<1> HIDE DEF G
<1>5. /\ NibbleXor[1][1] = 0 /\ NibbleXor[1][2] = 3 /\ NibbleXor[1][4] = 5 /\ NibbleXor[2][4] = 6
      /\ NibbleXor[3][4] = 7
  BY DEF NibbleXor
<1>6. /\ NibbleXor[8][1] = 9 /\ NibbleXor[8][2] = 10 /\ NibbleXor[8][3] = 11 /\ NibbleXor[8][4] = 12
      /\ NibbleXor[8][5] = 13 /\ NibbleXor[8][6] = 14 /\ NibbleXor[8][7] = 15
  BY DEF NibbleXor
<1>7. G(0) /\ G(3) /\ G(5) /\ G(6)
  BY <1>1, <1>4, <1>5
<1>8. G(7)
  BY <1>1, <1>4, <1>5, <1>7
<1>9. G(9) /\ G(10) /\ G(11) /\ G(12) /\ G(13) /\ G(14) /\ G(15)
  BY <1>1, <1>4, <1>6, <1>7, <1>8
<1>10. t \in {0, 1, 2, 3, 4, 5, 6, 7, 8, 9, 10, 11, 12, 13, 14, 15}
  BY DEF Nibble
<1>11. G(t)
  BY <1>4, <1>7, <1>8, <1>9, <1>10
<1> QED
  BY <1>11 DEF G

\* A word is its lowest nibble and the rest.
LEMMA SplitWord ==
  ASSUME NEW w \in Word
  PROVE  /\ w % 16 \in Nibble
         /\ w \div 16 \in Nat /\ w \div 16 <= 4095
         /\ 16 * (w \div 16) \in Word /\ w \div 16 \in Word
         /\ w = (16 * (w \div 16)) ^^ (w % 16)
<1> DEFINE a == At(w, 1) b == At(w, 16) c == At(w, 256) d == At(w, 4096)
<1>1. /\ a \in Nibble /\ b \in Nibble /\ c \in Nibble /\ d \in Nibble /\ 0 \in Nibble
      /\ w = Join(a, b, c, d)
  BY WordIsNibbles, InNibble
<1>2. w \in Nat /\ w <= 65535
  BY InWord
<1>3. a = w % 16
  BY <1>2, NextNibble DEF At
<1> HIDE DEF a, b, c, d
<1>4. w = 16 * (w \div 16) + (w % 16) /\ w \div 16 \in Nat /\ w \div 16 <= 4095
  BY <1>2
<1>5. 16 * (w \div 16) = Join(0, b, c, d)
  <2>1. a \in Nat /\ b \in Nat /\ c \in Nat /\ d \in Nat
    BY <1>1, InNibble
  <2>2. w = a + (16 * b + 256 * c + 4096 * d)
    BY <1>1, <2>1 DEF Join
  <2>3. Join(0, b, c, d) = 16 * b + 256 * c + 4096 * d
    BY <2>1 DEF Join
  <2> HIDE DEF Join
  <2>4. PICK h \in Nat : h = w \div 16
    BY <1>4
  <2>5. w = 16 * h + a
    BY <1>3, <1>4, <2>4
  <2> QED
    BY <2>1, <2>2, <2>3, <2>4, <2>5
<1>6. Join(0, b, c, d) ^^ Join(a, 0, 0, 0) = Join(NibbleXor[0][a], NibbleXor[b][0], NibbleXor[c][0], NibbleXor[d][0])
  <2>1. Nibbles(0, b, c, d) /\ Nibbles(a, 0, 0, 0)
    BY <1>1 DEF Nibbles
  <2> QED
    BY <2>1, JoinXor
<1>7. NibbleXor[0][a] = a /\ NibbleXor[b][0] = b /\ NibbleXor[c][0] = c /\ NibbleXor[d][0] = d
  BY <1>1, NibbleXorLaws
<1>8. a = Join(a, 0, 0, 0)
  BY <1>1, NibbleWord
<1>9. Join(0, b, c, d) \in Word
  BY <1>1, NibblesOfJoin
<1>10. w \div 16 \in Word
  BY <1>4, InWord
<1> QED
  BY <1>1, <1>3, <1>4, <1>5, <1>6, <1>7, <1>8, <1>9, <1>10

\* Four shifts at once: the two halves of TakeNibble.
LEMMA ShiftNibbleIs ==
  ASSUME NEW w \in Word
  PROVE  /\ ShiftNibble(w) = (w \div 16) ^^ ((w % 16) * 4225)
         /\ (w % 16) * 4225 \in Word
<1>1. /\ w % 16 \in Nibble /\ w % 16 \in Word
      /\ 16 * (w \div 16) \in Word /\ w = (16 * (w \div 16)) ^^ (w % 16)
  BY SplitWord, NibbleWord
<1>2. ShiftNibble(w) = ShiftNibble(16 * (w \div 16)) ^^ ShiftNibble(w % 16)
  BY <1>1, ShiftXor
<1>3. ShiftNibble(16 * (w \div 16)) = w \div 16
  BY SplitWord, ShiftNibbleDown
<1> QED
  BY <1>1, <1>2, <1>3, ShiftNibbleSpreads, SpreadShape

\* Dropping the lowest nibble, nibble by nibble.
LEMMA DropNibble ==
  ASSUME NEW a, NEW b, NEW c, NEW d, Nibbles(a, b, c, d)
  PROVE  /\ Join(a, b, c, d) \div 16 = Join(b, c, d, 0)
         /\ Join(a, b, c, d) % 16 = a
<1>1. a \in Nat /\ b \in Nat /\ c \in Nat /\ d \in Nat /\ a <= 15
  BY InNibble DEF Nibbles
<1>2. PICK k \in Nat : k = b + 16 * c + 256 * d
  <2>1. b + 16 * c + 256 * d \in Nat
    BY <1>1
  <2> QED
    BY <2>1
<1>3. Join(a, b, c, d) = a + 16 * k /\ Join(b, c, d, 0) = k
  BY <1>1, <1>2 DEF Join
<1> QED
  BY <1>1, <1>2, <1>3, PutNibble

\* Dropping a nibble commutes with exclusive or.
LEMMA DropXor ==
  ASSUME NEW x \in Word, NEW y \in Word
  PROVE  /\ (x ^^ y) \div 16 = (x \div 16) ^^ (y \div 16)
         /\ (x ^^ y) % 16 = (x % 16) ^^ (y % 16)
<1>1. PICK a, b, c, d : Nibbles(a, b, c, d) /\ x = Join(a, b, c, d)
  BY WordIsNibbles DEF Nibbles
<1>2. PICK p, q, r, s : Nibbles(p, q, r, s) /\ y = Join(p, q, r, s)
  BY WordIsNibbles DEF Nibbles
<1>3. PICK e, f, g, h :
        /\ Nibbles(e, f, g, h)
        /\ e = NibbleXor[a][p] /\ f = NibbleXor[b][q] /\ g = NibbleXor[c][r] /\ h = NibbleXor[d][s]
  BY <1>1, <1>2, NibbleXorBits DEF Nibbles
<1>4. x ^^ y = Join(e, f, g, h)
  BY <1>1, <1>2, <1>3, JoinXor
<1>5. /\ x \div 16 = Join(b, c, d, 0) /\ y \div 16 = Join(q, r, s, 0) /\ (x ^^ y) \div 16 = Join(f, g, h, 0)
      /\ x % 16 = a /\ y % 16 = p /\ (x ^^ y) % 16 = e
  BY <1>1, <1>2, <1>3, <1>4, DropNibble
<1>6. Nibbles(b, c, d, 0) /\ Nibbles(q, r, s, 0) /\ NibbleXor[0][0] = 0
  <2>1. 0 \in Nibble
    BY InNibble
  <2>2. NibbleXor[0][0] = 0
    BY <2>1, NibbleXorLaws
  <2> QED
    BY <1>1, <1>2, <2>1, <2>2 DEF Nibbles
<1>7. Join(b, c, d, 0) ^^ Join(q, r, s, 0) = Join(f, g, h, 0)
  BY <1>3, <1>6, JoinXor
<1>8. a ^^ p = e
  BY <1>1, <1>2, <1>3, NibbleWordXor DEF Nibbles
<1> QED
  BY <1>5, <1>7, <1>8

\* One half of a byte of crc16_ssp is four shifts of the register.
LEMMA TakeNibbleIs ==
  ASSUME NEW crc \in Word, NEW nibble \in Word
  PROVE  /\ TakeNibble(crc, nibble) = ShiftNibble(crc ^^ nibble) ^^ (nibble \div 16)
         /\ TakeNibble(crc, nibble) \in Word
<1> DEFINE x == crc ^^ nibble
           S == (x % 16) * 4225
           a == crc \div 16
           b == nibble \div 16
<1>1. x \in Word /\ S \in Word /\ a \in Word /\ b \in Word
  BY XorNibbles, SplitWord, ShiftNibbleIs
<1>2. x \div 16 = a ^^ b
  BY DropXor
<1>3. ShiftNibble(x) = (x \div 16) ^^ S
  BY <1>1, ShiftNibbleIs
<1>4. TakeNibble(crc, nibble) = a ^^ S
  BY DEF TakeNibble
<1> HIDE DEF x, S, a, b
<1>5. ((a ^^ b) ^^ S) ^^ b = a ^^ S
  <2>1. a ^^ b \in Word /\ S ^^ b \in Word /\ S ^^ b = b ^^ S /\ b ^^ b = 0 /\ a ^^ S \in Word
    BY <1>1, XorNibbles, XorLaws
  <2>2. (a ^^ b) ^^ S = a ^^ (b ^^ S)
    BY <1>1, XorLaws
  <2>3. (a ^^ (b ^^ S)) ^^ b = a ^^ ((b ^^ S) ^^ b)
    BY <1>1, <2>1, XorLaws
  <2>4. (b ^^ S) ^^ b = S
    <3>1. (S ^^ b) ^^ b = S ^^ (b ^^ b) /\ S ^^ 0 = S
      BY <1>1, XorLaws
    <3> QED
      BY <2>1, <3>1
  <2> QED
    BY <2>2, <2>3, <2>4
<1> QED
  BY <1>1, <1>2, <1>3, <1>4, <1>5, XorNibbles DEF x, b

\* A byte is a word whose upper half is zero.
LEMMA ByteIsWord ==
  ASSUME NEW b \in Byte
  PROVE  /\ b \in Word
         /\ b \div 16 \in Word /\ b \div 16 \in Nibble
         /\ (b \div 16) \div 16 = 0
<1>1. b \in Nat /\ b <= 255
  BY InByte
<1>2. b \div 16 \in Nat /\ b \div 16 <= 15
  BY <1>1
<1>3. (b \div 16) \div 16 = 0
  BY <1>2
<1> QED
  BY <1>1, <1>2, <1>3, InWord, InNibble

\* crc16_ssp takes a byte as eight steps of the shift register.
LEMMA TakeByteIs ==
  ASSUME NEW crc \in Word, NEW byte \in Byte
  PROVE  /\ TakeByte(crc, byte) = ShiftByte(crc ^^ byte)
         /\ TakeByte(crc, byte) \in Word
<1> DEFINE h == byte \div 16
           N == ShiftNibble(crc ^^ byte)
           u == TakeNibble(crc, byte)
<1>1. byte \in Word /\ h \in Word /\ h \div 16 = 0
  BY ByteIsWord
<1>2. u = N ^^ h /\ u \in Word
  BY <1>1, TakeNibbleIs
<1>3. N \in Word
  BY <1>1, XorNibbles, ShiftType
<1>4. TakeByte(crc, byte) = TakeNibble(u, h)
  BY DEF TakeByte
<1>5. ShiftByte(crc ^^ byte) = ShiftNibble(N)
  BY DEF ShiftByte
<1> HIDE DEF h, N, u
<1>6. u ^^ h = N
  BY <1>1, <1>2, <1>3, XorLaws
<1>7. TakeNibble(u, h) = ShiftNibble(N) ^^ 0 /\ TakeNibble(u, h) \in Word
  BY <1>1, <1>2, <1>6, TakeNibbleIs
<1>8. ShiftNibble(N) ^^ 0 = ShiftNibble(N)
  BY <1>3, ShiftType, XorLaws
<1> QED
  BY <1>4, <1>5, <1>7, <1>8

\* A byte is its low nibble and its high one.
LEMMA ByteNibbles ==
  ASSUME NEW a \in Nibble, NEW b \in Nibble
  PROVE  Join(a, b, 0, 0) \in Byte /\ Join(a, b, 0, 0) = a + 16 * b
<1>1. a \in Nat /\ b \in Nat /\ a <= 15 /\ b <= 15
  BY InNibble
<1>2. Join(a, b, 0, 0) = a + 16 * b
  BY <1>1 DEF Join
<1> QED
  BY <1>1, <1>2, InByte

\* A word is its low byte and its high byte.
LEMMA SplitBytes ==
  ASSUME NEW w \in Word
  PROVE  \E a, b, c, d :
           /\ Nibbles(a, b, c, d) /\ w = Join(a, b, c, d)
           /\ w % 256 = Join(a, b, 0, 0) /\ w \div 256 = Join(c, d, 0, 0)
           /\ 256 * (w \div 256) = Join(0, 0, c, d)
<1>1. PICK a, b, c, d : Nibbles(a, b, c, d) /\ w = Join(a, b, c, d)
  BY WordIsNibbles DEF Nibbles
<1>2. /\ a \in Nat /\ b \in Nat /\ c \in Nat /\ d \in Nat
      /\ a <= 15 /\ b <= 15 /\ c <= 15 /\ d <= 15
  BY <1>1, InNibble DEF Nibbles
<1>3. PICK l \in Nat, h \in Nat : l = a + 16 * b /\ h = c + 16 * d
  <2>1. a + 16 * b \in Nat /\ c + 16 * d \in Nat
    BY <1>2
  <2> QED
    BY <2>1
<1>4. l <= 255 /\ w = l + 256 * h
  BY <1>1, <1>2, <1>3 DEF Join
<1>5. w % 256 = l /\ w \div 256 = h
  BY <1>3, <1>4
<1>6. Join(a, b, 0, 0) = l /\ Join(c, d, 0, 0) = h /\ Join(0, 0, c, d) = 256 * h
  BY <1>2, <1>3 DEF Join
<1> QED
  BY <1>1, <1>5, <1>6

\* Two bytes make a word.
LEMMA WordOfBytes ==
  ASSUME NEW w \in Word
  PROVE  /\ w % 256 \in Byte /\ w \div 256 \in Byte
         /\ 256 * (w \div 256) \in Word
         /\ w = (256 * (w \div 256)) ^^ (w % 256)
<1>1. PICK a, b, c, d :
           /\ Nibbles(a, b, c, d) /\ w = Join(a, b, c, d)
           /\ w % 256 = Join(a, b, 0, 0) /\ w \div 256 = Join(c, d, 0, 0)
           /\ 256 * (w \div 256) = Join(0, 0, c, d)
  BY SplitBytes
<1>2. w % 256 \in Byte /\ w \div 256 \in Byte
  BY <1>1, ByteNibbles DEF Nibbles
<1>3. Nibbles(0, 0, c, d) /\ Nibbles(a, b, 0, 0)
  BY <1>1, InNibble DEF Nibbles
<1>4. Join(0, 0, c, d) \in Word
  BY <1>3, NibblesOfJoin DEF Nibbles
<1>5. Join(0, 0, c, d) ^^ Join(a, b, 0, 0) =
        Join(NibbleXor[0][a], NibbleXor[0][b], NibbleXor[c][0], NibbleXor[d][0])
  BY <1>3, JoinXor
<1>6. NibbleXor[0][a] = a /\ NibbleXor[0][b] = b /\ NibbleXor[c][0] = c /\ NibbleXor[d][0] = d
  BY <1>3, NibbleXorLaws DEF Nibbles
<1> QED
  BY <1>1, <1>2, <1>4, <1>5, <1>6

\* Exclusive or of bytes stays a byte.
LEMMA ByteXor ==
  ASSUME NEW x \in Byte, NEW y \in Byte
  PROVE  x ^^ y \in Byte
<1>1. x \in Nat /\ x <= 255 /\ y \in Nat /\ y <= 255
  BY InByte
<1>2. PICK a \in Nibble, b \in Nibble : x = Join(a, b, 0, 0)
  <2>1. x % 16 \in Nibble /\ x \div 16 \in Nibble
    BY <1>1, InNibble
  <2>2. x = (x % 16) + 16 * (x \div 16)
    BY <1>1
  <2> QED
    BY <2>1, <2>2, ByteNibbles
<1>3. PICK p \in Nibble, q \in Nibble : y = Join(p, q, 0, 0)
  <2>1. y % 16 \in Nibble /\ y \div 16 \in Nibble
    BY <1>1, InNibble
  <2>2. y = (y % 16) + 16 * (y \div 16)
    BY <1>1
  <2> QED
    BY <2>1, <2>2, ByteNibbles
<1>4. Nibbles(a, b, 0, 0) /\ Nibbles(p, q, 0, 0) /\ NibbleXor[0][0] = 0
  BY InNibble, NibbleXorLaws DEF Nibbles
<1>5. Join(a, b, 0, 0) ^^ Join(p, q, 0, 0) = Join(NibbleXor[a][p], NibbleXor[b][q], 0, 0)
  BY <1>4, JoinXor
<1> QED
  BY <1>2, <1>3, <1>5, NibbleXorBits, ByteNibbles

\* So does crc16_hasher, whose table holds those eight steps for every byte.
LEMMA LookUpByteIs ==
  ASSUME NEW seed \in Word, NEW byte \in Byte
  PROVE  /\ LookUpByte(seed, byte) = ShiftByte(seed ^^ byte)
         /\ LookUpByte(seed, byte) \in Word
<1> DEFINE lo == seed % 256
           hi == seed \div 256
           up == 256 * hi
<1>1. lo \in Byte /\ hi \in Byte /\ up \in Word /\ seed = up ^^ lo
  BY WordOfBytes
<1>2. LookUpByte(seed, byte) = TABLE[lo ^^ byte] ^^ hi
  BY DEF LookUpByte
<1>3. hi \in Nat /\ hi <= 255
  BY <1>1, InByte
<1>4. ShiftByte(up) = hi
  BY <1>3, ShiftByteDown
<1> HIDE DEF lo, hi, up
<1>5. lo \in Word /\ hi \in Word /\ byte \in Word /\ lo ^^ byte \in Byte /\ lo ^^ byte \in Word
  BY <1>1, ByteIsWord, ByteXor, XorNibbles
<1>6. TABLE[lo ^^ byte] = ShiftByte(lo ^^ byte)
  BY <1>5 DEF TABLE, Byte
<1>7. seed ^^ byte = up ^^ (lo ^^ byte)
  BY <1>1, <1>5, XorLaws
<1>8. ShiftByte(seed ^^ byte) = hi ^^ ShiftByte(lo ^^ byte)
  BY <1>1, <1>4, <1>5, <1>7, ShiftXor
<1>9. ShiftByte(lo ^^ byte) \in Word
  BY <1>5, ShiftType
<1> QED
  BY <1>2, <1>5, <1>6, <1>8, <1>9, XorLaws, XorNibbles

-----------------------------------------------------------------------------
\* Checksums and frames.

\* The register takes one byte after the other.
Shifts(d) == [i \in 1..Len(d) |-> [w \in Word |-> ShiftByte(w ^^ d[i])]]

\* The register as a fold, one byte a step.
LEMMA ShiftsAreSteps ==
  ASSUME NEW d \in Seq(Byte), NEW base \in Word
  PROVE  StepFold(Len(d), Word, base, Shifts(d))
<1>1. ASSUME NEW i \in 1..Len(d), NEW w \in Word
      PROVE  ShiftByte(w ^^ d[i]) \in Word
  <2>1. d[i] \in Word
    BY ByteIsWord
  <2> QED
    BY <2>1, XorNibbles, ShiftType
<1> QED
  BY <1>1 DEF StepFold, Shifts

\* Two runs with the same start and the same steps end the same.
LEMMA StatesUnique ==
  ASSUME NEW n, NEW W, NEW base, NEW step, NEW F, NEW G, NEW r, NEW q, n \in Nat,
         StatesAre(F, n, W, base, step, r), StatesAre(G, n, W, base, step, q)
  PROVE  r = q
<1> DEFINE S == {k \in Nat : k <= n => F[k] = G[k]}
<1>1. 0 \in S
  BY DEF StatesAre
<1>2. ASSUME NEW k \in Nat, k \in S PROVE k + 1 \in S
  <2> SUFFICES ASSUME k + 1 <= n PROVE F[k + 1] = G[k + 1]
    OBVIOUS
  <2>1. k + 1 \in 1..n /\ (k + 1) - 1 = k /\ F[k] = G[k]
    BY <1>2
  <2>2. F[k + 1] = step[k + 1][F[k]] /\ G[k + 1] = step[k + 1][G[k]]
    BY <2>1 DEF StatesAre
  <2> QED
    BY <2>1, <2>2
<1>3. n \in S
  <2> HIDE DEF S
  <2> QED
    BY <1>1, <1>2, SetInduction
<1> QED
  BY <1>3 DEF StatesAre

\* crc16_ssp, a nibble at a time, runs the register.
LEMMA TakeByteFold ==
  ASSUME NEW d \in Seq(Byte), NEW base \in Word
  PROVE  \E F : StatesAre(F, Len(d), Word, base, Shifts(d), FoldLeft(TakeByte, base, d))
<1> DEFINE n == Len(d)
           D == 1..n
           step == Shifts(d)
           Next(h, s) == IF s = {} THEN base ELSE TakeByte(h[s \ {Max(s)}], d[Max(s)])
           it == CHOOSE h : h = [s \in SUBSET D |-> Next(h, s)]
<1>1. StepFold(n, Word, base, step)
  BY ShiftsAreSteps
<1>2. \A s \in SUBSET D : s # {} => Max(s) \in D
  <2>1. n \in Nat
    OBVIOUS
  <2> HIDE DEF n
  <2> QED
    BY <2>1, MaxOfNumbers
<1>3. \A w \in Word, i \in D : step[i][w] = TakeByte(w, d[i])
  <2>1. \A i \in D : d[i] \in Byte
    OBVIOUS
  <2>2. \A w \in Word, i \in D : step[i][w] = ShiftByte(w ^^ d[i])
    BY DEF Shifts
  <2> QED
    BY <2>1, <2>2, TakeByteIs
<1>4. FoldLeft(TakeByte, base, d) = it[D]
  <2>1. DOMAIN d = D
    OBVIOUS
  <2> QED
    BY <2>1 DEF FoldLeft, MapThenFoldSet
<1> HIDE DEF step
<1>5. \E h : h = [s \in SUBSET D |-> Next(h, s)]
  <2>1. PICK h : FoldRuns(h, n, Word, base, step)
    BY <1>1, StepsExist
  <2> HIDE DEF D
  <2>2. h \in [SUBSET D -> Word] /\ \A s \in SUBSET D : h[s] = Next(h, s)
    BY <1>2, <1>3, <2>1 DEF FoldRuns, D
  <2> HIDE DEF Next
  <2> QED
    BY <2>2
<1>6. it = [s \in SUBSET D |-> Next(it, s)]
  <2> HIDE DEF Next, D
  <2> QED
    BY <1>5
<1> HIDE DEF it
<1>7. FollowsSteps(it, n, Word, base, step)
  <2>1. ASSUME NEW s \in SUBSET D, s # {}, it[s \ {Max(s)}] \in Word
        PROVE  it[s] = step[Max(s)][it[s \ {Max(s)}]]
    <3>1. it[s] = TakeByte(it[s \ {Max(s)}], d[Max(s)])
      BY <1>6, <2>1
    <3> QED
      BY <1>2, <1>3, <2>1, <3>1
  <2> QED
    BY <1>6, <2>1 DEF FollowsSteps
<1> QED
  BY <1>1, <1>4, <1>7, StatesOfSteps DEF step

\* crc16_hasher, by table, runs the register.
LEMMA LookUpByteFold ==
  ASSUME NEW d \in Seq(Byte), NEW base \in Word
  PROVE  \E F : StatesAre(F, Len(d), Word, base, Shifts(d), FoldLeft(LookUpByte, base, d))
<1> DEFINE n == Len(d)
           D == 1..n
           step == Shifts(d)
           Next(h, s) == IF s = {} THEN base ELSE LookUpByte(h[s \ {Max(s)}], d[Max(s)])
           it == CHOOSE h : h = [s \in SUBSET D |-> Next(h, s)]
<1>1. StepFold(n, Word, base, step)
  BY ShiftsAreSteps
<1>2. \A s \in SUBSET D : s # {} => Max(s) \in D
  <2>1. n \in Nat
    OBVIOUS
  <2> HIDE DEF n
  <2> QED
    BY <2>1, MaxOfNumbers
<1>3. \A w \in Word, i \in D : step[i][w] = LookUpByte(w, d[i])
  <2>1. \A i \in D : d[i] \in Byte
    OBVIOUS
  <2>2. \A w \in Word, i \in D : step[i][w] = ShiftByte(w ^^ d[i])
    BY DEF Shifts
  <2> QED
    BY <2>1, <2>2, LookUpByteIs
<1>4. FoldLeft(LookUpByte, base, d) = it[D]
  <2>1. DOMAIN d = D
    OBVIOUS
  <2> QED
    BY <2>1 DEF FoldLeft, MapThenFoldSet
<1> HIDE DEF step
<1>5. \E h : h = [s \in SUBSET D |-> Next(h, s)]
  <2>1. PICK h : FoldRuns(h, n, Word, base, step)
    BY <1>1, StepsExist
  <2> HIDE DEF D
  <2>2. h \in [SUBSET D -> Word] /\ \A s \in SUBSET D : h[s] = Next(h, s)
    BY <1>2, <1>3, <2>1 DEF FoldRuns, D
  <2> HIDE DEF Next
  <2> QED
    BY <2>2
<1>6. it = [s \in SUBSET D |-> Next(it, s)]
  <2> HIDE DEF Next, D
  <2> QED
    BY <1>5
<1> HIDE DEF it
<1>7. FollowsSteps(it, n, Word, base, step)
  <2>1. ASSUME NEW s \in SUBSET D, s # {}, it[s \ {Max(s)}] \in Word
        PROVE  it[s] = step[Max(s)][it[s \ {Max(s)}]]
    <3>1. it[s] = LookUpByte(it[s \ {Max(s)}], d[Max(s)])
      BY <1>6, <2>1
    <3> QED
      BY <1>2, <1>3, <2>1, <3>1
  <2> QED
    BY <1>6, <2>1 DEF FollowsSteps
<1> QED
  BY <1>1, <1>4, <1>7, StatesOfSteps DEF step

\* So does the reference, by definition.
LEMMA AbsorbFold ==
  ASSUME NEW d \in Seq(Byte), NEW base \in Word
  PROVE  \E F : StatesAre(F, Len(d), Word, base, Shifts(d), FoldLeft(Absorb, base, d))
<1> DEFINE n == Len(d)
           D == 1..n
           step == Shifts(d)
           Next(h, s) == IF s = {} THEN base ELSE Absorb(h[s \ {Max(s)}], d[Max(s)])
           it == CHOOSE h : h = [s \in SUBSET D |-> Next(h, s)]
<1>1. StepFold(n, Word, base, step)
  BY ShiftsAreSteps
<1>2. \A s \in SUBSET D : s # {} => Max(s) \in D
  <2>1. n \in Nat
    OBVIOUS
  <2> HIDE DEF n
  <2> QED
    BY <2>1, MaxOfNumbers
<1>3. \A w \in Word, i \in D : step[i][w] = Absorb(w, d[i])
  <2>1. \A i \in D : d[i] \in Byte
    OBVIOUS
  <2>2. \A w \in Word, i \in D : step[i][w] = ShiftByte(w ^^ d[i])
    BY DEF Shifts
  <2>3. ASSUME NEW w \in Word, NEW i \in D PROVE w ^^ d[i] \in Nat
    <3>1. d[i] \in Word
      BY <2>1, ByteIsWord
    <3>2. w ^^ d[i] \in Word
      BY <3>1, XorNibbles
    <3> QED
      BY <3>2, InWord
  <2> QED
    BY <2>2, <2>3 DEF Absorb, Shifted
<1>4. FoldLeft(Absorb, base, d) = it[D]
  <2>1. DOMAIN d = D
    OBVIOUS
  <2> QED
    BY <2>1 DEF FoldLeft, MapThenFoldSet
<1> HIDE DEF step
<1>5. \E h : h = [s \in SUBSET D |-> Next(h, s)]
  <2>1. PICK h : FoldRuns(h, n, Word, base, step)
    BY <1>1, StepsExist
  <2> HIDE DEF D
  <2>2. h \in [SUBSET D -> Word] /\ \A s \in SUBSET D : h[s] = Next(h, s)
    BY <1>2, <1>3, <2>1 DEF FoldRuns, D
  <2> HIDE DEF Next
  <2> QED
    BY <2>2
<1>6. it = [s \in SUBSET D |-> Next(it, s)]
  <2> HIDE DEF Next, D
  <2> QED
    BY <1>5
<1> HIDE DEF it
<1>7. FollowsSteps(it, n, Word, base, step)
  <2>1. ASSUME NEW s \in SUBSET D, s # {}, it[s \ {Max(s)}] \in Word
        PROVE  it[s] = step[Max(s)][it[s \ {Max(s)}]]
    <3>1. it[s] = Absorb(it[s \ {Max(s)}], d[Max(s)])
      BY <1>6, <2>1
    <3> QED
      BY <1>2, <1>3, <2>1, <3>1
  <2> QED
    BY <1>6, <2>1 DEF FollowsSteps
<1> QED
  BY <1>1, <1>4, <1>7, StatesOfSteps DEF step

\* A checksum is written as two bytes.
LEMMA LittleEndianBytes ==
  ASSUME NEW w \in Word
  PROVE  LittleEndian(w) \in Seq(Byte) /\ Len(LittleEndian(w)) = 2
BY WordOfBytes DEF LittleEndian

\* Both checksums are the reflected CRC-16, from their own start values.
LEMMA ChecksumsOfBytes ==
  ASSUME NEW d \in Seq(Byte)
  PROVE  /\ Crc16Ssp(d) = LittleEndian(BitwiseCrc(25443, d))
         /\ Crc16Hasher(d) = LittleEndian(BitwiseCrc(65535, d) ^^ 65535)
         /\ Crc16Ssp(d) \in Seq(Byte) /\ Len(Crc16Ssp(d)) = 2
         /\ Crc16Hasher(d) \in Seq(Byte) /\ Len(Crc16Hasher(d)) = 2
<1>0. 25443 \in Word /\ 65535 \in Word /\ Len(d) \in Nat
  BY InWord
<1>1. ASSUME NEW base \in Word
      PROVE  /\ FoldLeft(TakeByte, base, d) = FoldLeft(Absorb, base, d)
             /\ FoldLeft(LookUpByte, base, d) = FoldLeft(Absorb, base, d)
             /\ FoldLeft(Absorb, base, d) \in Word
  <2>1. PICK F : StatesAre(F, Len(d), Word, base, Shifts(d), FoldLeft(Absorb, base, d))
    BY AbsorbFold
  <2>2. PICK G : StatesAre(G, Len(d), Word, base, Shifts(d), FoldLeft(TakeByte, base, d))
    BY TakeByteFold
  <2>3. PICK H : StatesAre(H, Len(d), Word, base, Shifts(d), FoldLeft(LookUpByte, base, d))
    BY LookUpByteFold
  <2>4. FoldLeft(Absorb, base, d) \in Word
    BY <1>0, <2>1 DEF StatesAre
  <2>5. FoldLeft(TakeByte, base, d) = FoldLeft(Absorb, base, d)
    BY <1>0, <2>1, <2>2, StatesUnique
  <2>6. FoldLeft(LookUpByte, base, d) = FoldLeft(Absorb, base, d)
    BY <1>0, <2>1, <2>3, StatesUnique
  <2> QED
    BY <2>4, <2>5, <2>6
<1>2. /\ FoldLeft(TakeByte, 25443, d) = FoldLeft(Absorb, 25443, d)
      /\ FoldLeft(Absorb, 25443, d) \in Word
      /\ FoldLeft(LookUpByte, 65535, d) = FoldLeft(Absorb, 65535, d)
      /\ FoldLeft(Absorb, 65535, d) ^^ 65535 \in Word
  BY <1>0, <1>1, XorNibbles
<1>3. /\ Crc16Ssp(d) = LittleEndian(FoldLeft(Absorb, 25443, d))
      /\ Crc16Hasher(d) = LittleEndian(FoldLeft(Absorb, 65535, d) ^^ 65535)
  BY <1>2 DEF Crc16Ssp, Crc16Hasher
<1> QED
  BY <1>2, <1>3, LittleEndianBytes DEF BitwiseCrc

\* The input is bytes, whatever it began with and however far it has grown.
CodecInv == input \in Seq(Byte) /\ grown \in 0..MaxGrowth

\* The input only ever holds bytes, so that what follows is about every input
\* the run can reach and every one it cannot.
THEOREM InputIsBytes == Spec => []CodecInv
<1>1. Init => CodecInv
  BY CodecAssumption DEF Init, CodecInv
<1>2. CodecInv /\ [Grow]_vars => CodecInv'
  <2> SUFFICES ASSUME CodecInv, [Grow]_vars PROVE CodecInv'
    OBVIOUS
  <2>1. CASE Grow
    BY <2>1, CodecAssumption DEF CodecInv, Grow
  <2>2. CASE UNCHANGED vars
    BY <2>2 DEF CodecInv, vars
  <2> QED
    BY <2>1, <2>2
<1> QED
  BY <1>1, <1>2, PTL DEF Spec

\* The two bytes after a sequence, and the sequence before them.
LEMMA ConcatParts ==
  ASSUME NEW data \in Seq(Byte), NEW crc \in Seq(Byte), Len(crc) = 2
  PROVE  LET n == Len(data) whole == data \o crc
         IN  /\ \A k \in 1..n : whole[k] = data[k]
             /\ whole[n + 1] = crc[1] /\ whole[n + 2] = crc[2]
<1>1. \A i \in 1..Len(data) + Len(crc) :
        (data \o crc)[i] = IF i <= Len(data) THEN data[i] ELSE crc[i - Len(data)]
  BY ConcatProperties
<1> DEFINE n == Len(data)
<1>2. n \in Nat
  OBVIOUS
<1> HIDE DEF n
<1>3. \A i \in 1..n + 2 : (data \o crc)[i] = IF i <= n THEN data[i] ELSE crc[i - n]
  BY <1>1 DEF n
<1>4. n + 1 \in 1..n + 2 /\ n + 2 \in 1..n + 2 /\ (n + 1) - n = 1 /\ (n + 2) - n = 2
  BY <1>2
<1>5. \A k \in 1..n : k \in 1..n + 2 /\ k <= n
  BY <1>2
<1>6. ~(n + 1 <= n) /\ ~(n + 2 <= n)
  BY <1>2
<1> QED
  BY <1>3, <1>4, <1>5, <1>6 DEF n

\* What decrypt_payload makes of padded data with two bytes after it.
LEMMA UnframePadded ==
  ASSUME NEW data \in Seq(Byte), NEW crc \in Seq(Byte), Len(crc) = 2
  PROVE  Unframe(ApplyPadding(data \o crc)) = IF crc = Crc16Ssp(data) THEN data ELSE None
<1> DEFINE n     == Len(data)
           whole == data \o crc
<1>1. n \in Nat /\ whole \in Seq(Byte) /\ Len(whole) = n + 2
  <2>1. whole \in Seq(Byte) /\ Len(whole) = Len(data) + Len(crc)
    BY ConcatProperties
  <2> QED
    BY <2>1
<1>2. /\ \A i \in 1..n : whole[i] = data[i]
      /\ whole[n + 1] = crc[1] /\ whole[n + 2] = crc[2]
  BY ConcatParts
<1>3. RemovePadding(ApplyPadding(whole)) = whole
  BY <1>1, PaddingComesOff
<1>4. whole # None
  BY <1>1, NoneAssumption
<1> HIDE DEF whole
<1>5. SubSeq(whole, 1, n) = data
  BY <1>1, <1>2
<1>6. SubSeq(whole, n + 1, n + 2) = crc
  BY <1>1, <1>2
<1> HIDE DEF n
<1>7. Len(whole) - 2 = n /\ ~(n < 0)
  BY <1>1
<1>8. Unframe(ApplyPadding(whole)) =
        IF whole = None THEN None
        ELSE IF n < 0 THEN None
        ELSE IF SubSeq(whole, n + 1, n + 2) # Crc16Ssp(SubSeq(whole, 1, n)) THEN None
        ELSE SubSeq(whole, 1, n)
  BY <1>3, <1>7 DEF Unframe
<1>9. Unframe(ApplyPadding(whole)) = IF crc = Crc16Ssp(data) THEN data ELSE None
  BY <1>4, <1>5, <1>6, <1>7, <1>8
<1> QED
  BY <1>9 DEF whole

\* A frame of any data opens to that data again, and is whole blocks.
LEMMA UnframeFrame ==
  ASSUME NEW data \in Seq(Byte)
  PROVE  /\ Len(Frame(data)) % BLOCK = 0
         /\ Unframe(Frame(data)) = data
<1>1. Crc16Ssp(data) \in Seq(Byte) /\ Len(Crc16Ssp(data)) = 2
  BY ChecksumsOfBytes
<1>2. data \o Crc16Ssp(data) \in Seq(Byte)
  BY <1>1
<1> QED
  BY <1>1, <1>2, UnframePadded, PaddingComesOff DEF Frame

\* crc16_ssp, which goes a nibble at a time, and crc16_hasher, which goes by table
\* (mkey-core/src/crypto/crc.rs), are both the reflected CRC-16 of polynomial
\* 0x8408, for data of every length and content.
THEOREM InputChecksumsAreCrc == Spec => []ChecksumsAreCrc
<1>1. CodecInv => ChecksumsAreCrc
  BY ChecksumsOfBytes DEF CodecInv, ChecksumsAreCrc
<1> QED
  BY <1>1, InputIsBytes, PTL

\* What encrypt_payload wraps (checksum, marker, zeros) decrypt_payload unwraps to
\* the same payload, for payloads of every length and content, and it is whole
\* blocks (mkey-core/src/security/ssp.rs).
THEOREM FrameReadsBack == Spec => []FrameComesBack
<1>1. CodecInv => FrameComesBack
  BY UnframeFrame DEF CodecInv, FrameComesBack
<1> QED
  BY <1>1, InputIsBytes, PTL

\* The register forgets nothing: different contents stay different.
LEMMA ShiftOnceInjective ==
  ASSUME NEW x \in Word, NEW y \in Word, ShiftOnce(x) = ShiftOnce(y)
  PROVE  x = y
<1>1. 0 \in Word /\ 33800 \in Word /\ 0 ^^ 33800 = 33800 /\ x ^^ y \in Word /\ y ^^ y = 0
  BY InWord, XorLaws, XorNibbles
<1>2. PICK z \in Word : z = x ^^ y
  BY <1>1
<1>3. ShiftOnce(z) = 0
  <2>1. ShiftOnce(z) = ShiftOnce(y) ^^ ShiftOnce(y)
    BY <1>2, ShiftOnceXor
  <2> QED
    BY <2>1, ShiftType, XorLaws
<1>4. z = 0
  <2>0. z \in Nat /\ z <= 65535
    BY InWord
  <2>1. z \div 2 \in Word /\ z \div 2 # 33800 /\ z = 2 * (z \div 2) + (z % 2) /\ z % 2 \in {0, 1}
    BY <2>0, HalfWord
  <2>2. CASE z % 2 = 1
    <3>1. (z \div 2) ^^ 33800 = 33800 ^^ 33800
      BY <1>1, <1>3, <2>2, XorLaws DEF ShiftOnce
    <3> QED
      BY <1>1, <2>1, <3>1, XorCancels
  <2>3. CASE z % 2 = 0
    <3>1. z \div 2 = 0
      BY <1>3, <2>3 DEF ShiftOnce
    <3> QED
      BY <2>1, <2>3, <3>1
  <2> QED
    BY <2>1, <2>2, <2>3
<1>5. x ^^ y = y ^^ y
  BY <1>1, <1>2, <1>4
<1> QED
  BY <1>5, XorCancels

\* Nor does it in eight shifts.
LEMMA ShiftByteInjective ==
  ASSUME NEW x \in Word, NEW y \in Word, ShiftByte(x) = ShiftByte(y)
  PROVE  x = y
<1>1. ASSUME NEW a \in Word, NEW b \in Word, ShiftNibble(a) = ShiftNibble(b)
      PROVE  a = b
  <2>1. /\ ShiftOnce(a) \in Word /\ ShiftOnce(ShiftOnce(a)) \in Word
        /\ ShiftOnce(ShiftOnce(ShiftOnce(a))) \in Word
        /\ ShiftOnce(b) \in Word /\ ShiftOnce(ShiftOnce(b)) \in Word
        /\ ShiftOnce(ShiftOnce(ShiftOnce(b))) \in Word
    BY ShiftType
  <2>2. ShiftOnce(ShiftOnce(ShiftOnce(a))) = ShiftOnce(ShiftOnce(ShiftOnce(b)))
    BY <1>1, <2>1, ShiftOnceInjective DEF ShiftNibble
  <2>3. ShiftOnce(ShiftOnce(a)) = ShiftOnce(ShiftOnce(b))
    BY <2>1, <2>2, ShiftOnceInjective
  <2>4. ShiftOnce(a) = ShiftOnce(b)
    BY <2>1, <2>3, ShiftOnceInjective
  <2> QED
    BY <2>4, ShiftOnceInjective
<1>2. ShiftNibble(x) \in Word /\ ShiftNibble(y) \in Word
  BY ShiftType
<1> QED
  BY <1>1, <1>2 DEF ShiftByte

\* Different checksums are written differently.
LEMMA LittleEndianInjective ==
  ASSUME NEW x \in Word, NEW y \in Word, LittleEndian(x) = LittleEndian(y)
  PROVE  x = y
<1>1. x % 256 = y % 256 /\ x \div 256 = y \div 256
  BY DEF LittleEndian
<1>2. x = (256 * (x \div 256)) ^^ (x % 256) /\ y = (256 * (y \div 256)) ^^ (y % 256)
  BY WordOfBytes
<1> QED
  BY <1>1, <1>2

\* Data that differs in one byte has a different checksum.
LEMMA ChecksumTellsByte ==
  ASSUME NEW d \in Seq(Byte), NEW i \in 1..Len(d), NEW b \in Byte, b # d[i]
  PROVE  Crc16Ssp([d EXCEPT ![i] = b]) # Crc16Ssp(d)
<1> DEFINE e == [d EXCEPT ![i] = b]
           n == Len(d)
           x == FoldLeft(TakeByte, 25443, d)
           y == FoldLeft(TakeByte, 25443, e)
<1>1. /\ e \in Seq(Byte) /\ Len(e) = n /\ n \in Nat /\ e[i] = b /\ i \in 1..n
      /\ \A k \in 1..n : k # i => e[k] = d[k]
  OBVIOUS
<1>2. 25443 \in Word
  BY InWord
<1>3. \A k \in 1..n : d[k] \in Byte /\ e[k] \in Byte
  BY <1>1
<1> HIDE DEF e
<1>4. PICK F : StatesAre(F, n, Word, 25443, Shifts(d), x)
  BY <1>2, TakeByteFold
<1>5. PICK G : StatesAre(G, n, Word, 25443, Shifts(e), y)
  BY <1>1, <1>2, TakeByteFold
<1> HIDE DEF n, x, y
<1>6. /\ F \in [0..n -> Word] /\ F[0] = 25443 /\ F[n] = x
      /\ G \in [0..n -> Word] /\ G[0] = 25443 /\ G[n] = y
  BY <1>4, <1>5 DEF StatesAre
<1>7. ASSUME NEW k \in 1..n
      PROVE  /\ k - 1 \in 0..n /\ F[k - 1] \in Word /\ G[k - 1] \in Word
             /\ F[k] = ShiftByte(F[k - 1] ^^ d[k]) /\ G[k] = ShiftByte(G[k - 1] ^^ e[k])
             /\ d[k] \in Word /\ e[k] \in Word
  <2>1. k - 1 \in 0..n /\ F[k - 1] \in Word /\ G[k - 1] \in Word
    BY <1>1, <1>6
  <2>2. F[k] = Shifts(d)[k][F[k - 1]] /\ G[k] = Shifts(e)[k][G[k - 1]]
    BY <1>4, <1>5 DEF StatesAre
  <2>3. Shifts(d)[k][F[k - 1]] = ShiftByte(F[k - 1] ^^ d[k])
    BY <2>1 DEF Shifts, n
  <2>4. Shifts(e)[k][G[k - 1]] = ShiftByte(G[k - 1] ^^ e[k])
    BY <1>1, <2>1 DEF Shifts
  <2> QED
    BY <1>3, <2>1, <2>2, <2>3, <2>4, ByteIsWord
<1> DEFINE S == {k \in Nat : k <= n => IF k < i THEN F[k] = G[k] ELSE F[k] # G[k]}
<1>8. 0 \in S
  BY <1>1, <1>6
<1>9. ASSUME NEW k \in Nat, k \in S PROVE k + 1 \in S
  <2> SUFFICES ASSUME k + 1 <= n
               PROVE  IF k + 1 < i THEN F[k + 1] = G[k + 1] ELSE F[k + 1] # G[k + 1]
    OBVIOUS
  <2>1. /\ k + 1 \in 1..n /\ (k + 1) - 1 = k
        /\ IF k < i THEN F[k] = G[k] ELSE F[k] # G[k]
    BY <1>1, <1>9
  <2>2. /\ F[k] \in Word /\ G[k] \in Word /\ d[k + 1] \in Word /\ e[k + 1] \in Word
        /\ F[k + 1] = ShiftByte(F[k] ^^ d[k + 1]) /\ G[k + 1] = ShiftByte(G[k] ^^ e[k + 1])
    BY <1>7, <2>1
  <2>3. CASE k + 1 < i
    <3>1. k < i /\ k + 1 # i
      BY <1>1, <2>3
    <3> QED
      BY <1>1, <2>1, <2>2, <2>3, <3>1
  <2>4. CASE k + 1 = i
    <3>1. F[k] = G[k]
      BY <1>1, <2>1, <2>4
    <3>2. d[k + 1] # e[k + 1]
      BY <1>1, <2>4
    <3>3. F[k] ^^ d[k + 1] # F[k] ^^ e[k + 1]
      BY <2>2, <3>2, XorLaws, XorCancels
    <3>4. F[k] ^^ d[k + 1] \in Word /\ F[k] ^^ e[k + 1] \in Word
      BY <2>2, XorNibbles
    <3>5. F[k + 1] # G[k + 1]
      BY <2>2, <3>1, <3>3, <3>4, ShiftByteInjective
    <3>6. ~(k + 1 < i)
      BY <1>1, <2>4
    <3> QED
      BY <3>5, <3>6
  <2>5. CASE k + 1 > i
    <3>1. F[k] # G[k] /\ d[k + 1] = e[k + 1] /\ ~(k + 1 < i)
      BY <1>1, <2>1, <2>5
    <3>2. F[k] ^^ d[k + 1] # G[k] ^^ d[k + 1]
      BY <2>2, <3>1, XorCancels
    <3>4. F[k] ^^ d[k + 1] \in Word /\ G[k] ^^ d[k + 1] \in Word
      BY <2>2, XorNibbles
    <3>5. F[k + 1] # G[k + 1]
      BY <2>2, <3>1, <3>2, <3>4, ShiftByteInjective
    <3> QED
      BY <3>1, <3>5
  <2> QED
    BY <1>1, <2>3, <2>4, <2>5
<1>10. n \in S
  <2> HIDE DEF S
  <2> QED
    BY <1>1, <1>8, <1>9, SetInduction
<1>11. x # y /\ x \in Word /\ y \in Word
  BY <1>1, <1>6, <1>10
<1>12. Crc16Ssp(d) = LittleEndian(x) /\ Crc16Ssp(e) = LittleEndian(y)
  BY DEF Crc16Ssp, x, y
<1> QED
  BY <1>11, <1>12, LittleEndianInjective DEF e

\* A byte changed before the padding is a byte changed in what is padded.
LEMMA PaddingOfChanged ==
  ASSUME NEW w \in Seq(Byte), NEW i \in 1..Len(w), NEW b \in Byte
  PROVE  [ApplyPadding(w) EXCEPT ![i] = b] = ApplyPadding([w EXCEPT ![i] = b])
<1> DEFINE v == [w EXCEPT ![i] = b]
           p == ApplyPadding(w)
           q == ApplyPadding(v)
           n == Len(w)
<1>1. v \in Seq(Byte) /\ Len(v) = n /\ n \in Nat
  OBVIOUS
<1>2. /\ p \in Seq(Byte \cup {MARKER, 0}) /\ Len(p) = n + 1 + FillLength(n)
      /\ \A k \in 1..n : p[k] = w[k]
      /\ p[n + 1] = MARKER
      /\ \A k \in n + 2..Len(p) : p[k] = 0
  BY PaddedShape
<1> HIDE DEF v
<1>3. /\ q \in Seq(Byte \cup {MARKER, 0}) /\ Len(q) = n + 1 + FillLength(n)
      /\ \A k \in 1..n : q[k] = v[k]
      /\ q[n + 1] = MARKER
      /\ \A k \in n + 2..Len(q) : q[k] = 0
  BY <1>1, PaddedShape
<1>4. i \in 1..n /\ v[i] = b /\ \A k \in 1..n : k # i => v[k] = w[k]
  BY DEF v
<1>5. FillLength(n) \in Nat
  BY <1>1 DEF FillLength, BLOCK
<1> HIDE DEF p, q, n
<1> DEFINE r == [p EXCEPT ![i] = b]
           W == Byte \cup {MARKER, 0}
<1>6. r \in Seq(W) /\ Len(r) = Len(q)
  <2>1. p \in Seq(W) /\ b \in W /\ Len(p) = Len(q) /\ i \in 1..Len(p)
    BY <1>1, <1>2, <1>3, <1>4, <1>5
  <2> HIDE DEF W
  <2> QED
    BY <2>1, ExceptSeq
<1>7. ASSUME NEW k \in 1..Len(q) PROVE r[k] = q[k]
  <2>1. k \in 1..Len(p) /\ k \in Nat
    BY <1>2, <1>3
  <2>2. r[k] = IF k = i THEN b ELSE p[k]
    BY <1>2, <2>1
  <2> HIDE DEF r
  <2>3. CASE k <= n
    BY <1>2, <1>3, <1>4, <2>1, <2>2, <2>3
  <2>4. CASE k = n + 1
    BY <1>1, <1>2, <1>3, <1>4, <2>2, <2>4
  <2>5. CASE k >= n + 2
    BY <1>1, <1>2, <1>3, <1>4, <1>5, <2>1, <2>2, <2>5
  <2>6. k \in Nat /\ n \in Nat
    BY <1>1, <2>1
  <2>7. k <= n \/ k = n + 1 \/ k >= n + 2
    BY <2>6
  <2> QED
    BY <2>3, <2>4, <2>5, <2>7
<1> HIDE DEF r, W
<1>8. r = q
  BY <1>3, <1>6, <1>7
<1> QED
  BY <1>8 DEF p, q, r, v

\* One byte of the data or of the checksum arrives changed: the frame is refused,
\* wherever the byte is and whatever it became (InvalidCrc of decrypt_payload).
LEMMA DamagedPayloadIsRefused ==
  ASSUME NEW data \in Seq(Byte), NEW i \in 1..Len(data) + 2, NEW b \in Byte,
         b # Frame(data)[i]
  PROVE  Unframe([Frame(data) EXCEPT ![i] = b]) = None
<1> DEFINE crc   == Crc16Ssp(data)
           n     == Len(data)
           whole == data \o crc
           part  == [whole EXCEPT ![i] = b]
           newdata == [k \in 1..n |-> part[k]]
           newcrc  == <<part[n + 1], part[n + 2]>>
<1>1. crc \in Seq(Byte) /\ Len(crc) = 2 /\ n \in Nat
  BY ChecksumsOfBytes
<1> HIDE DEF crc
<1>2. whole \in Seq(Byte) /\ Len(whole) = n + 2
  <2>1. whole \in Seq(Byte) /\ Len(whole) = Len(data) + Len(crc)
    BY <1>1, ConcatProperties
  <2> QED
    BY <1>1, <2>1
<1>3. /\ \A k \in 1..n : whole[k] = data[k]
      /\ whole[n + 1] = crc[1] /\ whole[n + 2] = crc[2]
  BY <1>1, ConcatParts
<1>4. Frame(data) = ApplyPadding(whole) /\ i \in 1..Len(whole)
  BY <1>1, <1>2 DEF Frame, crc
<1>5. [Frame(data) EXCEPT ![i] = b] = ApplyPadding(part)
  <2> HIDE DEF whole
  <2>1. [ApplyPadding(whole) EXCEPT ![i] = b] = ApplyPadding([whole EXCEPT ![i] = b])
    BY ZenonT(60), <1>2, <1>4, PaddingOfChanged
  <2> QED
    BY <1>4, <2>1
<1>6. Frame(data)[i] = whole[i]
  BY <1>2, <1>4, PaddedShape
<1> HIDE DEF n, whole
<1>7. /\ part \in Seq(Byte) /\ Len(part) = n + 2 /\ part[i] = b
      /\ \A k \in 1..n + 2 : k # i => part[k] = whole[k]
  BY <1>1, <1>2, <1>4
<1> HIDE DEF part
<1>8. \A k \in 1..n + 2 : part[k] \in Byte
  BY <1>7
<1>9. newdata \in Seq(Byte) /\ Len(newdata) = n /\ newcrc \in Seq(Byte) /\ Len(newcrc) = 2
  BY <1>1, <1>8
<1>10. part = newdata \o newcrc
  <2> DEFINE joined == newdata \o newcrc
  <2>1. joined \in Seq(Byte) /\ Len(joined) = n + 2
    BY <1>1, <1>9, ConcatProperties
  <2>2. /\ \A k \in 1..n : joined[k] = newdata[k]
        /\ joined[n + 1] = newcrc[1] /\ joined[n + 2] = newcrc[2]
    <3> HIDE DEF newdata, newcrc
    <3> QED
      BY <1>1, <1>9, ConcatParts
  <2> HIDE DEF joined
  <2>3. ASSUME NEW k \in 1..n + 2 PROVE joined[k] = part[k]
    BY <1>1, <2>2
  <2>4. joined = part
    BY <1>7, <2>1, <2>3
  <2> QED
    BY <2>4 DEF joined
<1>11. newcrc # Crc16Ssp(newdata)
  <2>1. CASE i \in 1..n
    <3>1. newdata = [data EXCEPT ![i] = b]
      BY SMTT(40), <1>1, <1>3, <1>7, <2>1 DEF n
    <3>2. newcrc = crc
      BY <1>1, <1>3, <1>7, <2>1
    <3>3. b # data[i]
      BY <1>3, <1>6, <2>1
    <3>4. i \in 1..Len(data)
      BY <2>1 DEF n
    <3>5. Crc16Ssp([data EXCEPT ![i] = b]) # Crc16Ssp(data)
      BY <3>3, <3>4, ChecksumTellsByte
    <3> QED
      BY <3>1, <3>2, <3>5 DEF crc
  <2>2. CASE i \notin 1..n
    <3>1. newdata = data
      BY <1>1, <1>3, <1>7, <2>2 DEF n
    <3>2. newcrc # crc
      <4>1. i = n + 1 \/ i = n + 2
        BY <1>1, <1>2, <1>4, <2>2
      <4>2. part[i] # whole[i]
        BY <1>6, <1>7
      <4>3. newcrc[1] = part[n + 1] /\ newcrc[2] = part[n + 2]
        OBVIOUS
      <4> HIDE DEF newcrc
      <4> QED
        BY <1>3, <4>1, <4>2, <4>3
    <3> QED
      BY <3>1, <3>2 DEF crc
  <2> QED
    BY <2>1, <2>2
<1> HIDE DEF newdata, newcrc
<1>12. Unframe(ApplyPadding(newdata \o newcrc)) = None
  BY <1>9, <1>11, UnframePadded
<1> QED
  BY <1>5, <1>10, <1>12

-----------------------------------------------------------------------------
\* Damage in the padding.

\* The states of the register, which are the checksums of the prefixes.
RegisterOf(F, d) ==
  /\ F \in [0..Len(d) -> Word]
  /\ \A i \in 1..Len(d) : F[i] = ShiftByte(F[i - 1] ^^ d[i])
  /\ \A k \in 0..Len(d) : Crc16Ssp(SubSeq(d, 1, k)) = LittleEndian(F[k])

\* Every sequence of bytes has them.
LEMMA RegisterStates ==
  ASSUME NEW d \in Seq(Byte)
  PROVE  \E F : RegisterOf(F, d)
<1> DEFINE n == Len(d)
<1>0. n \in Nat /\ 25443 \in Word
  BY InWord
<1>1. PICK F : StatesAre(F, n, Word, 25443, Shifts(d), FoldLeft(TakeByte, 25443, d))
  BY <1>0, TakeByteFold
<1>2. F \in [0..n -> Word] /\ F[0] = 25443
  BY <1>1 DEF StatesAre
<1>3. \A i \in 1..n : F[i] = ShiftByte(F[i - 1] ^^ d[i])
  <2>1. \A i \in 1..n : F[i] = Shifts(d)[i][F[i - 1]] /\ F[i - 1] \in Word
    <3>1. \A i \in 1..n : i - 1 \in 0..n
      BY <1>0
    <3> QED
      BY <1>1, <1>2, <3>1 DEF StatesAre
  <2> QED
    BY <2>1 DEF Shifts
<1>4. ASSUME NEW k \in 0..n
      PROVE  Crc16Ssp(SubSeq(d, 1, k)) = LittleEndian(F[k])
  <2> DEFINE p == SubSeq(d, 1, k)
             G == [i \in 0..k |-> F[i]]
  <2>0. k \in Nat /\ k <= n
    BY <1>0
  <2>1. p \in Seq(Byte) /\ Len(p) = k /\ \A i \in 1..k : p[i] = d[i]
    BY <1>0, <2>0
  <2> HIDE DEF p, n
  <2>2. PICK H : StatesAre(H, k, Word, 25443, Shifts(p), FoldLeft(TakeByte, 25443, p))
    BY <1>0, <2>1, TakeByteFold
  <2>3. StatesAre(G, k, Word, 25443, Shifts(p), F[k])
    <3>1. \A i \in 0..k : i \in 0..n
      BY <1>0, <2>0
    <3>2. G \in [0..k -> Word] /\ G[0] = 25443 /\ G[k] = F[k]
      BY <1>2, <2>0, <3>1
    <3>3. ASSUME NEW i \in 1..k PROVE G[i] = Shifts(p)[i][G[i - 1]]
      <4>1. i \in 1..n /\ i \in 0..k /\ i - 1 \in 0..k
        BY <1>0, <2>0
      <4>2. G[i] = F[i] /\ G[i - 1] = F[i - 1] /\ F[i - 1] \in Word
        BY <1>2, <3>1, <4>1
      <4>3. Shifts(p)[i] = [w \in Word |-> ShiftByte(w ^^ p[i])]
        BY <2>1 DEF Shifts
      <4>4. F[i] = ShiftByte(F[i - 1] ^^ p[i])
        BY <1>3, <2>1, <4>1
      <4> HIDE DEF G
      <4> QED
        BY <4>2, <4>3, <4>4
    <3> HIDE DEF G
    <3> QED
      BY <3>2, <3>3 DEF StatesAre
  <2>4. F[k] = FoldLeft(TakeByte, 25443, p)
    <3> HIDE DEF G
    <3> QED
      BY <2>0, <2>2, <2>3, StatesUnique
  <2> QED
    BY <2>4 DEF p, Crc16Ssp
<1> QED
  BY <1>2, <1>3, <1>4 DEF RegisterOf, n

\* Data followed by its checksum leaves the register empty.
LEMMA ChecksumEmpties ==
  ASSUME NEW d \in Seq(Byte), NEW F, RegisterOf(F, d), NEW k \in Nat, k + 2 <= Len(d),
         <<d[k + 1], d[k + 2]>> = Crc16Ssp(SubSeq(d, 1, k))
  PROVE  F[k + 2] = 0
<1>1. /\ k \in 0..Len(d) /\ k + 1 \in 1..Len(d) /\ k + 2 \in 1..Len(d)
      /\ (k + 1) - 1 = k /\ (k + 2) - 1 = k + 1
  OBVIOUS
<1> DEFINE w == F[k]
           lo == w % 256
           hi == w \div 256
<1>2. w \in Word
  BY <1>1 DEF RegisterOf
<1>3. d[k + 1] = lo /\ d[k + 2] = hi
  <2>1. <<d[k + 1], d[k + 2]>> = <<lo, hi>>
    BY <1>1 DEF RegisterOf, LittleEndian
  <2> QED
    BY <2>1
<1>4. F[k + 1] = ShiftByte(w ^^ lo) /\ F[k + 2] = ShiftByte(F[k + 1] ^^ hi)
  BY <1>1, <1>3 DEF RegisterOf
<1> HIDE DEF w
<1>5. lo \in Byte /\ hi \in Byte /\ 256 * hi \in Word /\ w = (256 * hi) ^^ lo
  BY <1>2, WordOfBytes
<1>h. hi \in Nat /\ hi <= 255
  BY <1>5, InByte
<1> HIDE DEF lo, hi
<1>6. lo \in Word /\ hi \in Word
  BY <1>5, ByteIsWord
<1>7. w ^^ lo = 256 * hi
  <2>1. ((256 * hi) ^^ lo) ^^ lo = (256 * hi) ^^ (lo ^^ lo) /\ lo ^^ lo = 0 /\ (256 * hi) ^^ 0 = 256 * hi
    BY <1>5, <1>6, XorLaws
  <2> QED
    BY <1>5, <2>1
<1>8. F[k + 1] = hi
  BY <1>4, <1>7, <1>h, ShiftByteDown
<1>9. hi ^^ hi = 0
  BY <1>6, XorLaws
<1>z. ShiftByte(0) = 0
  <2>1. 0 \in Nat /\ 0 <= 255 /\ 256 * 0 = 0
    OBVIOUS
  <2> QED
    BY <2>1, ShiftByteDown
<1> QED
  BY <1>4, <1>8, <1>9, <1>z

\* A marker in an empty register, and zeros after it up to place r.
MarkerThenZeros(d, F, q, r) ==
  /\ q \in 1..Len(d) /\ r \in q..Len(d)
  /\ F[q - 1] = 0 /\ d[q] = MARKER
  /\ \A j \in q + 1..r : d[j] = 0

\* They do not empty it again.
LEMMA MarkerStays ==
  ASSUME NEW d \in Seq(Byte), NEW F, RegisterOf(F, d), NEW q, NEW r, MarkerThenZeros(d, F, q, r)
  PROVE  F[r] # 0
<1> DEFINE S == {k \in Nat : q + k <= r => F[q + k] # 0}
<1>0. q \in Nat /\ r \in Nat /\ q >= 1 /\ q <= r /\ r <= Len(d) /\ Len(d) \in Nat
  BY DEF MarkerThenZeros
<1>a. 0 \in Word /\ 128 \in Word
  BY InWord
<1>z. ShiftByte(0) = 0
  <2>1. 0 \in Nat /\ 0 <= 255 /\ 256 * 0 = 0
    OBVIOUS
  <2> QED
    BY <2>1, ShiftByteDown
<1>1. 0 \in S
  <2>1. F[q] = ShiftByte(0 ^^ 128)
    <3>1. q \in 1..Len(d) /\ F[q - 1] = 0 /\ d[q] = 128
      BY DEF MarkerThenZeros, MARKER
    <3> QED
      BY <3>1 DEF RegisterOf
  <2>2. 0 ^^ 128 = 128
    BY <1>a, XorLaws
  <2>3. ShiftByte(128) # 0
    BY <1>a, <1>z, ShiftByteInjective
  <2>4. q + 0 = q
    BY <1>0
  <2> QED
    BY <2>1, <2>2, <2>3, <2>4
<1>2. ASSUME NEW k \in Nat, k \in S PROVE k + 1 \in S
  <2> SUFFICES ASSUME q + (k + 1) <= r PROVE F[q + (k + 1)] # 0
    OBVIOUS
  <2>1. /\ q + (k + 1) \in q + 1..r /\ q + (k + 1) \in 1..Len(d)
        /\ (q + (k + 1)) - 1 = q + k /\ q + k <= r /\ q + k \in 0..Len(d)
    BY <1>0
  <2>2. F[q + k] \in Word /\ F[q + k] # 0
    BY <1>2, <2>1 DEF RegisterOf
  <2>3. d[q + (k + 1)] = 0
    BY <2>1 DEF MarkerThenZeros
  <2>4. F[q + (k + 1)] = ShiftByte(F[q + k] ^^ 0)
    BY <2>1, <2>3 DEF RegisterOf
  <2>5. F[q + k] ^^ 0 = F[q + k]
    BY <1>a, <2>2, XorLaws
  <2> QED
    BY <1>a, <1>z, <2>2, <2>4, <2>5, ShiftByteInjective
<1>3. r - q \in S /\ r - q \in Nat /\ q + (r - q) = r
  <2>1. Nat \subseteq S
    <3> HIDE DEF S
    <3> QED
      BY <1>1, <1>2, SetInduction
  <2>2. r - q \in Nat /\ q + (r - q) = r
    BY <1>0
  <2> HIDE DEF S
  <2> QED
    BY <2>1, <2>2
<1> QED
  BY <1>0, <1>3

\* remove_padding finds the end of the trailing zeros.
LEMMA LastNonZeroIs ==
  ASSUME NEW d \in Seq(Byte)
  PROVE  /\ LastNonZero(d) \in 0..Len(d)
         /\ LastNonZero(d) > 0 => d[LastNonZero(d)] # 0
         /\ \A i \in LastNonZero(d) + 1..Len(d) : d[i] = 0
<1> DEFINE Ends(n, k) == (n > 0 => d[n] # 0) /\ \A i \in n + 1..k : d[i] = 0
           S == {k \in Nat : k <= Len(d) => \E n \in 0..k : Ends(n, k)}
<1>0. Len(d) \in Nat
  OBVIOUS
<1>1. 0 \in S
  <2>1. 0 \in 0..0 /\ Ends(0, 0)
    OBVIOUS
  <2> HIDE DEF Ends
  <2> QED
    BY <2>1
<1>2. ASSUME NEW k \in Nat, k \in S PROVE k + 1 \in S
  <2> SUFFICES ASSUME k + 1 <= Len(d) PROVE \E n \in 0..k + 1 : Ends(n, k + 1)
    OBVIOUS
  <2>1. PICK n \in 0..k : Ends(n, k)
    BY <1>0, <1>2
  <2>2. CASE d[k + 1] = 0
    <3>1. \A i \in n + 1..k + 1 : i \in n + 1..k \/ i = k + 1
      OBVIOUS
    <3>2. Ends(n, k + 1)
      BY <2>1, <2>2, <3>1
    <3> QED
      BY <3>2
  <2>3. CASE d[k + 1] # 0
    <3>1. Ends(k + 1, k + 1)
      BY <2>3
    <3> QED
      BY <3>1
  <2> QED
    BY <2>2, <2>3
<1>3. \E n \in 0..Len(d) : Ends(n, Len(d))
  <2>1. Len(d) \in S
    <3> HIDE DEF S
    <3> QED
      BY <1>0, <1>1, <1>2, SetInduction
  <2> QED
    BY <1>0, <2>1
<1> QED
  BY <1>3 DEF LastNonZero

\* Two bytes in the middle of a sequence.
LEMMA TwoOfThem ==
  ASSUME NEW d \in Seq(Byte), NEW k \in Nat, k + 2 <= Len(d)
  PROVE  SubSeq(d, k + 1, k + 2) = <<d[k + 1], d[k + 2]>>
<1> DEFINE s == SubSeq(d, k + 1, k + 2)
           t == <<d[k + 1], d[k + 2]>>
<1>1. k + 1 \in Nat /\ k + 1 >= 1 /\ k + 2 \in Nat /\ k + 2 >= (k + 1) - 1 /\ (k + 2) - (k + 1) + 1 = 2
  OBVIOUS
<1>2. /\ s \in Seq(Byte) /\ Len(s) = (k + 2) - (k + 1) + 1
      /\ \A j \in 1..Len(s) : s[j] = d[(k + 1) + j - 1]
  BY <1>1, PartOf
<1>3. (k + 1) + 1 - 1 = k + 1 /\ (k + 1) + 2 - 1 = k + 2
  OBVIOUS
<1>4. t \in Seq(Byte) /\ Len(t) = 2 /\ t[1] = d[k + 1] /\ t[2] = d[k + 2]
  <2>1. d[k + 1] \in Byte /\ d[k + 2] \in Byte
    OBVIOUS
  <2> QED
    BY <2>1
<1> HIDE DEF s, t
<1>5. Len(s) = 2 /\ s[1] = d[k + 1] /\ s[2] = d[k + 2]
  BY <1>1, <1>2, <1>3
<1>6. \A j \in 1..Len(s) : s[j] = t[j]
  <2>1. \A j \in 1..2 : j = 1 \/ j = 2
    OBVIOUS
  <2> QED
    BY <1>4, <1>5, <2>1
<1>7. s = t
  BY <1>2, <1>4, <1>5, <1>6, SeqEqual
<1> QED
  BY <1>7 DEF s, t

\* A text that opens ends in a marker, before which the register is empty.
LEMMA OpensAtMarker ==
  ASSUME NEW d \in Seq(Byte), NEW F, RegisterOf(F, d), Unframe(d) # None
  PROVE  \E q \in 1..Len(d) : F[q - 1] = 0 /\ d[q] = MARKER /\ \A j \in q + 1..Len(d) : d[j] = 0
<1> DEFINE q == LastNonZero(d)
           plain == SubSeq(d, 1, q - 1)
           n == q - 3
<1>1. q \in 0..Len(d) /\ \A j \in q + 1..Len(d) : d[j] = 0
  BY LastNonZeroIs
<1>2. RemovePadding(d) # None
  BY DEF Unframe
<1>3. q > 0 /\ d[q] = MARKER /\ RemovePadding(d) = plain
  BY <1>2 DEF RemovePadding
<1>4. q \in 1..Len(d) /\ q - 1 \in Nat /\ q - 1 <= Len(d)
  BY <1>1, <1>3
<1> HIDE DEF q
<1>5. plain \in Seq(Byte) /\ Len(plain) = q - 1 /\ \A i \in 1..q - 1 : plain[i] = d[i]
  BY <1>4
<1>6. (q - 1) - 2 = n
  BY <1>4
<1> HIDE DEF n, plain
<1>7. ~(n < 0) /\ SubSeq(plain, n + 1, n + 2) = Crc16Ssp(SubSeq(plain, 1, n))
  BY <1>2, <1>3, <1>5, <1>6 DEF Unframe
<1>8. n \in Nat /\ n + 2 = q - 1 /\ n + 2 <= Len(d)
  BY <1>4, <1>6, <1>7
<1>9. SubSeq(plain, 1, n) = SubSeq(d, 1, n)
  <2>1. /\ SubSeq(plain, 1, n) \in Seq(Byte) /\ Len(SubSeq(plain, 1, n)) = n
        /\ \A i \in 1..n : SubSeq(plain, 1, n)[i] = plain[i]
    BY <1>5, <1>8
  <2>2. /\ SubSeq(d, 1, n) \in Seq(Byte) /\ Len(SubSeq(d, 1, n)) = n
        /\ \A i \in 1..n : SubSeq(d, 1, n)[i] = d[i]
    BY <1>8
  <2>3. \A i \in 1..n : plain[i] = d[i]
    BY <1>5, <1>8
  <2> QED
    BY <2>1, <2>2, <2>3, SeqEqual
<1>10. SubSeq(plain, n + 1, n + 2) = <<d[n + 1], d[n + 2]>>
  <2>1. n + 1 \in 1..q - 1 /\ n + 2 \in 1..q - 1
    BY <1>8
  <2>2. SubSeq(plain, n + 1, n + 2) = <<plain[n + 1], plain[n + 2]>>
    <3>1. n + 2 <= Len(plain)
      BY <1>5, <1>8
    <3> HIDE DEF plain, n
    <3> QED
      BY <1>5, <1>8, <3>1, TwoOfThem
  <2> QED
    BY <1>5, <2>1, <2>2
<1>11. F[n + 2] = 0
  BY <1>7, <1>8, <1>9, <1>10, ChecksumEmpties
<1> QED
  BY <1>1, <1>3, <1>4, <1>8, <1>11

\* One byte of the padding arrives changed: the frame is refused too. What is left
\* when the padding comes off elsewhere never ends in its own checksum.
LEMMA DamagedPaddingIsRefused ==
  ASSUME NEW data \in Seq(Byte), NEW i \in Len(data) + 3..Len(Frame(data)), NEW b \in Byte,
         b # Frame(data)[i]
  PROVE  Unframe([Frame(data) EXCEPT ![i] = b]) = None
<1> DEFINE n == Len(data)
           crc == Crc16Ssp(data)
           whole == data \o crc
           f == Frame(data)
           N == Len(f)
           g == [f EXCEPT ![i] = b]
<1>1. crc \in Seq(Byte) /\ Len(crc) = 2 /\ n \in Nat
  BY ChecksumsOfBytes
<1>2. whole \in Seq(Byte) /\ Len(whole) = n + 2
  <2>1. whole \in Seq(Byte) /\ Len(whole) = Len(data) + Len(crc)
    BY <1>1, ConcatProperties
  <2> QED
    BY <1>1, <2>1
<1>3. /\ \A k \in 1..n : whole[k] = data[k]
      /\ whole[n + 1] = crc[1] /\ whole[n + 2] = crc[2]
  BY <1>1, ConcatParts
<1>4. /\ f \in Seq(Byte) /\ N \in Nat /\ n + 3 <= N
      /\ \A k \in 1..n + 2 : f[k] = whole[k]
      /\ f[n + 3] = MARKER
      /\ \A k \in n + 4..N : f[k] = 0
  <2>1. f = ApplyPadding(whole)
    BY DEF Frame
  <2>2. MARKER \in Byte /\ 0 \in Byte
    BY InByte DEF MARKER
  <2>3. Byte \cup {MARKER, 0} = Byte
    BY <2>2
  <2>4. FillLength(n + 2) \in Nat
    BY <1>1 DEF FillLength, BLOCK
  <2>5. /\ f \in Seq(Byte) /\ N = (n + 2) + 1 + FillLength(n + 2)
        /\ \A k \in 1..n + 2 : f[k] = whole[k]
        /\ f[(n + 2) + 1] = MARKER
        /\ \A k \in (n + 2) + 2..N : f[k] = 0
    <3> HIDE DEF whole, f
    <3> QED
      BY <1>2, <2>1, <2>3, PaddedShape
  <2>6. (n + 2) + 1 = n + 3 /\ (n + 2) + 2 = n + 4
    BY <1>1
  <2> HIDE DEF f, whole, N
  <2> QED
    BY <1>1, <2>4, <2>5, <2>6
<1> HIDE DEF f, whole, crc, n, N
<1>5. i \in n + 3..N /\ b # f[i]
  BY DEF n, f, N
<1>6. g \in Seq(Byte) /\ Len(g) = N /\ g[i] = b /\ \A k \in 1..N : k # i => g[k] = f[k]
  <2>1. i \in 1..Len(f)
    BY <1>1, <1>4, <1>5 DEF N
  <2>2. g \in Seq(Byte) /\ Len(g) = Len(f) /\ g[i] = b /\ \A k \in 1..Len(f) : k # i => g[k] = f[k]
    BY <1>4, <2>1
  <2> HIDE DEF g
  <2> QED
    BY <2>2 DEF N
<1> HIDE DEF g
<1>7. ASSUME NEW k \in 1..n + 2 PROVE g[k] = whole[k]
  <2>1. k \in 1..N /\ k # i
    BY <1>1, <1>4, <1>5
  <2> QED
    BY <1>4, <1>6, <2>1
<1>8. PICK F : RegisterOf(F, g)
  BY <1>6, RegisterStates
<1>9. F[n + 2] = 0
  <2>1. n + 2 <= Len(g) /\ n + 1 \in 1..n + 2 /\ n + 2 \in 1..n + 2
    BY <1>1, <1>4, <1>6
  <2>2. SubSeq(g, 1, n) = data
    <3>1. /\ SubSeq(g, 1, n) \in Seq(Byte) /\ Len(SubSeq(g, 1, n)) = n
          /\ \A k \in 1..n : SubSeq(g, 1, n)[k] = g[k]
      BY <1>1, <1>6, <2>1
    <3>2. \A k \in 1..n : g[k] = data[k]
      BY <1>1, <1>3, <1>7
    <3> QED
      BY <3>1, <3>2, SeqEqual DEF n
  <2>3. <<g[n + 1], g[n + 2]>> = crc
    <3>1. crc = <<crc[1], crc[2]>>
      BY <1>1
    <3> QED
      BY <1>3, <1>7, <2>1, <3>1
  <2> QED
    BY <1>1, <1>6, <1>8, <2>1, <2>2, <2>3, ChecksumEmpties DEF crc
<1>10. ASSUME Unframe(g) # None PROVE FALSE
  <2>1. PICK q \in 1..N : F[q - 1] = 0 /\ g[q] = MARKER /\ \A j \in q + 1..N : g[j] = 0
    BY <1>6, <1>8, <1>10, OpensAtMarker
  <2>0. q \in Nat /\ N \in Nat /\ q >= 1 /\ q <= N /\ i \in Nat /\ n + 3 <= i /\ i <= N /\ MARKER # 0
    BY <1>1, <1>4, <1>5 DEF MARKER
  <2>2. CASE q <= n + 2
    <3>1. n + 2 \in q..N
      BY <1>1, <1>4, <2>0, <2>2
    <3>2. ASSUME NEW j \in q + 1..n + 2 PROVE g[j] = 0
      <4>1. j \in q + 1..N
        BY <1>1, <1>4, <2>0
      <4> QED
        BY <2>1, <4>1
    <3>3. q \in 1..Len(g) /\ n + 2 \in q..Len(g)
      BY <1>1, <1>4, <1>6, <2>0, <3>1
    <3> DEFINE r == n + 2
    <3>4. MarkerThenZeros(g, F, q, r)
      BY <2>1, <3>2, <3>3 DEF MarkerThenZeros
    <3> HIDE DEF r
    <3>5. F[r] # 0
      BY <1>6, <1>8, <3>4, MarkerStays
    <3> QED
      BY <1>9, <3>5 DEF r
  <2>3. CASE q = n + 3
    <3>1. i = n + 3 => FALSE
      BY <1>4, <1>5, <1>6, <2>1, <2>3
    <3>2. i \in q + 1..N /\ i \in n + 4..N
      BY <1>1, <1>4, <2>0, <2>3, <3>1
    <3> QED
      BY <1>4, <1>5, <1>6, <2>1, <3>2
  <2>4. CASE q > n + 3
    <3>1. q \in n + 4..N /\ n + 3 \in 1..N /\ q - 1 \in n + 3..N
      BY <1>1, <1>4, <2>0, <2>4
    <3>2. q = i
      BY <1>4, <1>6, <2>0, <2>1, <3>1
    <3> DEFINE p == n + 3
               r == q - 1
    <3>3. p # i /\ p - 1 = n + 2 /\ p \in 1..N /\ r \in p..N
      BY <1>1, <2>0, <2>4, <3>1, <3>2
    <3>4. ASSUME NEW j \in p + 1..r PROVE g[j] = 0
      <4>1. j # i
        BY <1>1, <2>0, <3>2
      <4>2. j \in n + 4..N /\ j \in 1..N
        <5>0. p = n + 3 /\ r = q - 1 /\ p + 1 = n + 4
          BY <1>1
        <5> HIDE DEF p, r
        <5>1. j \in Nat /\ n + 4 <= j /\ j <= q
          BY <1>1, <2>0, <5>0
        <5>2. j <= N /\ 1 <= j
          BY <1>1, <2>0, <5>1
        <5> QED
          BY <1>1, <1>4, <5>1, <5>2
      <4> QED
        BY <1>4, <1>6, <4>1, <4>2
    <3>5. g[p] = MARKER
      BY <1>4, <1>6, <3>3
    <3> HIDE DEF p, r
    <3>6. MarkerThenZeros(g, F, p, r)
      BY <1>6, <1>9, <3>3, <3>4, <3>5 DEF MarkerThenZeros
    <3>7. F[r] # 0
      BY <1>6, <1>8, <3>6, MarkerStays
    <3> QED
      BY <2>1, <3>7 DEF r
  <2> QED
    BY <1>1, <2>0, <2>2, <2>3, <2>4
<1> QED
  BY <1>10 DEF g, f

\* One byte of a frame arrives changed, in the payload, the checksum, the marker or
\* the zeros: decrypt_payload refuses it (mkey-core/src/security/ssp.rs), for
\* payloads of every length and content.
THEOREM FrameShowsDamage == Spec => []DamageIsSeen
<1>1. CodecInv => DamageIsSeen
  <2> SUFFICES ASSUME CodecInv, NEW i \in DOMAIN Frame(input), NEW b \in Byte,
                      b # Frame(input)[i]
               PROVE  Unframe([Frame(input) EXCEPT ![i] = b]) = None
    BY CodecAssumption DEF DamageIsSeen
  <2>1. input \in Seq(Byte) /\ Len(input) \in Nat
    BY DEF CodecInv
  <2>2. i \in 1..Len(Frame(input))
    <3>1. Crc16Ssp(input) \in Seq(Byte)
      BY <2>1, ChecksumsOfBytes
    <3>2. input \o Crc16Ssp(input) \in Seq(Byte)
      BY <2>1, <3>1
    <3>3. Frame(input) \in Seq(Byte \cup {MARKER, 0})
      BY <3>2, PaddedShape DEF Frame
    <3> QED
      BY <3>3
  <2>3. CASE i <= Len(input) + 2
    <3>1. i \in 1..Len(input) + 2
      BY <2>1, <2>2, <2>3
    <3> QED
      BY <2>1, <3>1, DamagedPayloadIsRefused
  <2>4. CASE i > Len(input) + 2
    <3>1. i \in Len(input) + 3..Len(Frame(input))
      BY <2>1, <2>2, <2>4
    <3> QED
      BY <2>1, <3>1, DamagedPaddingIsRefused
  <2> QED
    BY <2>1, <2>2, <2>3, <2>4
<1> QED
  BY <1>1, InputIsBytes, PTL

-----------------------------------------------------------------------------
\* Fields.

\* How long the input can get.
LEMMA InputStaysShort ==
  ASSUME InputsStayShort
  PROVE  Spec => [](input \in Seq(Byte) /\ Fits(input))
<1> DEFINE Short == /\ grown \in 0..MaxGrowth
                    /\ Len(input) + (MaxGrowth - grown) < K * K * K
           IInv  == CodecInv /\ Short
<1>k. K * K * K \in Nat
  BY DEF K
<1>1. Init => IInv
  <2> SUFFICES ASSUME Init PROVE IInv
    OBVIOUS
  <2>1. input \in Starts /\ grown = 0 /\ MaxGrowth \in Nat
    BY CodecAssumption DEF Init
  <2>2. input \in Seq(Byte)
    BY <2>1, CodecAssumption
  <2> QED
    BY <1>k, <2>1, <2>2 DEF CodecInv, InputsStayShort
<1>2. IInv /\ [Grow]_vars => IInv'
  <2> SUFFICES ASSUME IInv, [Grow]_vars PROVE IInv'
    OBVIOUS
  <2>1. CASE Grow
    <3>1. PICK b \in Alphabet : input' = Append(input, b)
      BY <2>1 DEF Grow
    <3>2. b \in Byte /\ MaxGrowth \in Nat
      BY CodecAssumption
    <3>3. input' \in Seq(Byte) /\ Len(input') = Len(input) + 1 /\ Len(input) \in Nat
      BY <3>1, <3>2 DEF CodecInv
    <3>4. grown < MaxGrowth /\ grown' = grown + 1
      BY <2>1 DEF Grow
    <3> QED
      BY <1>k, <3>2, <3>3, <3>4 DEF CodecInv
  <2>2. CASE UNCHANGED vars
    BY <2>2 DEF vars, CodecInv
  <2> QED
    BY <2>1, <2>2
<1>3. IInv => input \in Seq(Byte) /\ Fits(input)
  <2> SUFFICES ASSUME IInv PROVE input \in Seq(Byte) /\ Fits(input)
    OBVIOUS
  <2>1. input \in Seq(Byte) /\ Len(input) \in Nat /\ MaxGrowth \in Nat
    BY CodecAssumption DEF CodecInv
  <2>2. Len(input) < K * K * K
    BY <1>k, <2>1
  <2> QED
    BY <2>1, <2>2 DEF Fits
<1> QED
  BY <1>1, <1>2, <1>3, PTL DEF Spec

\* A field that encode_tlv writes is read back as it was written.
THEOREM FieldsComeBack ==
  ASSUME InputsStayShort
  PROVE  Spec => []FieldReadsBack
<1>1. ASSUME input \in Seq(Byte), Fits(input)
      PROVE  FieldReadsBack
  <2> DEFINE field == EncodeTlv(5, input)
             one(v) == [id |-> 5, constructed |-> FALSE, value |-> v]
             last == EncodeTlv(5, <<>>)
  <2>0. 5 \in Nat /\ OneByteTag(5) /\ <<>> \in Seq(Byte) /\ Fits(<<>>)
    BY DEF OneByteTag, Fits, K
  <2>1. \A v : Field(5, v) = one(v)
    BY DEF Field
  <2>2. /\ field \in Seq(Byte) /\ last \in Seq(Byte)
        /\ Len(field) \in Nat /\ Len(field) >= 1
    <3>1. field \in Seq(Byte) /\ last \in Seq(Byte)
      BY <1>1, <2>0, EncodeTlvShape
    <3>2. field = <<field[1]>> \o (EncodeLength(Len(input)) \o input)
      BY <1>1, <2>0, EncodeTlvShape
    <3>3. Len(field) = 1 + Len(EncodeLength(Len(input))) + Len(input)
      BY <1>1, <2>0, EncodeTlvShape
    <3>4. Len(input) \in Nat /\ Len(EncodeLength(Len(input))) \in Nat
      BY <1>1, EncodeLengthType DEF Fits
    <3> HIDE DEF field
    <3> QED
      BY <3>1, <3>3, <3>4
  <2>3. ParseAll(field \o last) = <<one(input)>> \o ParseAll(last)
    <3>1. ParseAll(field \o last) = <<Field(5, input)>> \o ParseAll(last)
      <4> HIDE DEF last
      <4> QED
        BY <1>1, <2>0, <2>2, ParseFirst
    <3>2. Field(5, input) = one(input)
      BY <2>1
    <3> QED
      BY <3>1, <3>2
  <2>4. ParseAll(last \o <<>>) = <<one(<<>>)>> \o ParseAll(<<>>)
    BY <2>0, <2>1, ParseFirst
  <2>5. last \o <<>> = last
    BY <2>2, ConcatEmptySeq
  <2> HIDE DEF last
  <2>6. ParseAll(last) = <<one(<<>>)>>
    <3>1. ASSUME NEW x PROVE <<x>> \o <<>> = <<x>>
      <4>1. <<x>> \in Seq({x})
        OBVIOUS
      <4> QED
        BY <4>1, ConcatEmptySeq
    <3> HIDE DEF one
    <3> QED
      BY <2>4, <2>5, <3>1, ParseNothing
  <2>7. ParseAll(field \o last) = <<one(input), one(<<>>)>>
    <3>1. ASSUME NEW x, NEW y PROVE <<x>> \o <<y>> = <<x, y>>
      <4>1. <<x>> \in Seq({x, y}) /\ <<y>> \in Seq({x, y}) /\ <<x, y>> \in Seq({x, y})
        OBVIOUS
      <4>2. Len(<<x>> \o <<y>>) = 2 /\ (<<x>> \o <<y>>)[1] = x /\ (<<x>> \o <<y>>)[2] = y
        BY <4>1
      <4>3. <<x>> \o <<y>> \in Seq({x, y})
        BY <4>1, ConcatProperties
      <4>4. Len(<<x, y>>) = 2 /\ <<x, y>>[1] = x /\ <<x, y>>[2] = y
        OBVIOUS
      <4>5. \A i \in 1..2 : i = 1 \/ i = 2
        OBVIOUS
      <4> DEFINE s == <<x>> \o <<y>>
                 t == <<x, y>>
      <4> HIDE DEF s, t
      <4>6. Len(s) = 2 /\ Len(t) = 2 /\ \A i \in 1..2 : s[i] = t[i]
        BY <4>2, <4>4, <4>5 DEF s, t
      <4>7. s = t
        BY <4>1, <4>3, <4>6, SeqEqual DEF s, t
      <4> QED
        BY <4>7 DEF s, t
    <3> HIDE DEF one, field
    <3> QED
      BY <2>3, <2>6, <3>1
  <2>8. ParseAll(SubSeq(field, 1, Len(field) - 1)) = <<>>
    <3>1. Len(field) - 1 \in Nat /\ Len(field) - 1 < Len(field)
      <4>1. \A m \in Nat : m >= 1 => m - 1 \in Nat /\ m - 1 < m
        OBVIOUS
      <4> QED
        BY <2>2, <4>1
    <3> QED
      BY <1>1, <2>0, <3>1, ParseCut
  <2> QED
    BY <2>7, <2>8 DEF FieldReadsBack, last
<1> QED
  BY <1>1, InputStaysShort, PTL
-----------------------------------------------------------------------------
\* Identifiers.

\* A digit is a number up to 61.
Digit == {x \in Nat : x <= 61}

\* One place of the division: remainder before, byte, quotient, remainder after.
DividesByte(r, b, q, s) == r * 256 + b = q * 62 + s

\* The remainders R of dividing v, its quotient and what is left at the end.
DivisionIs(R, v, q, r) ==
  /\ R \in [0..Len(v) -> Digit] /\ R[0] = 0 /\ R[Len(v)] = r
  /\ q \in Seq(Byte) /\ Len(q) = Len(v)
  /\ \A i \in 1..Len(v) : DividesByte(R[i - 1], v[i], q[i], R[i])

\* What a division has come to.
Division == [quotient : Seq(Byte), remainder : Digit]

\* One byte more, divided to q.
DividedBy(st, b, t, q) ==
  /\ t \in Division /\ t.quotient = Append(st.quotient, q) /\ q \in Byte
  /\ DividesByte(st.remainder, b, q, t.remainder)

\* One byte is divided exactly.
LEMMA DivideByteIs ==
  ASSUME NEW st \in Division, NEW b \in Byte
  PROVE  \E q : DividedBy(st, b, DivideByte(st, b), q)
<1> DEFINE r == st.remainder
           acc == r * 256 + b
           q == acc \div 62
           s == acc % 62
<1>1. r \in Nat /\ r <= 61 /\ b \in Nat /\ b <= 255
  BY InByte DEF Division, Digit
<1>2. acc \in Nat /\ acc <= 61 * 256 + 255
  <2> HIDE DEF r
  <2> QED
    BY <1>1
<1>3. q \in Nat /\ q <= 255 /\ s \in Nat /\ s <= 61 /\ acc = q * 62 + s
  <2> HIDE DEF acc
  <2> QED
    BY <1>2
<1>4. DivideByte(st, b) = [quotient |-> Append(st.quotient, q), remainder |-> s]
  BY DEF DivideByte
<1>5. q \in Byte /\ s \in Digit
  BY <1>3, InByte DEF Digit
<1>6. Append(st.quotient, q) \in Seq(Byte)
  BY <1>5 DEF Division
<1>7. DividesByte(r, b, q, s)
  BY <1>3 DEF DividesByte
<1> HIDE DEF q, s
<1> QED
  BY <1>4, <1>5, <1>6, <1>7 DEF Division, DividedBy

\* Dividing, as a sequence of states.
Divides(v) == [i \in 1..Len(v) |-> [st \in Division |-> DivideByte(st, v[i])]]

LEMMA DivideFold ==
  ASSUME NEW v \in Seq(Byte)
  PROVE  \E F : StatesAre(F, Len(v), Division, [quotient |-> <<>>, remainder |-> 0],
                          Divides(v), Divide(v))
<1> DEFINE n == Len(v)
           D == 1..n
           base == [quotient |-> <<>>, remainder |-> 0]
           step == Divides(v)
           Next(h, s) == IF s = {} THEN base ELSE DivideByte(h[s \ {Max(s)}], v[Max(s)])
           it == CHOOSE h : h = [s \in SUBSET D |-> Next(h, s)]
<1>1. StepFold(n, Division, base, step)
  <2>1. base \in Division
    <3>1. 0 \in Digit /\ <<>> \in Seq(Byte)
      BY DEF Digit
    <3> QED
      BY <3>1 DEF Division
  <2>2. ASSUME NEW i \in 1..n, NEW st \in Division PROVE DivideByte(st, v[i]) \in Division
    <3>1. v[i] \in Byte
      OBVIOUS
    <3> QED
      BY <3>1, DivideByteIs DEF DividedBy
  <2> HIDE DEF base
  <2> QED
    BY <2>1, <2>2 DEF StepFold, Divides
<1>2. \A s \in SUBSET D : s # {} => Max(s) \in D
  <2>1. n \in Nat
    OBVIOUS
  <2> HIDE DEF n
  <2> QED
    BY <2>1, MaxOfNumbers
<1>3. \A w \in Division, i \in D : step[i][w] = DivideByte(w, v[i])
  BY DEF Divides
<1>4. Divide(v) = it[D]
  <2>1. DOMAIN v = D
    OBVIOUS
  <2> QED
    BY <2>1 DEF Divide, FoldLeft, MapThenFoldSet
<1> HIDE DEF step, base
<1>5. \E h : h = [s \in SUBSET D |-> Next(h, s)]
  <2>1. PICK h : FoldRuns(h, n, Division, base, step)
    BY <1>1, StepsExist
  <2> HIDE DEF D
  <2>2. h \in [SUBSET D -> Division] /\ \A s \in SUBSET D : h[s] = Next(h, s)
    BY <1>2, <1>3, <2>1 DEF FoldRuns, D
  <2> HIDE DEF Next
  <2> QED
    BY <2>2
<1>6. it = [s \in SUBSET D |-> Next(it, s)]
  <2> HIDE DEF Next, D
  <2> QED
    BY <1>5
<1> HIDE DEF it
<1>7. FollowsSteps(it, n, Division, base, step)
  <2>1. ASSUME NEW s \in SUBSET D, s # {}, it[s \ {Max(s)}] \in Division
        PROVE  it[s] = step[Max(s)][it[s \ {Max(s)}]]
    <3>1. it[s] = DivideByte(it[s \ {Max(s)}], v[Max(s)])
      BY <1>6, <2>1
    <3> QED
      BY <1>2, <1>3, <2>1, <3>1
  <2> QED
    BY <1>6, <2>1 DEF FollowsSteps
<1> QED
  BY <1>1, <1>4, <1>7, StatesOfSteps DEF step, base

\* What a division has come to after k bytes.
DividedSoFar(R, v, q, k) ==
  Len(q) = k /\ \A i \in 1..k : DividesByte(R[i - 1], v[i], q[i], R[i])

\* Dividing leaves nothing out: byte for byte, with the remainders between them.
LEMMA DivideIs ==
  ASSUME NEW v \in Seq(Byte)
  PROVE  \E R : DivisionIs(R, v, Divide(v).quotient, Divide(v).remainder)
<1> DEFINE n == Len(v)
           base == [quotient |-> <<>>, remainder |-> 0]
<1>0. n \in Nat /\ \A i \in 1..n : v[i] \in Byte
  OBVIOUS
<1>1. PICK F : StatesAre(F, n, Division, base, Divides(v), Divide(v))
  BY DivideFold
<1> DEFINE R == [i \in 0..n |-> F[i].remainder]
           S == {k \in Nat : k <= n => DividedSoFar(R, v, F[k].quotient, k)}
<1>2. F \in [0..n -> Division] /\ F[0] = base /\ F[n] = Divide(v)
  BY <1>1 DEF StatesAre
<1>3. ASSUME NEW i \in 1..n
      PROVE  F[i - 1] \in Division /\ F[i] = DivideByte(F[i - 1], v[i])
  <2>1. i - 1 \in 0..n
    BY <1>0
  <2>2. F[i - 1] \in Division
    BY <1>2, <2>1
  <2>3. F[i] = Divides(v)[i][F[i - 1]]
    BY <1>1 DEF StatesAre
  <2> QED
    BY <2>2, <2>3 DEF Divides
<1>4. R \in [0..n -> Digit] /\ R[0] = 0 /\ R[n] = Divide(v).remainder
  <2>1. \A i \in 0..n : F[i].remainder \in Digit
    BY <1>2 DEF Division
  <2>2. 0 \in 0..n /\ n \in 0..n
    BY <1>0
  <2> QED
    BY <1>2, <2>1, <2>2
<1>5. ASSUME NEW i \in 1..n
      PROVE  \E b \in Byte : /\ F[i].quotient = Append(F[i - 1].quotient, b)
                             /\ DividesByte(R[i - 1], v[i], b, R[i])
  <2>1. PICK b : DividedBy(F[i - 1], v[i], F[i], b)
    BY <1>0, <1>3, DivideByteIs
  <2>2. i - 1 \in 0..n /\ i \in 0..n
    BY <1>0
  <2> QED
    BY <2>1, <2>2 DEF DividedBy
<1> HIDE DEF R
<1>6. 0 \in S
  BY <1>2 DEF DividedSoFar
<1>7. ASSUME NEW k \in Nat, k \in S PROVE k + 1 \in S
  <2> SUFFICES ASSUME k + 1 <= n PROVE DividedSoFar(R, v, F[k + 1].quotient, k + 1)
    OBVIOUS
  <2>1. k + 1 \in 1..n /\ (k + 1) - 1 = k /\ k \in 0..n
    BY <1>0
  <2>2. DividedSoFar(R, v, F[k].quotient, k)
    BY <1>0, <1>7, <2>1
  <2>3. PICK b \in Byte : /\ F[k + 1].quotient = Append(F[k].quotient, b)
                          /\ DividesByte(R[k], v[k + 1], b, R[k + 1])
    BY <1>5, <2>1
  <2> DEFINE p == F[k].quotient
             q == F[k + 1].quotient
  <2>4. p \in Seq(Byte) /\ Len(p) = k /\ q = Append(p, b)
    BY <1>2, <2>1, <2>2, <2>3 DEF Division, DividedSoFar
  <2>5. \A i \in 1..k : DividesByte(R[i - 1], v[i], p[i], R[i])
    BY <2>2 DEF DividedSoFar
  <2> HIDE DEF p, q
  <2>6. Len(q) = k + 1 /\ q[k + 1] = b /\ \A i \in 1..k : q[i] = p[i]
    BY <2>4
  <2>7. \A i \in 1..k + 1 : i = k + 1 \/ i \in 1..k
    OBVIOUS
  <2>8. \A i \in 1..k + 1 : DividesByte(R[i - 1], v[i], q[i], R[i])
    BY <2>1, <2>3, <2>5, <2>6, <2>7
  <2> QED
    BY <2>6, <2>8 DEF DividedSoFar, q
<1>8. n \in S
  <2> HIDE DEF S
  <2> QED
    BY <1>0, <1>6, <1>7, SetInduction
<1>9. Divide(v).quotient \in Seq(Byte)
  <2>1. n \in 0..n
    BY <1>0
  <2> QED
    BY <1>2, <2>1 DEF Division
<1>10. DivisionIs(R, v, Divide(v).quotient, Divide(v).remainder)
  <2>1. DividedSoFar(R, v, Divide(v).quotient, n)
    BY <1>0, <1>2, <1>8
  <2> QED
    BY <1>4, <1>9, <2>1 DEF DivisionIs, DividedSoFar
<1> QED
  BY <1>10

\* A value in front of which there are zeros, n bytes in all.
Padded(v, n) == [i \in 1..n |-> IF i <= n - Len(v) THEN 0 ELSE v[i - (n - Len(v))]]

\* What a function that is defined from its end comes to.
CarriesOf(c, n, digit, value) ==
  c = [i \in 0..n |-> IF i = n THEN digit ELSE (value[i + 1] * 62 + c[i + 1]) \div 256]

LEMMA CarriesAre ==
  ASSUME NEW n \in Nat, NEW digit, NEW value, NEW c, NEW f,
         CarriesOf(c, n, digit, value), CarriesOf(f, n, digit, value)
  PROVE  c = f
<1> DEFINE Step(g, i) == IF i = n THEN digit ELSE (value[i + 1] * 62 + g[i + 1]) \div 256
           S == {k \in Nat : k <= n => c[n - k] = f[n - k]}
<1>1. \A i \in 0..n : c[i] = Step(c, i) /\ f[i] = Step(f, i)
  <2>1. c = [i \in 0..n |-> Step(c, i)] /\ f = [i \in 0..n |-> Step(f, i)]
    BY DEF CarriesOf
  <2> HIDE DEF Step
  <2> QED
    BY <2>1
<1>2. 0 \in S
  <2>1. n - 0 = n /\ n \in 0..n
    OBVIOUS
  <2> QED
    BY <1>1, <2>1
<1>3. ASSUME NEW k \in Nat, k \in S PROVE k + 1 \in S
  <2> SUFFICES ASSUME k + 1 <= n PROVE c[n - (k + 1)] = f[n - (k + 1)]
    OBVIOUS
  <2> DEFINE i == n - (k + 1)
  <2>1. i \in 0..n /\ i # n /\ i + 1 = n - k
    OBVIOUS
  <2>2. c[i + 1] = f[i + 1]
    BY <1>3, <2>1
  <2> HIDE DEF i
  <2>3. Step(c, i) = Step(f, i)
    BY <2>2
  <2> HIDE DEF Step
  <2>4. c[i] = Step(c, i)
    BY <1>1, <2>1
  <2>5. f[i] = Step(f, i)
    BY <1>1, <2>1
  <2> QED
    BY <2>3, <2>4, <2>5 DEF i
<1>4. ASSUME NEW i \in 0..n PROVE c[i] = f[i]
  <2>1. n - i \in Nat /\ n - i <= n /\ n - (n - i) = i
    OBVIOUS
  <2>2. n - i \in S
    <3> HIDE DEF S
    <3> QED
      BY <1>2, <1>3, <2>1, SetInduction
  <2> QED
    BY <2>1, <2>2
<1>5. c = [i \in 0..n |-> c[i]] /\ f = [i \in 0..n |-> f[i]]
  BY DEF CarriesOf
<1> HIDE DEF Step, S
<1> QED
  BY <1>4, <1>5

\* One place of the multiplication: carry out, byte, byte before, carry in.
MultipliesByte(r, b, q, s) == (q * 62 + s) \div 256 = r /\ (q * 62 + s) % 256 = b

\* It is the division backwards.
LEMMA MultiplyByte ==
  ASSUME NEW r \in Nat, NEW b \in Nat, b <= 255, NEW q \in Nat, NEW s \in Nat, DividesByte(r, b, q, s)
  PROVE  MultipliesByte(r, b, q, s)
<1>1. q * 62 + s = r * 256 + b
  BY DEF DividesByte
<1>2. (r * 256 + b) \div 256 = r /\ (r * 256 + b) % 256 = b
  OBVIOUS
<1> QED
  BY <1>1, <1>2 DEF MultipliesByte

\* The remainders of a division, with the zeros in front.
RemaindersAre(f, n, V, Q, r) ==
  /\ f \in [0..n -> Digit] /\ f[n] = r
  /\ \A i \in 1..n : V[i] \in Byte /\ Q[i] \in Byte /\ DividesByte(f[i - 1], V[i], Q[i], f[i])

LEMMA PaddedDivision ==
  ASSUME NEW v \in Seq(Byte), NEW n \in Nat, Len(v) <= n,
         NEW R, NEW q, NEW r, DivisionIs(R, v, q, r)
  PROVE  \E f : RemaindersAre(f, n, Padded(v, n), Padded(q, n), r)
<1> DEFINE m == Len(v)
           z == n - m
           f == [i \in 0..n |-> IF i <= z THEN 0 ELSE R[i - z]]
           V == Padded(v, n)
           Q == Padded(q, n)
<1>0. m \in Nat /\ m <= n /\ z \in Nat /\ z <= n /\ n - z = m
  OBVIOUS
<1>1. /\ R \in [0..m -> Digit] /\ R[0] = 0 /\ R[m] = r /\ Len(q) = m /\ q \in Seq(Byte)
      /\ \A i \in 1..m : DividesByte(R[i - 1], v[i], q[i], R[i])
  BY DEF DivisionIs
<1>2. \A j \in 1..m : v[j] \in Byte /\ q[j] \in Byte
  BY <1>1
<1>3. 0 \in Digit /\ 0 \in Byte
  BY InByte DEF Digit
<1>4. \A i \in 1..n : /\ V[i] = IF i <= z THEN 0 ELSE v[i - z]
                      /\ Q[i] = IF i <= z THEN 0 ELSE q[i - z]
  BY <1>1 DEF Padded
<1> HIDE DEF V, Q, m, z
<1>5. f \in [0..n -> Digit] /\ f[n] = r
  <2>1. ASSUME NEW i \in 0..n PROVE f[i] \in Digit
    <3>1. CASE i <= z
      BY <1>3, <3>1
    <3>2. CASE ~(i <= z)
      <4>1. i - z \in 0..m
        BY <1>0, <3>2
      <4>2. f[i] = R[i - z]
        BY <3>2
      <4> HIDE DEF f
      <4> QED
        BY <1>1, <4>1, <4>2
    <3> QED
      BY <3>1, <3>2
  <2>2. n <= z => m = 0
    BY <1>0
  <2>3. f[n] = r
    BY <1>0, <1>1, <2>2
  <2> QED
    BY <2>1, <2>3
<1>6. ASSUME NEW i \in 1..n
      PROVE  V[i] \in Byte /\ Q[i] \in Byte /\ DividesByte(f[i - 1], V[i], Q[i], f[i])
  <2>0. i \in 0..n /\ i - 1 \in 0..n /\ i \in Nat
    OBVIOUS
  <2>1. CASE i <= z
    <3>1. V[i] = 0 /\ Q[i] = 0 /\ f[i] = 0
      BY <1>4, <2>0, <2>1
    <3>2. i - 1 <= z
      BY <1>0, <2>0, <2>1
    <3>3. f[i - 1] = 0
      BY <2>0, <3>2
    <3> QED
      BY <1>3, <3>1, <3>3 DEF DividesByte
  <2>2. CASE i > z
    <3>1. i - z \in 1..m /\ (i - 1) - z = (i - z) - 1 /\ ~(i <= z)
      BY <1>0, <2>0, <2>2
    <3>2. V[i] = v[i - z] /\ Q[i] = q[i - z] /\ f[i] = R[i - z]
      BY <1>4, <2>0, <3>1
    <3>3. f[i - 1] = R[(i - z) - 1]
      <4>1. CASE i - 1 <= z
        <5>1. (i - z) - 1 = 0
          BY <1>0, <2>0, <2>2, <4>1
        <5> QED
          BY <1>1, <2>0, <4>1, <5>1
      <4>2. CASE ~(i - 1 <= z)
        BY <2>0, <3>1, <4>2
      <4> QED
        BY <4>1, <4>2
    <3> HIDE DEF f
    <3> QED
      BY <1>1, <1>2, <3>1, <3>2, <3>3
  <2> QED
    BY <1>0, <2>0, <2>1, <2>2
<1> HIDE DEF f
<1> QED
  BY <1>5, <1>6 DEF RemaindersAre, V, Q

\* Taking the remainder as a digit gives back what was divided.
LEMMA TakeDigitBack ==
  ASSUME NEW v \in Seq(Byte), NEW n \in Nat, Len(v) <= n,
         NEW R, NEW q, NEW r, DivisionIs(R, v, q, r)
  PROVE  TakeDigit(Padded(q, n), r) = Padded(v, n)
<1> DEFINE V == Padded(v, n)
           Q == Padded(q, n)
           Carry(g, i) == IF i = n THEN r ELSE (Q[i + 1] * 62 + g[i + 1]) \div 256
           carry == CHOOSE c : c = [i \in 0..n |-> Carry(c, i)]
<1>1. PICK f : RemaindersAre(f, n, V, Q, r)
  BY PaddedDivision
<1>2. Len(Q) = n /\ V = [i \in 1..n |-> V[i]]
  BY DEF Padded
<1>3. TakeDigit(Q, r) = [i \in 1..n |-> (Q[i] * 62 + carry[i]) % 256]
  <2> HIDE DEF Q
  <2> QED
    BY <1>2 DEF TakeDigit
<1> HIDE DEF V, Q
<1>4. ASSUME NEW i \in 1..n
      PROVE  MultipliesByte(f[i - 1], V[i], Q[i], f[i])
  <2>1. i - 1 \in 0..n /\ i \in 0..n
    OBVIOUS
  <2>2. f[i - 1] \in Nat /\ f[i] \in Nat /\ V[i] \in Nat /\ V[i] <= 255 /\ Q[i] \in Nat
    BY <1>1, <2>1, InByte DEF RemaindersAre, Digit
  <2>3. DividesByte(f[i - 1], V[i], Q[i], f[i])
    BY <1>1 DEF RemaindersAre
  <2> QED
    BY <2>2, <2>3, MultiplyByte
<1>5. f = [i \in 0..n |-> Carry(f, i)]
  <2>1. f = [i \in 0..n |-> f[i]] /\ f[n] = r
    BY <1>1 DEF RemaindersAre
  <2>2. ASSUME NEW i \in 0..n PROVE f[i] = Carry(f, i)
    <3>1. CASE i = n
      BY <2>1, <3>1
    <3>2. CASE i # n
      <4>1. i + 1 \in 1..n /\ (i + 1) - 1 = i
        BY <3>2
      <4> QED
        BY <1>4, <3>2, <4>1 DEF MultipliesByte
    <3> QED
      BY <3>1, <3>2
  <2> HIDE DEF Carry
  <2> QED
    BY <2>1, <2>2
<1>6. carry = [i \in 0..n |-> Carry(carry, i)]
  <2> HIDE DEF Carry
  <2> QED
    BY <1>5
<1> HIDE DEF carry
<1>7. carry = f
  <2>1. CarriesOf(carry, n, r, Q) /\ CarriesOf(f, n, r, Q)
    BY <1>5, <1>6 DEF CarriesOf
  <2> QED
    BY <2>1, CarriesAre
<1>8. \A i \in 1..n : (Q[i] * 62 + carry[i]) % 256 = V[i]
  BY <1>4, <1>7 DEF MultipliesByte
<1> QED
  BY <1>2, <1>3, <1>8 DEF V, Q

\* A set of numbers has a least one.
LEMMA LeastNumber ==
  ASSUME NEW s, s \subseteq Nat, s # {}
  PROVE  \E i \in s : \A j \in s : i <= j
<1> SUFFICES ASSUME \A i \in s : \E j \in s : j < i PROVE FALSE
  OBVIOUS
<1> DEFINE T == {k \in Nat : \A j \in s : j >= k}
<1>1. 0 \in T
  OBVIOUS
<1>2. ASSUME NEW k \in Nat, k \in T PROVE k + 1 \in T
  <2> SUFFICES ASSUME NEW j \in s, j < k + 1 PROVE FALSE
    OBVIOUS
  <2>1. j = k
    BY <1>2
  <2> QED
    BY <1>2, <2>1
<1>3. PICK j \in s : TRUE
  OBVIOUS
<1>4. j + 1 \in T
  <2> HIDE DEF T
  <2> QED
    BY <1>1, <1>2, SetInduction
<1> QED
  BY <1>4

\* What is in front of the first byte that is not zero does not count.
LEMMA SkipZerosIs ==
  ASSUME NEW v \in Seq(Byte)
  PROVE  /\ SkipZeros(v) \in Seq(Byte) /\ Len(SkipZeros(v)) <= Len(v)
         /\ v # <<>> /\ v[1] = 0 => Len(SkipZeros(v)) < Len(v)
         /\ Len(SkipZeros(v)) = Len(v) => SkipZeros(v) = v
         /\ \A n \in Nat : Len(v) <= n => Padded(SkipZeros(v), n) = Padded(v, n)
<1> DEFINE m == Len(v)
           used == {i \in 1..m : v[i] # 0}
           first == CHOOSE i \in used : \A j \in used : i <= j
<1>0. m \in Nat /\ DOMAIN v = 1..m
  OBVIOUS
<1>1. CASE used = {}
  <2>1. SkipZeros(v) = <<>>
    BY <1>0, <1>1 DEF SkipZeros
  <2>2. \A i \in 1..m : v[i] = 0
    BY <1>1
  <2>3. ASSUME NEW n \in Nat, m <= n PROVE Padded(<<>>, n) = Padded(v, n)
    <3>1. \A i \in 1..n : ~(i <= n - m) => i - (n - m) \in 1..m
      BY <1>0, <2>3
    <3>2. \A i \in 1..n : i <= n - Len(<<>>)
      OBVIOUS
    <3> HIDE DEF m
    <3> QED
      BY <2>2, <3>1, <3>2 DEF Padded, m
  <2>4. v # <<>> => m > 0
    OBVIOUS
  <2>5. m = 0 => v = <<>>
    OBVIOUS
  <2> HIDE DEF used
  <2> QED
    BY <1>0, <2>1, <2>3, <2>4, <2>5
<1>2. CASE used # {}
  <2>1. first \in used /\ \A j \in used : first <= j
    <3>1. \E i \in used : \A j \in used : i <= j
      <4>1. used \subseteq Nat
        OBVIOUS
      <4> HIDE DEF used
      <4> QED
        BY <1>2, <4>1, LeastNumber
    <3> QED
      BY <3>1
  <2>2. SkipZeros(v) = SubSeq(v, first, m)
    BY <1>0, <1>2 DEF SkipZeros
  <2> HIDE DEF first
  <2>3. first \in 1..m /\ v[first] # 0 /\ \A j \in 1..m : j < first => v[j] = 0
    BY <2>1
  <2> HIDE DEF used
  <2> DEFINE s == SubSeq(v, first, m)
  <2>4. /\ s \in Seq(Byte) /\ Len(s) = m - first + 1
        /\ \A i \in 1..m - first + 1 : s[i] = v[first + i - 1]
    BY <1>0, <2>3
  <2> HIDE DEF s, m
  <2>5. v[1] = 0 => first > 1
    BY <1>0, <2>3
  <2>6. Len(s) = m => s = v
    <3> SUFFICES ASSUME Len(s) = m PROVE s = v
      OBVIOUS
    <3>1. first = 1
      BY <1>0, <2>3, <2>4
    <3>2. \A i \in 1..m : s[i] = v[i]
      BY <1>0, <2>4, <3>1
    <3> QED
      BY <2>4, <3>2, SeqEqual DEF m
  <2>7. ASSUME NEW n \in Nat, m <= n PROVE Padded(s, n) = Padded(v, n)
    <3> DEFINE A(i) == IF i <= n - Len(s) THEN 0 ELSE s[i - (n - Len(s))]
               B(i) == IF i <= n - m THEN 0 ELSE v[i - (n - m)]
    <3>1. ASSUME NEW i \in 1..n PROVE A(i) = B(i)
      <4>1. n - Len(s) = (n - m) + (first - 1)
        BY <1>0, <2>3, <2>4
      <4>2. CASE i <= n - m
        BY <1>0, <2>3, <4>1, <4>2
      <4>3. CASE n - m < i /\ i <= n - Len(s)
        <5>1. i - (n - m) \in 1..m /\ i - (n - m) < first
          BY <1>0, <2>3, <2>7, <4>1, <4>3
        <5> QED
          BY <1>0, <2>3, <4>3, <5>1
      <4>4. CASE i > n - Len(s)
        <5>1. /\ i - (n - Len(s)) \in 1..m - first + 1
              /\ first + (i - (n - Len(s))) - 1 = i - (n - m)
              /\ ~(i <= n - Len(s)) /\ ~(i <= n - m)
          BY <1>0, <2>3, <2>4, <2>7, <4>1, <4>4
        <5> QED
          BY <2>4, <5>1
      <4> QED
        BY <1>0, <2>4, <2>3, <4>2, <4>3, <4>4
    <3>2. Padded(s, n) = [i \in 1..n |-> A(i)] /\ Padded(v, n) = [i \in 1..n |-> B(i)]
      BY DEF Padded, m
    <3> HIDE DEF A, B
    <3> QED
      BY <3>1, <3>2
  <2> QED
    BY <1>0, <2>2, <2>3, <2>4, <2>5, <2>6, <2>7 DEF s, m
<1> QED
  BY <1>1, <1>2

\* Reading digits one after the other, as a sequence of values.
DigitsRead(t, digits, from, to) ==
  /\ t = [j \in 0..Len(digits) |-> t[j]]
  /\ t[0] = from /\ t[Len(digits)] = to
  /\ \A j \in 1..Len(digits) : t[j] = TakeDigit(t[j - 1], digits[j])

\* That is what ReadBase62 computes.
LEMMA ReadIs ==
  ASSUME NEW digits \in Seq(Digit), NEW width \in Nat, NEW t, NEW to,
         DigitsRead(t, digits, [i \in 1..width |-> 0], to)
  PROVE  ReadBase62(digits, width) = to
<1> DEFINE n == Len(digits)
           zeros == [i \in 1..width |-> 0]
           Step(g, j) == IF j = 0 THEN zeros ELSE TakeDigit(g[j - 1], digits[j])
           read == CHOOSE g : g = [j \in 0..n |-> Step(g, j)]
<1>0. n \in Nat
  OBVIOUS
<1>1. ReadBase62(digits, width) = read[n]
  BY DEF ReadBase62
<1> HIDE DEF zeros, n
<1>2. t = [j \in 0..n |-> Step(t, j)]
  <2>1. t = [j \in 0..n |-> t[j]]
    BY DEF DigitsRead, n
  <2>2. ASSUME NEW j \in 0..n PROVE t[j] = Step(t, j)
    <3>1. j = 0 \/ j \in 1..n
      OBVIOUS
    <3> QED
      BY <3>1 DEF DigitsRead, zeros, n
  <2> HIDE DEF Step
  <2> QED
    BY <2>1, <2>2
<1>3. read = [j \in 0..n |-> Step(read, j)]
  <2> HIDE DEF Step
  <2> QED
    BY <1>2
<1> HIDE DEF read
<1>4. \A j \in 0..n : t[j] = Step(t, j)
  <2> HIDE DEF Step
  <2> QED
    BY <1>2
<1>5. \A j \in 0..n : read[j] = Step(read, j)
  <2> HIDE DEF Step
  <2> QED
    BY <1>3
<1> DEFINE S == {k \in Nat : k <= n => read[k] = t[k]}
<1>6. 0 \in S
  BY <1>0, <1>4, <1>5
<1>7. ASSUME NEW k \in Nat, k \in S PROVE k + 1 \in S
  <2> SUFFICES ASSUME k + 1 <= n PROVE read[k + 1] = t[k + 1]
    OBVIOUS
  <2>1. k + 1 \in 0..n /\ k + 1 # 0 /\ (k + 1) - 1 = k /\ read[k] = t[k]
    BY <1>0, <1>7
  <2>2. read[k + 1] = Step(read, k + 1) /\ t[k + 1] = Step(t, k + 1)
    <3> HIDE DEF Step
    <3> QED
      BY <1>4, <1>5, <2>1
  <2> QED
    BY <2>1, <2>2
<1>8. n \in S
  <2> HIDE DEF S
  <2> QED
    BY <1>0, <1>6, <1>7, SetInduction
<1> QED
  BY <1>0, <1>1, <1>8 DEF DigitsRead, n

\* One more digit in front is one more value in front.
LEMMA ReadsOneMore ==
  ASSUME NEW digits \in Seq(Digit), NEW d \in Digit, NEW t, NEW before, NEW from, NEW to,
         DigitsRead(t, digits, from, to), TakeDigit(before, d) = from
  PROVE  \E u : DigitsRead(u, <<d>> \o digits, before, to)
<1> DEFINE n == Len(digits)
           u == [j \in 0..n + 1 |-> IF j = 0 THEN before ELSE t[j - 1]]
           more == <<d>> \o digits
<1>0. n \in Nat /\ <<d>> \in Seq(Digit) /\ Len(<<d>>) = 1
  OBVIOUS
<1>1. Len(more) = n + 1 /\ more[1] = d /\ \A j \in 2..n + 1 : more[j] = digits[j - 1]
  OBVIOUS
<1> HIDE DEF n, more
<1>2. u = [j \in 0..n + 1 |-> u[j]] /\ u[0] = before /\ u[n + 1] = to
  <2>1. 0 \in 0..n + 1 /\ n + 1 \in 0..n + 1 /\ n + 1 # 0 /\ (n + 1) - 1 = n
    BY <1>0
  <2>2. t[n] = to
    BY DEF DigitsRead, n
  <2> QED
    BY <2>1, <2>2
<1>3. ASSUME NEW j \in 1..n + 1 PROVE u[j] = TakeDigit(u[j - 1], more[j])
  <2>0. j \in 0..n + 1 /\ j - 1 \in 0..n + 1 /\ j # 0
    BY <1>0
  <2>1. u[j] = t[j - 1]
    BY <2>0
  <2>2. CASE j = 1
    <3>1. u[j - 1] = before /\ more[j] = d
      BY <1>1, <2>0, <2>2
    <3>2. t[j - 1] = from
      BY <2>2 DEF DigitsRead
    <3> HIDE DEF u
    <3> QED
      BY <2>1, <3>1, <3>2
  <2>3. CASE j # 1
    <3>1. j - 1 \in 1..n /\ j \in 2..n + 1 /\ j - 1 # 0
      BY <1>0, <2>3
    <3>2. u[j - 1] = t[(j - 1) - 1] /\ more[j] = digits[j - 1]
      BY <1>1, <2>0, <3>1
    <3>3. t[j - 1] = TakeDigit(t[(j - 1) - 1], digits[j - 1])
      BY <3>1 DEF DigitsRead, n
    <3> HIDE DEF u
    <3> QED
      BY <2>1, <3>2, <3>3
  <2> QED
    BY <2>2, <2>3
<1> HIDE DEF u
<1> QED
  BY <1>1, <1>2, <1>3 DEF DigitsRead, more

\* How many rounds a value can still take: two for a byte, one less when the
\* first of them is gone after the next.
Left(v) == IF v # <<>> /\ v[1] <= 61 THEN 2 * Len(v) - 1 ELSE 2 * Len(v)

\* What the rounds of encode_base62 work on.
Rounds == [value : Seq(Byte), digits : Seq(Digit)]

\* A round that found something to divide.
RoundIs(st, t) ==
  /\ t \in Rounds
  /\ st.value = <<>> => t = st
  /\ st.value # <<>> =>
     /\ Len(t.value) <= Len(st.value) /\ Left(t.value) < Left(st.value)
     /\ \E d \in Digit : /\ t.digits = <<d>> \o st.digits
                         /\ \A n \in Nat : Len(st.value) <= n =>
                              TakeDigit(Padded(t.value, n), d) = Padded(st.value, n)

\* A quotient is shorter, or begins with less.
LEMMA QuotientIsLess ==
  ASSUME NEW v \in Seq(Byte), v # <<>>, NEW R, NEW q, NEW r, DivisionIs(R, v, q, r)
  PROVE  Left(SkipZeros(q)) < Left(v)
<1> DEFINE s == SkipZeros(q)
<1>0. /\ q \in Seq(Byte) /\ Len(q) = Len(v) /\ Len(v) \in Nat /\ Len(v) >= 1 /\ q # <<>>
  BY DEF DivisionIs
<1>1. v[1] \in Nat /\ q[1] \in Nat
  <2>1. v[1] \in Byte /\ q[1] \in Byte
    BY <1>0
  <2> QED
    BY <2>1, InByte
<1>2. v[1] = q[1] * 62 + R[1] /\ R[1] \in Nat
  <2>1. 1 \in 1..Len(v) /\ 1 - 1 = 0 /\ 1 \in 0..Len(v)
    BY <1>0
  <2>2. DividesByte(R[0], v[1], q[1], R[1]) /\ R[0] = 0 /\ R[1] \in Digit
    BY <2>1 DEF DivisionIs
  <2> QED
    BY <1>1, <2>2 DEF DividesByte, Digit
<1>3. /\ s \in Seq(Byte) /\ Len(s) \in Nat /\ Len(s) <= Len(v)
      /\ q[1] = 0 => Len(s) < Len(v)
      /\ Len(s) = Len(v) => s = q
  BY <1>0, SkipZerosIs
<1>4. v[1] <= 255
  <2>1. v[1] \in Byte
    BY <1>0
  <2> QED
    BY <2>1, InByte
<1> HIDE DEF s
<1>5. Left(s) <= 2 * Len(s) /\ Left(v) >= 2 * Len(v) - 1 /\ Left(s) \in Int /\ Left(v) \in Int
  BY <1>0, <1>3 DEF Left
<1>6. CASE Len(s) < Len(v)
  BY <1>0, <1>3, <1>5, <1>6 DEF s
<1>7. CASE Len(s) = Len(v)
  <2>1. s = q /\ q[1] # 0
    BY <1>0, <1>3, <1>7
  <2>2. q[1] <= 61 /\ v[1] > 61
    BY <1>1, <1>2, <1>4, <2>1
  <2>3. Left(q) = 2 * Len(v) - 1 /\ Left(v) = 2 * Len(v)
    BY <1>0, <1>1, <2>2 DEF Left
  <2> QED
    BY <1>0, <2>1, <2>3 DEF s
<1> QED
  BY <1>0, <1>3, <1>6, <1>7

\* Every round is one or the other.
LEMMA NextDigitIs ==
  ASSUME NEW st \in Rounds, NEW i
  PROVE  RoundIs(st, NextDigit(st, i))
<1> DEFINE v == st.value
<1>1. v \in Seq(Byte) /\ st.digits \in Seq(Digit)
  BY DEF Rounds
<1>2. CASE v = <<>>
  BY <1>2 DEF NextDigit, RoundIs
<1>3. CASE v # <<>>
  <2> DEFINE q == Divide(v).quotient
             d == Divide(v).remainder
             s == SkipZeros(q)
             t == [value |-> s, digits |-> <<d>> \o st.digits]
  <2>1. PICK R : DivisionIs(R, v, q, d)
    BY <1>1, DivideIs
  <2>2. NextDigit(st, i) = t
    BY <1>3 DEF NextDigit
  <2>3. q \in Seq(Byte) /\ Len(q) = Len(v) /\ d \in Digit
    <3>1. Len(v) \in 0..Len(v)
      BY <1>1
    <3> QED
      BY <2>1, <3>1 DEF DivisionIs
  <2>4. ASSUME NEW n \in Nat, Len(v) <= n PROVE TakeDigit(Padded(q, n), d) = Padded(v, n)
    BY <1>1, <2>1, <2>4, TakeDigitBack
  <2>5. Left(s) < Left(v)
    BY <1>1, <1>3, <2>1, QuotientIsLess
  <2> HIDE DEF q, d, v
  <2>6. /\ s \in Seq(Byte) /\ Len(s) <= Len(v)
        /\ \A n \in Nat : Len(v) <= n => Padded(s, n) = Padded(q, n)
    BY <2>3, SkipZerosIs
  <2> HIDE DEF s
  <2>7. <<d>> \o st.digits \in Seq(Digit)
    <3>1. <<d>> \in Seq(Digit)
      BY <2>3
    <3> QED
      BY <1>1, <3>1
  <2>8. \A n \in Nat : Len(v) <= n => TakeDigit(Padded(s, n), d) = Padded(v, n)
    BY <2>4, <2>6
  <2>9. t \in Rounds /\ t.value = s /\ t.digits = <<d>> \o st.digits
    BY <2>6, <2>7 DEF Rounds
  <2> HIDE DEF t
  <2>10. RoundIs(st, t)
    BY <1>3, <2>3, <2>5, <2>6, <2>8, <2>9 DEF RoundIs, v
  <2> QED
    BY <2>2, <2>10
<1> QED
  BY <1>2, <1>3

\* The outer loop, as a sequence of states.
RoundSteps(m) == [i \in 1..m |-> [st \in Rounds |-> NextDigit(st, i)]]

\* The rounds of a value, one after the other.
RoundsAre(F, m, data, digits) ==
  /\ F[0] = [value |-> data, digits |-> <<>>]
  /\ \A i \in 0..m : F[i] \in Rounds
  /\ \A i \in 1..m : RoundIs(F[i - 1], F[i])
  /\ F[m].digits = digits

LEMMA DigitsFold ==
  ASSUME NEW data \in Seq(Byte)
  PROVE  \E F : RoundsAre(F, 2 * Len(data), data, Digits(data))
<1> DEFINE n == 2 * Len(data)
           D == 1..n
           base == [value |-> data, digits |-> <<>>]
           rounds == [i \in 1..n |-> i]
           step == RoundSteps(n)
           Next(h, s) == IF s = {} THEN base ELSE NextDigit(h[s \ {Max(s)}], rounds[Max(s)])
           it == CHOOSE h : h = [s \in SUBSET D |-> Next(h, s)]
<1>0. n \in Nat
  OBVIOUS
<1>1. Digits(data) = it[D].digits
  <2>1. DOMAIN rounds = D
    OBVIOUS
  <2> QED
    BY <2>1 DEF Digits, FoldLeft, MapThenFoldSet
<1>2. base \in Rounds /\ base = [value |-> data, digits |-> <<>>]
  BY DEF Rounds
<1> HIDE DEF n, base
<1>3. \A s \in SUBSET D : s # {} => Max(s) \in D
  BY <1>0, MaxOfNumbers
<1>4. ASSUME NEW i \in D, NEW st \in Rounds
      PROVE  NextDigit(st, i) \in Rounds /\ RoundIs(st, NextDigit(st, i))
  BY NextDigitIs DEF RoundIs
<1>5. StepFold(n, Rounds, base, step)
  BY <1>0, <1>2, <1>4 DEF StepFold, RoundSteps
<1>6. \A w \in Rounds, i \in D : step[i][w] = NextDigit(w, rounds[i])
  BY DEF RoundSteps
<1> HIDE DEF step, rounds
<1>7. \E h : h = [s \in SUBSET D |-> Next(h, s)]
  <2>1. PICK h : FoldRuns(h, n, Rounds, base, step)
    BY <1>5, StepsExist
  <2> HIDE DEF D
  <2>2. h \in [SUBSET D -> Rounds] /\ \A s \in SUBSET D : h[s] = Next(h, s)
    BY <1>3, <1>6, <2>1 DEF FoldRuns, D
  <2> HIDE DEF Next
  <2> QED
    BY <2>2
<1>8. it = [s \in SUBSET D |-> Next(it, s)]
  <2> HIDE DEF Next, D
  <2> QED
    BY <1>7
<1> HIDE DEF it
<1>9. FollowsSteps(it, n, Rounds, base, step)
  <2>1. ASSUME NEW s \in SUBSET D, s # {}, it[s \ {Max(s)}] \in Rounds
        PROVE  it[s] = step[Max(s)][it[s \ {Max(s)}]]
    <3>1. it[s] = NextDigit(it[s \ {Max(s)}], rounds[Max(s)])
      BY <1>8, <2>1
    <3> QED
      BY <1>3, <1>6, <2>1, <3>1
  <2> QED
    BY <1>8, <2>1 DEF FollowsSteps
<1>10. PICK F : StatesAre(F, n, Rounds, base, step, it[D])
  BY <1>5, <1>9, StatesOfSteps
<1>11. /\ F \in [0..n -> Rounds] /\ F[0] = base /\ F[n] = it[D]
       /\ \A i \in 1..n : F[i] = step[i][F[i - 1]]
  BY <1>10 DEF StatesAre
<1>12. ASSUME NEW i \in 1..n PROVE RoundIs(F[i - 1], F[i])
  <2>1. i - 1 \in 0..n
    BY <1>0
  <2>2. F[i - 1] \in Rounds
    BY <1>11, <2>1
  <2>3. F[i] = NextDigit(F[i - 1], i)
    BY <1>11, <2>2 DEF step, RoundSteps
  <2> QED
    BY <1>4, <2>2, <2>3
<1>13. RoundsAre(F, n, data, Digits(data))
  BY <1>1, <1>2, <1>11, <1>12 DEF RoundsAre
<1> QED
  BY <1>13 DEF n

\* After k rounds: what is left to divide, and what the digits so far read as.
AfterRounds(st, k, data) ==
  /\ st \in Rounds
  /\ Len(st.value) <= Len(data)
  /\ st.value = <<>> \/ Left(st.value) <= 2 * Len(data) - k
  /\ \E t : DigitsRead(t, st.digits, Padded(st.value, Len(data)), Padded(data, Len(data)))

\* A round keeps that.
LEMMA RoundKeeps ==
  ASSUME NEW data \in Seq(Byte), NEW k \in Nat, NEW st, NEW u,
         AfterRounds(st, k, data), RoundIs(st, u)
  PROVE  AfterRounds(u, k + 1, data)
<1> DEFINE n == Len(data)
<1>0. n \in Nat /\ st.value \in Seq(Byte) /\ st.digits \in Seq(Digit) /\ Len(st.value) \in Nat
  BY DEF AfterRounds, Rounds
<1>1. CASE st.value = <<>>
  BY <1>1 DEF RoundIs, AfterRounds
<1>2. CASE st.value # <<>>
  <2>1. /\ u \in Rounds /\ Len(u.value) <= Len(st.value) /\ Left(u.value) < Left(st.value)
        /\ Len(st.value) <= n /\ Left(st.value) <= 2 * n - k
    BY <1>2 DEF RoundIs, AfterRounds
  <2>2. PICK d \in Digit : /\ u.digits = <<d>> \o st.digits
                           /\ \A m \in Nat : Len(st.value) <= m =>
                                TakeDigit(Padded(u.value, m), d) = Padded(st.value, m)
    BY <1>2 DEF RoundIs
  <2>3. PICK t : DigitsRead(t, st.digits, Padded(st.value, n), Padded(data, n))
    BY DEF AfterRounds
  <2>4. TakeDigit(Padded(u.value, n), d) = Padded(st.value, n)
    BY <1>0, <2>1, <2>2
  <2>5. \E s : DigitsRead(s, u.digits, Padded(u.value, n), Padded(data, n))
    BY <1>0, <2>2, <2>3, <2>4, ReadsOneMore
  <2>6. Len(u.value) \in Nat /\ u.value \in Seq(Byte)
    BY <2>1 DEF Rounds
  <2>7. Left(u.value) \in Int /\ Left(st.value) \in Int
    BY <1>0, <2>6 DEF Left
  <2>8. Len(u.value) <= n /\ Left(u.value) <= 2 * n - (k + 1)
    <3> HIDE DEF n
    <3> QED
      BY <1>0, <2>1, <2>6, <2>7
  <2> QED
    BY <2>1, <2>5, <2>8 DEF AfterRounds
<1> QED
  BY <1>1, <1>2

\* The digits read back as the value they were made of.
LEMMA DigitsReadBack ==
  ASSUME NEW data \in Seq(Byte)
  PROVE  ReadBase62(Digits(data), Len(data)) = data
<1> DEFINE n == Len(data)
           m == 2 * n
<1>0. n \in Nat /\ m \in Nat
  OBVIOUS
<1>1. PICK F : RoundsAre(F, m, data, Digits(data))
  BY DigitsFold
<1> DEFINE S == {k \in Nat : k <= m => AfterRounds(F[k], k, data)}
<1>2. Padded(data, n) = data
  <2>1. \A i \in 1..n : ~(i <= n - n) /\ i - (n - n) = i
    BY <1>0
  <2>2. Padded(data, n) = [i \in 1..n |-> data[i]]
    BY <2>1 DEF Padded
  <2>3. data = [i \in 1..n |-> data[i]]
    OBVIOUS
  <2> QED
    BY <2>2, <2>3
<1>3. 0 \in S
  <2>1. F[0].value = data /\ F[0].digits = <<>> /\ F[0] \in Rounds
    BY <1>0, <1>1 DEF RoundsAre
  <2> DEFINE t == [j \in 0..0 |-> data]
  <2>2. DigitsRead(t, <<>>, Padded(data, n), Padded(data, n))
    <3>1. t[0] = data /\ Len(<<>>) = 0 /\ t = [j \in 0..0 |-> t[j]]
      OBVIOUS
    <3> HIDE DEF t
    <3> QED
      BY <1>2, <3>1 DEF DigitsRead
  <2>3. Left(data) <= m - 0
    <3>1. Left(data) <= 2 * Len(data)
      BY DEF Left
    <3> QED
      BY <3>1
  <2> HIDE DEF t
  <2> QED
    BY <1>0, <2>1, <2>2, <2>3 DEF AfterRounds
<1> HIDE DEF m
<1>4. ASSUME NEW k \in Nat, k \in S PROVE k + 1 \in S
  <2> SUFFICES ASSUME k + 1 <= m PROVE AfterRounds(F[k + 1], k + 1, data)
    OBVIOUS
  <2>1. k + 1 \in 1..m /\ (k + 1) - 1 = k
    BY <1>0
  <2>2. AfterRounds(F[k], k, data)
    BY <1>0, <1>4
  <2>3. RoundIs(F[k], F[k + 1])
    BY <1>1, <2>1 DEF RoundsAre
  <2> QED
    BY <2>2, <2>3, RoundKeeps
<1>5. AfterRounds(F[m], m, data)
  <2>1. m \in S
    <3> HIDE DEF S
    <3> QED
      BY <1>0, <1>3, <1>4, SetInduction
  <2> QED
    BY <1>0, <2>1
<1>6. F[m].value = <<>>
  <2> DEFINE v == F[m].value
  <2>1. v \in Seq(Byte) /\ (v = <<>> \/ Left(v) <= 2 * n - m)
    BY <1>5 DEF AfterRounds, Rounds
  <2> HIDE DEF v
  <2>2. v # <<>> => Len(v) \in Nat /\ Len(v) >= 1
    BY <2>1
  <2>3. v # <<>> => Left(v) >= 1 /\ Left(v) \in Int
    BY <2>2 DEF Left
  <2>4. 2 * n - m = 0
    BY <1>0 DEF m
  <2> QED
    BY <2>1, <2>3, <2>4 DEF v
<1>7. Padded(<<>>, n) = [i \in 1..n |-> 0]
  <2>1. \A i \in 1..n : i <= n - Len(<<>>)
    BY <1>0
  <2> QED
    BY <2>1 DEF Padded
<1>8. PICK t : DigitsRead(t, Digits(data), [i \in 1..n |-> 0], data)
  <2>1. F[m].digits = Digits(data)
    BY <1>1 DEF RoundsAre
  <2> QED
    BY <1>2, <1>5, <1>6, <1>7, <2>1 DEF AfterRounds
<1>9. Digits(data) \in Seq(Digit)
  BY <1>1, <1>5 DEF AfterRounds, RoundsAre, Rounds
<1> QED
  BY <1>0, <1>8, <1>9, ReadIs

\* Zeros read as nothing.
LEMMA ZerosReadBack ==
  ASSUME NEW k \in Nat, NEW n \in Nat
  PROVE  ReadBase62([i \in 1..k |-> 0], n) = [i \in 1..n |-> 0]
<1> DEFINE zeros == [i \in 1..n |-> 0]
           digits == [i \in 1..k |-> 0]
           t == [j \in 0..k |-> zeros]
<1>1. TakeDigit(zeros, 0) = zeros
  <2> DEFINE R == [i \in 0..0 |-> 0]
  <2>1. DivisionIs(R, <<>>, <<>>, 0)
    <3>1. R \in [0..0 -> Digit] /\ R[0] = 0 /\ Len(<<>>) = 0 /\ <<>> \in Seq(Byte)
      BY DEF Digit
    <3> HIDE DEF R
    <3> QED
      BY <3>1 DEF DivisionIs
  <2>2. Padded(<<>>, n) = zeros
    <3>1. \A i \in 1..n : i <= n - Len(<<>>)
      OBVIOUS
    <3> QED
      BY <3>1 DEF Padded
  <2> DEFINE none == <<>>
  <2>3. none \in Seq(Byte) /\ Len(none) <= n
    OBVIOUS
  <2>4. DivisionIs(R, none, none, 0)
    BY <2>1
  <2> HIDE DEF R, zeros, none
  <2>5. TakeDigit(Padded(none, n), 0) = Padded(none, n)
    BY <2>3, <2>4, TakeDigitBack
  <2> QED
    BY <2>2, <2>5 DEF none
<1>2. digits \in Seq(Digit) /\ Len(digits) = k /\ \A i \in 1..k : digits[i] = 0
  BY DEF Digit
<1>3. t = [j \in 0..k |-> t[j]] /\ \A j \in 0..k : t[j] = zeros
  OBVIOUS
<1>4. 0 \in 0..k /\ k \in 0..k /\ \A j \in 1..k : j \in 0..k /\ j - 1 \in 0..k
  OBVIOUS
<1> HIDE DEF t, zeros, digits
<1>5. DigitsRead(t, digits, zeros, zeros)
  BY <1>1, <1>2, <1>3, <1>4 DEF DigitsRead
<1> QED
  BY <1>2, <1>5, ReadIs DEF zeros, digits

\* What encode_base62 makes of any bytes reads back.
LEMMA EncodeReadsBack ==
  ASSUME NEW data \in Seq(Byte)
  PROVE  ReadBase62(EncodeBase62(data), Len(data)) = data
<1> DEFINE n == Len(data)
<1>0. n \in Nat /\ DOMAIN data = 1..n /\ data = [i \in 1..n |-> data[i]]
  OBVIOUS
<1>1. CASE data = <<>>
  <2>1. EncodeBase62(data) = [i \in 1..0 |-> 0] /\ n = 0 /\ data = [i \in 1..0 |-> 0]
    BY <1>1 DEF EncodeBase62
  <2>2. ReadBase62([i \in 1..0 |-> 0], 0) = [i \in 1..0 |-> 0]
    BY ZerosReadBack
  <2> QED
    BY <2>1, <2>2
<1>2. CASE data # <<>> /\ \A i \in 1..n : data[i] = 0
  <2>1. EncodeBase62(data) = [i \in 1..n + 1 |-> 0]
    BY <1>0, <1>2 DEF EncodeBase62
  <2>2. data = [i \in 1..n |-> 0]
    BY <1>0, <1>2
  <2> HIDE DEF n
  <2>3. ReadBase62([i \in 1..n + 1 |-> 0], n) = [i \in 1..n |-> 0]
    <3> DEFINE k == n + 1
    <3>1. k \in Nat
      BY <1>0
    <3> HIDE DEF k
    <3>2. ReadBase62([i \in 1..k |-> 0], n) = [i \in 1..n |-> 0]
      BY <1>0, <3>1, ZerosReadBack
    <3> QED
      BY <3>2 DEF k
  <2> QED
    BY <2>1, <2>2, <2>3 DEF n
<1>3. CASE data # <<>> /\ ~(\A i \in 1..n : data[i] = 0)
  <2>1. EncodeBase62(data) = Digits(data)
    BY <1>0, <1>3 DEF EncodeBase62
  <2> QED
    BY <2>1, DigitsReadBack
<1> QED
  BY <1>1, <1>2, <1>3

\* The digits of an identifier (compute_key_identifier, mkey-core/src/command/justin.rs)
\* give back the first eight bytes of the key id and the checksum of all of it, and
\* encode_base62 loses nothing of any bytes, whatever they begin with: two key ids
\* share an identifier only if they agree in those eight bytes and in that checksum.
THEOREM IdentifierComesBack == Spec => []IdentifierReadsBack
<1>1. CodecInv => IdentifierReadsBack
  <2> SUFFICES ASSUME CodecInv PROVE IdentifierReadsBack
    OBVIOUS
  <2>1. input \in Seq(Byte) /\ Len(input) \in Nat
    BY DEF CodecInv
  <2>2. ReadBase62(EncodeBase62(input), Len(input)) = input
    BY <2>1, EncodeReadsBack
  <2>3. ASSUME Len(input) >= 8
        PROVE  ReadBase62(ComputeKeyIdentifier(input), 10) = SubSeq(input, 1, 8) \o Crc16Hasher(input)
    <3> DEFINE front == SubSeq(input, 1, 8)
               crc   == Crc16Hasher(input)
    <3>1. front \in Seq(Byte) /\ Len(front) = 8
      BY <2>1, <2>3
    <3>2. crc \in Seq(Byte) /\ Len(crc) = 2
      BY <2>1, ChecksumsOfBytes
    <3> HIDE DEF front, crc
    <3>3. front \o crc \in Seq(Byte) /\ Len(front \o crc) = 10
      <4>1. front \o crc \in Seq(Byte)
        BY <3>1, <3>2, ConcatProperties
      <4>2. Len(front \o crc) = Len(front) + Len(crc)
        BY <3>1, <3>2, ConcatProperties
      <4> QED
        BY <3>1, <3>2, <4>1, <4>2
    <3>4. ReadBase62(EncodeBase62(front \o crc), 10) = front \o crc
      BY <3>3, EncodeReadsBack
    <3> QED
      BY <3>4 DEF ComputeKeyIdentifier, front, crc
  <2> QED
    BY <2>2, <2>3 DEF IdentifierReadsBack
<1> QED
  BY <1>1, InputIsBytes, PTL
=============================================================================
