-------------------------- MODULE ToString_proofs --------------------------
(***************************************************************************)
(* Proofs about ToString, for values of any length.                        *)
(*                                                                         *)
(* What Read computes is defined by recursion over a text.  The inductions *)
(* over texts and places are done as searches for a least counterexample:  *)
(* each nonempty set of numbers has a least element (LeastNumber).         *)
(***************************************************************************)
EXTENDS ToString, TLAPS, WellFoundedInduction, SequenceTheorems

\* Induction on the natural numbers, in the form of their well-ordering.
LEMMA LeastNumber ==
    ASSUME NEW T \in SUBSET Nat, T # {}
    PROVE  \E n \in T : \A m \in T : n <= m
  <1>1. PICK n \in T : \A m \in T : ~(<<m, n>> \in OpToRel(<, Nat))
    BY NatLessThanWellFounded, WFMin
  <1>2. \A m \in T : ~(m < n)
    BY <1>1 DEF OpToRel
  <1> QED
    BY <1>2

\* r reads the first n characters of body, one after the other.
Reads(r, body, n) ==
    r = [i \in 0..n |-> IF i = 0 THEN Unread ELSE ReadChar(r[i - 1], body[i])]

\* There is a reading of any number of characters.
LEMMA ReadingExists ==
    ASSUME NEW body
    PROVE  \A n \in Nat : \E r : Reads(r, body, n)
  <1> DEFINE T == {n \in Nat : ~ \E r : Reads(r, body, n)}
  <1> SUFFICES ASSUME T # {} PROVE FALSE
    OBVIOUS
  <1>1. PICK n \in T : \A m \in T : n <= m
    BY LeastNumber
  <1>2. CASE n = 0
    <2> DEFINE r == [i \in 0..0 |-> Unread]
    <2>1. \A i \in 0..0 : i = 0
      OBVIOUS
    <2>2. r = [i \in 0..0 |-> IF i = 0 THEN Unread ELSE ReadChar(r[i - 1], body[i])]
      BY <2>1
    <2> QED
      BY <1>2, <2>2 DEF Reads
  <1>3. CASE n > 0
    <2>1. n - 1 \in Nat /\ n - 1 \notin T
      BY <1>1, <1>3
    <2>2. PICK s : Reads(s, body, n - 1)
      BY <2>1
    <2> DEFINE r == [i \in 0..n |-> IF i = n THEN ReadChar(s[n - 1], body[n]) ELSE s[i]]
    <2>3. \A i \in 0..n : r[i] = IF i = 0 THEN Unread ELSE ReadChar(r[i - 1], body[i])
      <3> SUFFICES ASSUME NEW i \in 0..n
                   PROVE  r[i] = IF i = 0 THEN Unread ELSE ReadChar(r[i - 1], body[i])
        OBVIOUS
      <3>1. CASE i = n
        <4>1. r[i] = ReadChar(s[n - 1], body[n]) /\ n - 1 \in 0..n /\ r[n - 1] = s[n - 1]
          BY <3>1, <1>3
        <4> QED
          BY <4>1, <3>1, <1>3
      <3>2. CASE i # n
        <4>1. i \in 0..(n - 1) /\ r[i] = s[i]
          BY <3>2
        <4>2. s[i] = IF i = 0 THEN Unread ELSE ReadChar(s[i - 1], body[i])
          BY <4>1, <2>2 DEF Reads
        <4>3. i > 0 => r[i - 1] = s[i - 1]
          BY <4>1
        <4> QED
          BY <4>1, <4>2, <4>3
      <3> QED
        BY <3>1, <3>2
    <2> HIDE DEF r
    <2>4. r = [i \in 0..n |-> r[i]]
      BY DEF r
    <2>5. r = [i \in 0..n |-> IF i = 0 THEN Unread ELSE ReadChar(r[i - 1], body[i])]
      BY <2>3, <2>4
    <2> QED
      BY <2>5 DEF Reads
  <1> QED
    BY <1>1, <1>2, <1>3

\* Read is where the reading of the whole body gets to.
LEMMA ReadIsReading ==
    ASSUME NEW body \in Seq(Chars)
    PROVE  \E r : Reads(r, body, Len(body)) /\ Read(body) = r[Len(body)]
  <1> DEFINE read == CHOOSE r : r = [i \in 0..Len(body) |-> IF i = 0 THEN Unread
                                                           ELSE ReadChar(r[i - 1], body[i])]
  <1>1. PICK r : Reads(r, body, Len(body))
    BY ReadingExists
  <1>2. read = [i \in 0..Len(body) |-> IF i = 0 THEN Unread ELSE ReadChar(read[i - 1], body[i])]
    BY <1>1, Zenon DEF Reads
  <1>3. Read(body) = read[Len(body)]
    BY Zenon DEF Read
  <1> QED
    BY <1>2, <1>3, Zenon DEF Reads

\* Two readings of texts that begin alike agree that far.
LEMMA ReadingUnique ==
    ASSUME NEW b, NEW c, NEW m \in Nat, NEW n \in Nat, m <= n,
           NEW r, NEW s, Reads(r, b, m), Reads(s, c, n), \A i \in 1..m : b[i] = c[i]
    PROVE  r[m] = s[m]
  <1> DEFINE T == {i \in 0..m : r[i] # s[i]}
  <1> SUFFICES ASSUME T # {} PROVE FALSE
    OBVIOUS
  <1>1. PICK i \in T : \A j \in T : i <= j
    <2>1. T \in SUBSET Nat
      OBVIOUS
    <2> HIDE DEF T
    <2> QED
      BY <2>1, LeastNumber
  <1>2. /\ r[i] = IF i = 0 THEN Unread ELSE ReadChar(r[i - 1], b[i])
        /\ s[i] = IF i = 0 THEN Unread ELSE ReadChar(s[i - 1], c[i])
    BY DEF Reads
  <1>3. i > 0 => i - 1 \in 0..m /\ i - 1 \notin T
    BY <1>1
  <1> QED
    BY <1>2, <1>3

\* The values a reading takes.
Readings == [text : Seq(Chars), half : BOOLEAN, ok : BOOLEAN]

\* A character more leaves a reading in its type.
LEMMA ReadCharType ==
    ASSUME NEW r \in Readings, NEW c \in Chars
    PROVE  ReadChar(r, c) \in Readings
  <1>1. Quote \in Chars
    BY DEF Chars
  <1>2. /\ r.text \in Seq(Chars) /\ r.half \in BOOLEAN /\ r.ok \in BOOLEAN
        /\ r = [text |-> r.text, half |-> r.half, ok |-> r.ok]
    BY DEF Readings
  <1>3. CASE r.half
    <2>1. Append(r.text, Quote) \in Seq(Chars) /\ (r.ok /\ c = Quote) \in BOOLEAN
      BY <1>1, <1>2
    <2> QED
      BY <1>3, <2>1 DEF ReadChar, Readings
  <1>4. CASE ~r.half /\ c = Quote
    BY <1>2, <1>4 DEF ReadChar, Readings
  <1>5. CASE ~r.half /\ c # Quote
    <2>1. Append(r.text, c) \in Seq(Chars)
      BY <1>2
    <2> QED
      BY <1>2, <1>5, <2>1 DEF ReadChar, Readings
  <1> QED
    BY <1>2, <1>3, <1>4, <1>5

\* Nothing read yet is in it, too.
LEMMA UnreadType == Unread \in Readings
  BY DEF Unread, Readings

\* So is every step of a reading.
LEMMA ReadingType ==
    ASSUME NEW body \in Seq(Chars), NEW r, Reads(r, body, Len(body))
    PROVE  \A i \in 0..Len(body) : r[i] \in Readings
  <1> DEFINE T == {i \in 0..Len(body) : r[i] \notin Readings}
  <1> SUFFICES ASSUME T # {} PROVE FALSE
    OBVIOUS
  <1>1. PICK i \in T : \A j \in T : i <= j
    <2>1. T \in SUBSET Nat
      OBVIOUS
    <2> HIDE DEF T
    <2> QED
      BY <2>1, LeastNumber
  <1>2. r[i] = IF i = 0 THEN Unread ELSE ReadChar(r[i - 1], body[i])
    BY DEF Reads
  <1>3. i > 0 => i - 1 \in 0..Len(body) /\ i - 1 \notin T /\ body[i] \in Chars
    BY <1>1
  <1> QED
    BY <1>2, <1>3, ReadCharType, UnreadType

\* So is what Read returns.
LEMMA ReadType ==
    ASSUME NEW body \in Seq(Chars)
    PROVE  Read(body) \in Readings
  <1>1. Len(body) \in 0..Len(body)
    OBVIOUS
  <1> QED
    BY <1>1, ReadIsReading, ReadingType

\* The empty body reads as nothing.
LEMMA ReadNothing == Read(<<>>) = Unread
  <1>1. <<>> \in Seq(Chars) /\ Len(<<>>) = 0
    OBVIOUS
  <1>2. PICK r : Reads(r, <<>>, 0) /\ Read(<<>>) = r[0]
    BY <1>1, ReadIsReading
  <1> QED
    BY <1>2 DEF Reads

\* Read goes from left to right, a character at a time.
LEMMA ReadAppend ==
    ASSUME NEW body \in Seq(Chars), NEW c \in Chars
    PROVE  Read(Append(body, c)) = ReadChar(Read(body), c)
  <1> DEFINE longer == Append(body, c)
             n == Len(body)
  <1>1. /\ longer \in Seq(Chars) /\ Len(longer) = n + 1 /\ n \in Nat
        /\ longer[n + 1] = c /\ \A i \in 1..n : body[i] = longer[i]
    OBVIOUS
  <1> HIDE DEF longer, n
  <1>2. PICK r : Reads(r, body, n) /\ Read(body) = r[n]
    BY ReadIsReading DEF n
  <1>3. PICK s : Reads(s, longer, n + 1) /\ Read(longer) = s[n + 1]
    BY <1>1, ReadIsReading
  <1>4. r[n] = s[n]
    BY <1>1, <1>2, <1>3, ReadingUnique
  <1>5. s[n + 1] = ReadChar(s[n], c)
    BY <1>1, <1>3 DEF Reads
  <1> QED
    BY <1>2, <1>3, <1>4, <1>5 DEF longer

\* An empty body denotes the empty text.
LEMMA DenotesNothing == Denotes(<<>>, <<>>)
  BY ReadNothing DEF Denotes, Unread

\* A character that is no quote denotes itself.
LEMMA DenotesPlain ==
    ASSUME NEW body \in Seq(Chars), NEW text \in Seq(Chars), NEW c \in Chars,
           Denotes(body, text), c # Quote
    PROVE  Denotes(Append(body, c), Append(text, c))
  <1>1. Read(body) \in Readings /\ Read(Append(body, c)) = ReadChar(Read(body), c)
    BY ReadType, ReadAppend
  <1> DEFINE r == Read(body)
  <1>2. r \in Readings /\ r.ok /\ ~r.half /\ r.text = text
    BY <1>1 DEF Denotes
  <1> HIDE DEF r
  <1>3. ReadChar(r, c) = [text |-> Append(text, c), half |-> r.half, ok |-> r.ok]
    BY <1>2 DEF ReadChar, Readings
  <1> QED
    BY <1>1, <1>2, <1>3 DEF Denotes, r

\* Two quotes denote one.
LEMMA DenotesQuote ==
    ASSUME NEW body \in Seq(Chars), NEW text \in Seq(Chars), Denotes(body, text)
    PROVE  Denotes(Append(Append(body, Quote), Quote), Append(text, Quote))
  <1> DEFINE r == Read(body)
  <1>1. Quote \in Chars
    BY DEF Chars
  <1>2. Append(body, Quote) \in Seq(Chars) /\ r \in Readings
    BY <1>1, ReadType
  <1>6. Read(Append(Append(body, Quote), Quote)) = ReadChar(ReadChar(r, Quote), Quote)
    BY <1>1, <1>2, ReadAppend
  <1>3. r.ok /\ ~r.half /\ r.text = text
    BY DEF Denotes
  <1> HIDE DEF r
  <1> DEFINE h == ReadChar(r, Quote)
  <1>4. h.half /\ h.ok /\ h.text = text
    BY <1>2, <1>3 DEF ReadChar, Readings
  <1> HIDE DEF h
  <1>5. ReadChar(h, Quote) = [text |-> Append(text, Quote), half |-> FALSE,
                              ok |-> h.ok /\ Quote = Quote]
    BY <1>4 DEF ReadChar
  <1> DEFINE twice == Read(Append(Append(body, Quote), Quote))
  <1>7. twice = [text |-> Append(text, Quote), half |-> FALSE, ok |-> h.ok]
    BY <1>4, <1>5, <1>6 DEF h
  <1> HIDE DEF twice
  <1>8. twice.ok /\ ~twice.half /\ twice.text = Append(text, Quote)
    BY <1>4, <1>7
  <1> QED
    BY <1>8 DEF Denotes, twice

\* The prefixes of a sequence grow by its elements.
LEMMA PrefixGrows ==
    ASSUME NEW e \in Seq(Chars), NEW m \in Nat, m < Len(e)
    PROVE  /\ SubSeq(e, 1, m) \in Seq(Chars)
           /\ e[m + 1] \in Chars
           /\ SubSeq(e, 1, m + 1) = Append(SubSeq(e, 1, m), e[m + 1])
  OBVIOUS

\* A run of n characters without a quote denotes itself.
LEMMA DenotesRun ==
    ASSUME NEW e \in Seq(Chars), NEW v \in Seq(Chars), NEW m \in Nat, NEW k \in Nat,
           NEW n \in Nat, m + n <= Len(e), k + n <= Len(v),
           Denotes(SubSeq(e, 1, m), SubSeq(v, 1, k)),
           \A i \in 1..n : e[m + i] = v[k + i] /\ e[m + i] # Quote
    PROVE  Denotes(SubSeq(e, 1, m + n), SubSeq(v, 1, k + n))
  <1> DEFINE Upto(i) == Denotes(SubSeq(e, 1, m + i), SubSeq(v, 1, k + i))
             T == {i \in 0..n : ~Upto(i)}
  <1>a. Upto(0)
    OBVIOUS
  <1>b. Upto(n) => Denotes(SubSeq(e, 1, m + n), SubSeq(v, 1, k + n))
    OBVIOUS
  <1> HIDE DEF Upto
  <1> SUFFICES ASSUME T # {} PROVE FALSE
    <2>1. n \in 0..n
      OBVIOUS
    <2> QED
      BY <1>b, <2>1
  <1>1. PICK i \in T : \A j \in T : i <= j
    <2>1. T \in SUBSET Nat
      OBVIOUS
    <2> HIDE DEF T
    <2> QED
      BY <2>1, LeastNumber
  <1>2. i # 0
    BY <1>a, <1>1
  <1>3. i \in 1..n /\ i - 1 \in 0..n /\ i - 1 \notin T
    <2>1. i \in 0..n
      BY <1>1
    <2>2. i \in 1..n /\ i - 1 \in 0..n /\ ~(i <= i - 1)
      BY <1>2, <2>1
    <2> HIDE DEF T
    <2> QED
      BY <1>1, <2>2
  <1> DEFINE body == SubSeq(e, 1, m + (i - 1))
             text == SubSeq(v, 1, k + (i - 1))
  <1>4. Denotes(body, text)
    BY <1>3 DEF Upto
  <1>5. e[m + i] = v[k + i] /\ e[m + i] # Quote
    BY <1>3
  <1>6. /\ body \in Seq(Chars) /\ e[m + i] \in Chars
        /\ SubSeq(e, 1, m + i) = Append(body, e[m + i])
    <2>1. m + (i - 1) \in Nat /\ m + (i - 1) < Len(e) /\ m + (i - 1) + 1 = m + i
      BY <1>3
    <2> QED
      BY <2>1, PrefixGrows
  <1>7. text \in Seq(Chars) /\ SubSeq(v, 1, k + i) = Append(text, v[k + i])
    <2>1. k + (i - 1) \in Nat /\ k + (i - 1) < Len(v) /\ k + (i - 1) + 1 = k + i
      BY <1>3
    <2> QED
      BY <2>1, PrefixGrows
  <1> HIDE DEF body, text
  <1>8. Upto(i)
    BY <1>4, <1>5, <1>6, <1>7, DenotesPlain DEF Upto
  <1> QED
    BY <1>1, <1>8

-----------------------------------------------------------------------------
Brackets == {"[", "]"}

Bracketed(s) == \E c \in Brackets : Contains(s, c)

\* Up to pos the copy denotes the first k characters of the value, and from pos
\* on it is the rest of the value, not touched yet.
Halfway(k) ==
    /\ Len(escaped) + 1 - pos = Len(value) - k
    /\ Denotes(SubSeq(escaped, 1, pos - 1), SubSeq(value, 1, k))
    /\ \A i \in 1..(Len(value) - k) : escaped[pos - 1 + i] = value[k + i]

TextInv ==
    /\ TextTypeOK
    /\ pass = Quote => \E k \in 0..Len(value) : Halfway(k)
    /\ Bracketed(escaped) => Bracketed(value)
    /\ pass \in Brackets => IsLikePattern
    /\ pass # Quote /\ ~(IsLikePattern /\ Bracketed(value)) => Denotes(escaped, value)

\* At first nothing is escaped, and the copy is the value.
LEMMA TextInitInv == TextInit => TextInv
  <1> SUFFICES ASSUME TextInit PROVE TextInv
    OBVIOUS
  <1>1. value \in Seq(Chars) /\ escaped = value /\ pos = 1 /\ pass = Quote
    BY MaxLenAssumption DEF TextInit, SeqOf
  <1>2. TextTypeOK
    BY <1>1 DEF TextTypeOK
  <1>3. Halfway(0)
    <2>1. SubSeq(value, 1, 0) = <<>> /\ SubSeq(escaped, 1, 1 - 1) = <<>>
      BY <1>1
    <2> QED
      <3>1. Denotes(SubSeq(escaped, 1, pos - 1), SubSeq(value, 1, 0))
        BY <1>1, <2>1, DenotesNothing
      <3>2. Len(escaped) + 1 - pos = Len(value) - 0
        BY <1>1
      <3>3. \A i \in 1..(Len(value) - 0) : escaped[pos - 1 + i] = value[0 + i]
        BY <1>1
      <3> QED
        BY <3>1, <3>2, <3>3 DEF Halfway
  <1>4. 0 \in 0..Len(value)
    BY <1>1
  <1>5. pass \notin Brackets
    BY <1>1 DEF Brackets, Quote
  <1> QED
    BY <1>1, <1>2, <1>3, <1>4, <1>5 DEF TextInv

\* Replacing one character by others.
LEMMA Replaced ==
    ASSUME NEW e \in Seq(Chars), NEW i \in 1..Len(e), NEW s \in Seq(Chars)
    PROVE  LET f == SubSeq(e, 1, i - 1) \o s \o SubSeq(e, i + 1, Len(e))
           IN  /\ f \in Seq(Chars)
               /\ Len(f) = Len(e) + Len(s) - 1
               /\ \A j \in 1..(i - 1) : f[j] = e[j]
               /\ \A j \in 1..Len(s) : f[i - 1 + j] = s[j]
               /\ \A j \in 1..(Len(e) - i) : f[i + Len(s) - 1 + j] = e[i + j]
               /\ SubSeq(f, 1, i - 1) = SubSeq(e, 1, i - 1)
  <1> DEFINE a == SubSeq(e, 1, i - 1)
             b == SubSeq(e, i + 1, Len(e))
             f == a \o s \o b
  <1>1. a \in Seq(Chars) /\ Len(a) = i - 1 /\ \A j \in 1..(i - 1) : a[j] = e[j]
    OBVIOUS
  <1>2. b \in Seq(Chars) /\ Len(b) = Len(e) - i /\ \A j \in 1..(Len(e) - i) : b[j] = e[i + j]
    OBVIOUS
  <1>3. /\ f \in Seq(Chars) /\ Len(f) = Len(a) + Len(s) + Len(b)
        /\ \A j \in 1..Len(a) : f[j] = a[j]
        /\ \A j \in 1..Len(s) : f[Len(a) + j] = s[j]
        /\ \A j \in 1..Len(b) : f[Len(a) + Len(s) + j] = b[j]
    <2> HIDE DEF a, b, f
    <2>1. a \o s \in Seq(Chars) /\ Len(a \o s) = Len(a) + Len(s)
      BY <1>1
    <2>2. f = (a \o s) \o b
      BY DEF f
    <2> DEFINE g == a \o s
    <2> HIDE DEF g
    <2>a. g \in Seq(Chars) /\ Len(g) = Len(a) + Len(s) /\ f = g \o b
      BY <2>1, <2>2 DEF g
    <2>b. f \in Seq(Chars)
      BY <2>a, <1>2
    <2>c. Len(f) = Len(g) + Len(b)
      BY <2>a, <1>2, ConcatProperties
    <2>3. f \in Seq(Chars) /\ Len(f) = Len(a) + Len(s) + Len(b)
      BY <2>a, <2>b, <2>c
    <2>4. \A j \in 1..Len(a) : f[j] = (a \o s)[j] /\ (a \o s)[j] = a[j]
      BY <1>1, <1>2, <2>1, <2>2
    <2>5. \A j \in 1..Len(s) : f[Len(a) + j] = (a \o s)[Len(a) + j]
                                /\ (a \o s)[Len(a) + j] = s[j]
      BY <1>1, <1>2, <2>1, <2>2
    <2>6. \A j \in 1..Len(b) : f[Len(a) + Len(s) + j] = b[j]
      <3>1. \A j \in 1..Len(b) : f[Len(a \o s) + j] = b[j]
        BY <1>2, <2>1, <2>2
      <3> QED
        BY <2>1, <3>1
    <2> QED
      BY <2>3, <2>4, <2>5, <2>6
  <1> HIDE DEF b
  <1>4. SubSeq(f, 1, i - 1) = a
    <2> HIDE DEF a, f
    <2> QED
      BY <1>1, <1>3
  <1> HIDE DEF a, f
  <1>5. /\ f \in Seq(Chars)
        /\ Len(f) = Len(e) + Len(s) - 1
        /\ \A j \in 1..(i - 1) : f[j] = e[j]
        /\ \A j \in 1..Len(s) : f[i - 1 + j] = s[j]
        /\ \A j \in 1..(Len(e) - i) : f[i + Len(s) - 1 + j] = e[i + j]
    BY <1>1, <1>2, <1>3
  <1> QED
    BY <1>4, <1>5 DEF a, b, f

\* Doubling the next quote: the characters up to it denote themselves, and the
\* two quotes the one.
LEMMA DoubleQuoteStep ==
    ASSUME TextInv, DoubleQuote
    PROVE  TextInv'
  <1>1. pass = Quote /\ value' = value /\ pass' = pass
    BY DEF DoubleQuote, Substitute
  <1>2. PICK i \in Found(Quote) :
          /\ \A j \in Found(Quote) : i <= j
          /\ escaped' = SubSeq(escaped, 1, i - 1) \o <<Quote, Quote>>
                          \o SubSeq(escaped, i + 1, Len(escaped))
          /\ pos' = i + 2
    BY DEF DoubleQuote, Substitute
  <1>3. /\ value \in Seq(Chars) /\ escaped \in Seq(Chars) /\ Len(escaped) \in Nat
        /\ pos \in 1..(Len(escaped) + 1) /\ Len(value) \in Nat
    BY DEF TextInv, TextTypeOK
  <1>4. i \in pos..Len(escaped) /\ i \in 1..Len(escaped) /\ escaped[i] = Quote
    BY <1>3 DEF Found
  <1>5. Quote \in Chars /\ <<Quote, Quote>> \in Seq(Chars) /\ Len(<<Quote, Quote>>) = 2
        /\ \A j \in 1..2 : <<Quote, Quote>>[j] = Quote
    BY DEF Chars
  <1>6. /\ escaped' \in Seq(Chars)
        /\ Len(escaped') = Len(escaped) + 1
        /\ \A j \in 1..(i - 1) : escaped'[j] = escaped[j]
        /\ \A j \in 1..2 : escaped'[i - 1 + j] = Quote
        /\ \A j \in 1..(Len(escaped) - i) : escaped'[i + 1 + j] = escaped[i + j]
        /\ SubSeq(escaped', 1, i - 1) = SubSeq(escaped, 1, i - 1)
    <2> DEFINE s == <<Quote, Quote>>
    <2>1. s \in Seq(Chars) /\ Len(s) = 2 /\ \A j \in 1..2 : s[j] = Quote
      BY <1>5
    <2>2. escaped' = SubSeq(escaped, 1, i - 1) \o s \o SubSeq(escaped, i + 1, Len(escaped))
      BY <1>2
    <2> HIDE DEF s
    <2>3. /\ escaped' \in Seq(Chars)
          /\ Len(escaped') = Len(escaped) + Len(s) - 1
          /\ \A j \in 1..(i - 1) : escaped'[j] = escaped[j]
          /\ \A j \in 1..Len(s) : escaped'[i - 1 + j] = s[j]
          /\ \A j \in 1..(Len(escaped) - i) : escaped'[i + Len(s) - 1 + j] = escaped[i + j]
          /\ SubSeq(escaped', 1, i - 1) = SubSeq(escaped, 1, i - 1)
      BY <1>3, <1>4, <2>1, <2>2, Replaced
    <2> QED
      BY <1>3, <1>4, <2>1, <2>3
  <1>7. PICK k \in 0..Len(value) : Halfway(k)
    BY <1>1 DEF TextInv
  <1>n. PICK n \in Nat : n = i - pos
    BY <1>3, <1>4
  <1>8. /\ n \in Nat /\ pos - 1 \in Nat /\ pos - 1 + n = i - 1 /\ i - 1 <= Len(escaped)
        /\ k + n < Len(value) /\ k \in Nat /\ Len(escaped) + 1 - pos = Len(value) - k
    BY <1>3, <1>4, <1>7, <1>n DEF Halfway
  <1>9. \A j \in 1..n : escaped[pos - 1 + j] = value[k + j] /\ escaped[pos - 1 + j] # Quote
    <2> SUFFICES ASSUME NEW j \in 1..n
                 PROVE  escaped[pos - 1 + j] = value[k + j] /\ escaped[pos - 1 + j] # Quote
      OBVIOUS
    <2>1. j \in 1..(Len(value) - k) /\ pos - 1 + j \in pos..Len(escaped) /\ pos - 1 + j < i
      BY <1>3, <1>4, <1>8
    <2>2. pos - 1 + j \notin Found(Quote)
      BY <1>2, <1>4, <2>1
    <2> QED
      BY <1>7, <2>1, <2>2 DEF Halfway, Found
  <1>10. value[k + n + 1] = Quote
    <2>1. n + 1 \in 1..(Len(value) - k) /\ pos - 1 + (n + 1) = i /\ k + (n + 1) = k + n + 1
      BY <1>3, <1>4, <1>8
    <2>2. escaped[pos - 1 + (n + 1)] = value[k + (n + 1)]
      BY <1>7, <2>1 DEF Halfway
    <2> QED
      BY <1>4, <2>1, <2>2
  <1>11. Denotes(SubSeq(escaped, 1, i - 1), SubSeq(value, 1, k + n))
    <2>1. Denotes(SubSeq(escaped, 1, pos - 1), SubSeq(value, 1, k))
      BY <1>7 DEF Halfway
    <2> DEFINE m == pos - 1
    <2>3. m \in Nat /\ m + n <= Len(escaped) /\ k + n <= Len(value)
      BY <1>3, <1>8
    <2>4. \A j \in 1..n : escaped[m + j] = value[k + j] /\ escaped[m + j] # Quote
      BY <1>9
    <2>5. Denotes(SubSeq(escaped, 1, m), SubSeq(value, 1, k))
      BY <2>1
    <2> HIDE DEF m
    <2>6. Denotes(SubSeq(escaped, 1, m + n), SubSeq(value, 1, k + n))
      BY <1>3, <1>8, <2>3, <2>4, <2>5, DenotesRun
    <2>2. Denotes(SubSeq(escaped, 1, pos - 1 + n), SubSeq(value, 1, k + n))
      BY <2>6 DEF m
    <2> QED
      BY <1>8, <2>2
  <1>12. Denotes(SubSeq(escaped', 1, i + 1), SubSeq(value, 1, k + n + 1))
    <2> DEFINE body == SubSeq(escaped, 1, i - 1)
               text == SubSeq(value, 1, k + n)
    <2>1. /\ text \in Seq(Chars)
          /\ SubSeq(value, 1, k + n + 1) = Append(text, Quote)
      <3>1. k + n \in Nat
        BY <1>8
      <3> QED
        BY <1>3, <1>8, <1>10, <3>1, PrefixGrows
    <2>2. /\ body \in Seq(Chars)
          /\ SubSeq(escaped', 1, i) = Append(body, Quote)
      <3>1. i - 1 \in Nat /\ i - 1 < Len(escaped') /\ i - 1 + 1 = i /\ escaped'[i] = Quote
        BY <1>3, <1>4, <1>6
      <3>2. SubSeq(escaped', 1, i) = Append(SubSeq(escaped', 1, i - 1), Quote)
        BY <1>6, <3>1, PrefixGrows
      <3>3. SubSeq(escaped, 1, i - 1) \in Seq(Chars)
        BY <1>3, <1>4
      <3> QED
        BY <1>6, <3>2, <3>3
    <2>3. SubSeq(escaped', 1, i + 1) = Append(SubSeq(escaped', 1, i), Quote)
      <3>1. i \in Nat /\ i < Len(escaped') /\ escaped'[i - 1 + 2] = Quote /\ i - 1 + 2 = i + 1
        BY <1>3, <1>4, <1>6
      <3>2. escaped'[i + 1] = Quote
        BY <3>1
      <3> QED
        BY <1>6, <3>1, <3>2, PrefixGrows
    <2>4. Denotes(body, text)
      BY <1>11
    <2> HIDE DEF body, text
    <2> QED
      BY <2>1, <2>2, <2>3, <2>4, DenotesQuote
  <1>13. Halfway(k + n + 1)'
    <2>4. pos' = i + 2 /\ Len(escaped') = Len(escaped) + 1 /\ Len(value') = Len(value)
      BY <1>1, <1>2, <1>6
    <2>1. Len(escaped') + 1 - pos' = Len(value') - (k + n + 1)
      BY <1>3, <1>4, <1>8, <2>4
    <2>2. pos' - 1 = i + 1
      BY <1>2, <1>4
    <2>3. \A j \in 1..(Len(value) - (k + n + 1)) : escaped'[pos' - 1 + j] = value[k + n + 1 + j]
      <3> SUFFICES ASSUME NEW j \in 1..(Len(value) - (k + n + 1))
                   PROVE  escaped'[pos' - 1 + j] = value[k + n + 1 + j]
        OBVIOUS
      <3>1. /\ j \in 1..(Len(escaped) - i) /\ n + 1 + j \in 1..(Len(value) - k)
            /\ pos - 1 + (n + 1 + j) = i + j /\ k + (n + 1 + j) = k + n + 1 + j
        BY <1>3, <1>4, <1>8
      <3>2. escaped[pos - 1 + (n + 1 + j)] = value[k + (n + 1 + j)]
        BY <1>7, <3>1 DEF Halfway
      <3>3. escaped'[i + 1 + j] = escaped[i + j]
        BY <1>6, <3>1
      <3> QED
        BY <2>2, <3>1, <3>2, <3>3
    <2> QED
      BY <1>1, <1>12, <2>1, <2>2, <2>3 DEF Halfway
  <1>14. TextTypeOK'
    <2>2. pos' = i + 2 /\ Len(escaped') = Len(escaped) + 1
      BY <1>2, <1>6
    <2>1. pos' \in 1..(Len(escaped') + 1)
      BY <1>3, <1>4, <2>2
    <2> QED
      BY <1>1, <1>3, <1>6, <2>1 DEF TextTypeOK
  <1>15. Bracketed(escaped') => Bracketed(escaped)
    <2> SUFFICES ASSUME NEW c \in Brackets, NEW p \in 1..Len(escaped'), escaped'[p] = c
                 PROVE  \E q \in 1..Len(escaped) : escaped[q] = c
      BY DEF Bracketed, Contains
    <2>1. c # Quote
      BY DEF Brackets, Quote
    <2>2. CASE p < i
      <3>1. p \in 1..(i - 1) /\ p \in 1..Len(escaped)
        BY <1>3, <1>4, <1>6, <2>2
      <3> QED
        BY <1>6, <3>1
    <2>3. CASE p = i \/ p = i + 1
      <3>1. \E j \in 1..2 : p = i - 1 + j
        BY <2>3, <1>4
      <3> QED
        BY <1>6, <2>1, <3>1
    <2>4. CASE p > i + 1
      <3> DEFINE j == p - (i + 1)
      <3>1. j \in 1..(Len(escaped) - i) /\ i + 1 + j = p /\ i + j \in 1..Len(escaped)
        BY <1>3, <1>4, <1>6, <2>4
      <3> QED
        BY <1>6, <3>1
    <2> QED
      BY <1>3, <1>4, <1>6, <2>2, <2>3, <2>4
  <1>16. pass \notin Brackets /\ k + n + 1 \in 0..Len(value)
    BY <1>1, <1>3, <1>8 DEF Brackets, Quote
  <1> QED
    <2>1. Bracketed(value)' = Bracketed(value) /\ Bracketed(escaped)' = Bracketed(escaped')
      BY <1>1 DEF Bracketed
    <2>2. \E m \in 0..Len(value') : Halfway(m)'
      BY <1>1, <1>13, <1>16
    <2>3. Bracketed(escaped) => Bracketed(value)
      BY DEF TextInv
    <2>4. pass' = Quote /\ pass' \notin Brackets
      BY <1>1, <1>16
    <2> QED
      BY <1>14, <1>15, <2>1, <2>2, <2>3, <2>4 DEF TextInv

\* With no quote left the rest denotes itself, and so the copy the value.
LEMMA QuotesEnd ==
    ASSUME TextInv, NEW next, next = (IF IsLikePattern THEN "[" ELSE "done"), PassEnds(Quote, next)
    PROVE  TextInv'
  <1>1. /\ pass = Quote /\ Found(Quote) = {} /\ pass' = next /\ pos' = 1
        /\ value' = value /\ escaped' = escaped
    BY DEF PassEnds
  <1>2. /\ value \in Seq(Chars) /\ escaped \in Seq(Chars) /\ Len(escaped) \in Nat
        /\ pos \in 1..(Len(escaped) + 1) /\ Len(value) \in Nat
    BY DEF TextInv, TextTypeOK
  <1>3. PICK k \in 0..Len(value) : Halfway(k)
    BY <1>1 DEF TextInv
  <1>n. PICK n \in Nat : n = Len(value) - k
    BY <1>2
  <1>4. /\ n \in Nat /\ k \in Nat /\ pos - 1 \in Nat /\ pos - 1 + n = Len(escaped)
        /\ k + n = Len(value)
    BY <1>2, <1>3, <1>n DEF Halfway
  <1>5. \A j \in 1..n : escaped[pos - 1 + j] = value[k + j] /\ escaped[pos - 1 + j] # Quote
    <2> SUFFICES ASSUME NEW j \in 1..n
                 PROVE  escaped[pos - 1 + j] = value[k + j] /\ escaped[pos - 1 + j] # Quote
      OBVIOUS
    <2>1. pos - 1 + j \in pos..Len(escaped)
      BY <1>2, <1>4
    <2> QED
      BY <1>1, <1>3, <1>n, <2>1 DEF Halfway, Found
  <1>6. Denotes(SubSeq(escaped, 1, pos - 1 + n), SubSeq(value, 1, k + n))
    <2>1. Denotes(SubSeq(escaped, 1, pos - 1), SubSeq(value, 1, k))
      BY <1>3 DEF Halfway
    <2> DEFINE m == pos - 1
    <2>2. m \in Nat /\ m + n <= Len(escaped) /\ k + n <= Len(value)
      BY <1>2, <1>4
    <2>3. \A j \in 1..n : escaped[m + j] = value[k + j] /\ escaped[m + j] # Quote
      BY <1>5
    <2>4. Denotes(SubSeq(escaped, 1, m), SubSeq(value, 1, k))
      BY <2>1
    <2> HIDE DEF m
    <2>5. Denotes(SubSeq(escaped, 1, m + n), SubSeq(value, 1, k + n))
      BY <1>2, <1>4, <2>2, <2>3, <2>4, DenotesRun
    <2> QED
      BY <2>5 DEF m
  <1>7. SubSeq(escaped, 1, Len(escaped)) = escaped /\ SubSeq(value, 1, Len(value)) = value
    BY <1>2
  <1>8. Denotes(escaped, value)
    BY <1>4, <1>6, <1>7
  <1>9. pass' # Quote /\ (pass' \in Brackets => IsLikePattern)
    BY <1>1 DEF Brackets, Quote
  <1>10. TextTypeOK'
    BY <1>1, <1>2 DEF TextInv, TextTypeOK
  <1>11. IsLikePattern' = IsLikePattern
    BY <1>1 DEF IsLikePattern
  <1> QED
    BY <1>1, <1>8, <1>9, <1>10, <1>11 DEF TextInv, Bracketed

\* A pass over the brackets finds one only in a value that had one.
LEMMA BracketStep ==
    ASSUME TextInv, NEW c \in Brackets, NEW s \in Seq(Chars), Len(s) = 3, Substitute(c, s, 3)
    PROVE  TextInv'
  <1>1. pass = c /\ value' = value /\ pass' = pass
    BY DEF Substitute
  <1>2. PICK i \in Found(c) :
          /\ escaped' = SubSeq(escaped, 1, i - 1) \o s \o SubSeq(escaped, i + 1, Len(escaped))
          /\ pos' = i + 3
    BY DEF Substitute
  <1>3. value \in Seq(Chars) /\ escaped \in Seq(Chars) /\ pos \in 1..(Len(escaped) + 1)
        /\ Len(escaped) \in Nat
    BY DEF TextInv, TextTypeOK
  <1>4. i \in 1..Len(escaped) /\ escaped[i] = c
    BY <1>3 DEF Found
  <1>5. escaped' \in Seq(Chars) /\ Len(escaped') = Len(escaped) + 2
    <2>1. escaped' \in Seq(Chars) /\ Len(escaped') = Len(escaped) + Len(s) - 1
      BY <1>2, <1>3, <1>4, Replaced
    <2> QED
      BY <1>3, <2>1
  <1>6. TextTypeOK'
    <2>3. pos' = i + 3 /\ Len(escaped') = Len(escaped) + 2
      BY <1>2, <1>5
    <2>1. pos' \in 1..(Len(escaped') + 1)
      BY <1>3, <1>4, <2>3
    <2>2. pass' \in {"[", "]"}
      BY <1>1 DEF Brackets
    <2> QED
      BY <1>1, <1>3, <1>5, <2>1, <2>2 DEF TextTypeOK
  <1>7. Bracketed(value) /\ IsLikePattern /\ pass # Quote
    BY <1>1, <1>4 DEF TextInv, Bracketed, Contains, Brackets, Quote
  <1>8. Bracketed(value)' /\ IsLikePattern' /\ pass' # Quote
    BY <1>1, <1>7 DEF Bracketed, IsLikePattern
  <1> QED
    BY <1>6, <1>8 DEF TextInv

\* The end of a pass over the brackets changes nothing but the place.
LEMMA BracketsEnd ==
    ASSUME TextInv, NEW c \in Brackets, NEW next \in {"]", "done"}, PassEnds(c, next)
    PROVE  TextInv'
  <1>1. /\ pass = c /\ pass' = next /\ pos' = 1
        /\ value' = value /\ escaped' = escaped
    BY DEF PassEnds
  <1>2. TextTypeOK'
    BY <1>1 DEF TextInv, TextTypeOK
  <1>3. IsLikePattern /\ pass # Quote /\ pass' # Quote
    BY <1>1 DEF TextInv, Brackets, Quote
  <1>4. IsLikePattern' = IsLikePattern
    BY <1>1 DEF IsLikePattern
  <1> QED
    BY <1>1, <1>2, <1>3, <1>4 DEF TextInv, Bracketed

\* TextInv is inductive.
LEMMA TextStepInv == TextInv /\ [TextNext]_textVars => TextInv'
  <1> SUFFICES ASSUME TextInv, [TextNext]_textVars PROVE TextInv'
    OBVIOUS
  <1>1. CASE DoubleQuote
    BY <1>1, DoubleQuoteStep
  <1>2. CASE PassEnds(Quote, IF IsLikePattern THEN "[" ELSE "done")
    BY <1>2, QuotesEnd
  <1>3. "[" \in Brackets /\ "]" \in Brackets
    BY DEF Brackets
  <1>4. CASE BracketOpen
    <2>1. <<"[", "[", "]">> \in Seq(Chars) /\ Len(<<"[", "[", "]">>) = 3
      BY DEF Chars
    <2> QED
      BY <1>3, <1>4, <2>1, BracketStep DEF BracketOpen
  <1>5. CASE BracketClose
    <2>1. <<"[", "]", "]">> \in Seq(Chars) /\ Len(<<"[", "]", "]">>) = 3
      BY DEF Chars
    <2> QED
      BY <1>3, <1>5, <2>1, BracketStep DEF BracketClose
  <1>6. CASE PassEnds("[", "]")
    BY <1>3, <1>6, BracketsEnd
  <1>7. CASE PassEnds("]", "done")
    BY <1>3, <1>7, BracketsEnd
  <1>8. CASE UNCHANGED textVars
    BY <1>8 DEF textVars, TextInv, TextTypeOK, Halfway, Bracketed, IsLikePattern
  <1> QED
    BY <1>1, <1>2, <1>4, <1>5, <1>6, <1>7, <1>8 DEF TextNext

\* TextInv is invariant.
LEMMA TextInvariant == TextSpec => []TextInv
  BY TextInitInv, TextStepInv, PTL DEF TextSpec

\* The copy stays a text, and the search within it, for values of any length.
THEOREM TextTypes == TextSpec => []TextTypeOK
  <1>1. TextInv => TextTypeOK
    BY DEF TextInv
  <1> QED
    BY <1>1, TextInvariant, PTL

\* As a SQL literal the result denotes the argument, however many quotes it has
\* and wherever they are, unless it is a pattern with brackets in it.
THEOREM TextDenotes == TextSpec => []LiteralDenotes
  <1>1. TextInv => LiteralDenotes
    BY DEF TextInv, LiteralDenotes, Bracketed, Brackets, Quote
  <1> QED
    BY <1>1, TextInvariant, PTL

-----------------------------------------------------------------------------
\* The copy never gets shorter than the value.
Longer == Len(escaped) >= Len(value)

\* A replacement puts at least one character in the place of one.
LEMMA SubstituteLonger ==
    ASSUME TextTypeOK, Longer, NEW c, NEW s \in Seq(Chars), Len(s) >= 1, NEW n, Substitute(c, s, n)
    PROVE  Longer'
  <1>1. PICK i \in Found(c) :
          escaped' = SubSeq(escaped, 1, i - 1) \o s \o SubSeq(escaped, i + 1, Len(escaped))
    BY DEF Substitute
  <1>2. /\ escaped \in Seq(Chars) /\ value \in Seq(Chars) /\ value' = value
        /\ i \in 1..Len(escaped)
    BY DEF TextTypeOK, Found, Substitute
  <1>3. Len(escaped') = Len(escaped) + Len(s) - 1
    BY <1>1, <1>2, Replaced
  <1>4. Len(escaped) \in Nat /\ Len(value) \in Nat /\ Len(s) \in Nat
    BY <1>2
  <1> QED
    BY <1>2, <1>3, <1>4 DEF Longer

\* What is bound is never the argument itself, whatever the argument is:
\* BoundAsGiven fails for every value, not for some.
NeverAsGiven == Result # value

\* toString quotes every value that goes to a parameter.
THEOREM TextNeverAsGiven == TextSpec => []NeverAsGiven
  <1>1. TextInit => Longer
    <2>1. TextInit => escaped = value /\ value \in Seq(Chars)
      BY MaxLenAssumption DEF TextInit, SeqOf
    <2> QED
      BY <2>1 DEF Longer
  <1>2. TextTypeOK /\ Longer /\ [TextNext]_textVars => Longer'
    <2> SUFFICES ASSUME TextTypeOK, Longer, [TextNext]_textVars PROVE Longer'
      OBVIOUS
    <2>1. CASE DoubleQuote
      <3>1. <<Quote, Quote>> \in Seq(Chars) /\ Len(<<Quote, Quote>>) >= 1
        BY DEF Chars
      <3> QED
        BY <2>1, <3>1, SubstituteLonger DEF DoubleQuote
    <2>2. CASE BracketOpen
      <3>1. <<"[", "[", "]">> \in Seq(Chars) /\ Len(<<"[", "[", "]">>) >= 1
        BY DEF Chars
      <3> QED
        BY <2>2, <3>1, SubstituteLonger DEF BracketOpen
    <2>3. CASE BracketClose
      <3>1. <<"[", "]", "]">> \in Seq(Chars) /\ Len(<<"[", "]", "]">>) >= 1
        BY DEF Chars
      <3> QED
        BY <2>3, <3>1, SubstituteLonger DEF BracketClose
    <2>4. CASE UNCHANGED <<value, escaped>>
      BY <2>4 DEF Longer
    <2>5. ASSUME NEW c, NEW next, PassEnds(c, next) PROVE UNCHANGED <<value, escaped>>
      BY <2>5 DEF PassEnds
    <2> QED
      BY <2>1, <2>2, <2>3, <2>4, <2>5 DEF TextNext, textVars
  <1>3. TextTypeOK /\ Longer => NeverAsGiven
    <2> SUFFICES ASSUME TextTypeOK, Longer, Result = value PROVE FALSE
      BY DEF NeverAsGiven
    <2>1. escaped \in Seq(Chars) /\ Quote \in Chars /\ Len(escaped) \in Nat
      BY DEF TextTypeOK, Chars
    <2>2. Len(<<Quote>> \o escaped \o <<Quote>>) = Len(escaped) + 2
      BY <2>1
    <2> QED
      BY <2>1, <2>2 DEF Longer, Result
  <1> QED
    BY <1>1, <1>2, <1>3, TextTypes, PTL DEF TextSpec
=============================================================================
