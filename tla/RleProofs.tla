------------------------------ MODULE RleProofs -----------------------------
(***************************************************************************)
(* Proofs about Rle, for every width of a number and every text: what      *)
(* parse yields lies in the declared box, and is what the text means.      *)
(***************************************************************************)
EXTENDS Rle, FiniteSetTheorems, WellFoundedInduction, TLAPS

-----------------------------------------------------------------------------
(***************************************************************************)
(* Types and the box.                                                      *)
(***************************************************************************)

\* Arithmetic of a word stays in it.
LEMMA WordArithmetic ==
  /\ 0 \in Word
  /\ \A n \in Nat : Wrapped(n) \in Word
  /\ \A n \in Int : n > 0 /\ n < WordSize => n \in Word
BY RleAssumption DEF Word, Wrapped

\* The digit of a character is a digit.
LEMMA DigitRange == \A c : IsDigit(c) => DigitOf(c) \in 0 .. 9
BY DEF IsDigit, DigitOf

\* A run's columns and its count are numbers.
LEMMA CountRange ==
  ASSUME RleTypeOK
  PROVE  /\ Count \in Nat
         /\ Columns \subseteq Word
         /\ {x + Count, y + Count, run * 10} \subseteq Nat
<1>1. run \in Nat /\ x \in Nat /\ y \in Nat
  BY RleAssumption DEF RleTypeOK, Word
<1>2. Count \in Nat
  BY <1>1 DEF Count
<1>. QED
  BY <1>1, <1>2, WordArithmetic DEF Columns

\* Reading a header or a character keeps the types.
LEMMA ParseTypes == RleTypeOK /\ [RleNext]_rleVars => RleTypeOK'
<1>. SUFFICES ASSUME RleTypeOK, [RleNext]_rleVars PROVE RleTypeOK'
  OBVIOUS
<1>. USE WordArithmetic, CountRange DEF RleTypeOK
<1>1. CASE NoHeader
  BY <1>1 DEF NoHeader, Errors
<1>2. ASSUME NEW h \in Headers, ReadHeader(h) PROVE RleTypeOK'
  <2>1. h.x \in Int /\ h.y \in Int /\ h.x < WordSize /\ h.y < WordSize
    BY RleAssumption
  <2>2. h.x > 0 /\ h.y > 0 => h.x \in Word /\ h.y \in Word
    BY <2>1
  <2>. QED
    BY <1>2, <2>2 DEF ReadHeader, Errors
<1>3. ASSUME NEW c \in Alphabet, ReadChar(c) PROVE RleTypeOK'
  <2>1. Reads(c) => body' \in Seq(Alphabet) /\ UNCHANGED <<width, height>>
    BY <1>3 DEF Reads
  <2>2. CASE ReadDigit(c)
    <3>1. run * 10 + DigitOf(c) \in Nat
      <4>1. DigitOf(c) \in Nat
        BY <2>2, DigitRange DEF ReadDigit
      <4>2. run * 10 \in Nat
        BY CountRange
      <4>. QED
        BY <4>1, <4>2
    <3>2. run' \in Word
      BY <2>2, <3>1 DEF ReadDigit
    <3>. QED
      BY <2>1, <2>2, <3>2 DEF ReadDigit
  <2>3. CASE ReadDead(c)
    BY <2>1, <2>3 DEF ReadDead
  <2>4. CASE ReadAlive(c)
    BY <2>1, <2>4 DEF ReadAlive, Errors
  <2>5. CASE ReadLineEnd(c)
    BY <2>1, <2>5 DEF ReadLineEnd
  <2>6. CASE ReadSpace(c)
    BY <2>1, <2>6 DEF ReadSpace
  <2>7. CASE ReadEndMark(c)
    BY <2>1, <2>7 DEF ReadEndMark
  <2>8. CASE ReadOther(c)
    BY <2>1, <2>8 DEF ReadOther, Errors
  <2>. QED
    BY <1>3, <2>2, <2>3, <2>4, <2>5, <2>6, <2>7, <2>8 DEF ReadChar
<1>4. CASE TextEnds
  BY <1>4 DEF TextEnds
<1>5. CASE UNCHANGED rleVars
  BY <1>5 DEF rleVars
<1>. QED
  BY <1>1, <1>2, <1>3, <1>4, <1>5 DEF RleNext

\* Before the body is read there are no cells.
HeaderFirst == parsing = "header" => cells = {}

\* Reading keeps the cells in the box.
LEMMA ParseInBox ==
  RleTypeOK /\ HeaderFirst /\ CellsInBox /\ [RleNext]_rleVars
    => HeaderFirst' /\ CellsInBox'
<1>. SUFFICES ASSUME RleTypeOK, HeaderFirst, CellsInBox, [RleNext]_rleVars
              PROVE  HeaderFirst' /\ CellsInBox'
  OBVIOUS
<1>. USE DEF HeaderFirst, CellsInBox, Box
<1>1. CASE NoHeader
  BY <1>1 DEF NoHeader
<1>2. ASSUME NEW h \in Headers, ReadHeader(h) PROVE HeaderFirst' /\ CellsInBox'
  BY <1>2 DEF ReadHeader
<1>3. ASSUME NEW c \in Alphabet, ReadChar(c) PROVE HeaderFirst' /\ CellsInBox'
  <2>1. Reads(c) => parsing = "body" /\ UNCHANGED <<width, height>>
    BY <1>3 DEF Reads
  <2>2. CASE ReadAlive(c) /\ InBox
    <3>1. Columns \subseteq 0 .. width - 1 /\ y \in 0 .. height - 1
      <4>1. /\ Columns \subseteq Word
            /\ width \in Nat /\ height \in Nat /\ y \in Nat
        BY CountRange, RleAssumption DEF RleTypeOK, Word
      <4>2. ASSUME NEW p \in Columns PROVE p \in 0 .. width - 1
        BY <2>2, <4>1, RleAssumption DEF InBox, Word
      <4>3. y \in 0 .. height - 1
        BY <2>2, <4>1 DEF InBox
      <4>. QED
        BY <4>2, <4>3
    <3>2. /\ cells' = cells \cup (Columns \X {y})
          /\ UNCHANGED <<width, height, parsing>> /\ parsing = "body"
      BY <2>1, <2>2 DEF ReadAlive
    <3>. QED
      BY <3>1, <3>2
  <2>3. CASE ReadAlive(c) /\ ~InBox
    BY <2>1, <2>3 DEF ReadAlive
  <2>4. CASE ~ReadAlive(c)
    BY <1>3, <2>1, <2>4
       DEF ReadChar, ReadDigit, ReadDead, ReadLineEnd, ReadSpace, ReadEndMark, ReadOther
  <2>. QED
    BY <2>2, <2>3, <2>4
<1>4. CASE TextEnds
  BY <1>4 DEF TextEnds
<1>5. CASE UNCHANGED rleVars
  BY <1>5 DEF rleVars
<1>. QED
  BY <1>1, <1>2, <1>3, <1>4, <1>5 DEF RleNext

-----------------------------------------------------------------------------
(***************************************************************************)
(* Numbers.                                                                *)
(***************************************************************************)

\* Induction, for a set of numbers.
LEMMA AllNumbers ==
  ASSUME NEW T \in SUBSET Nat, 0 \in T, \A n \in T : n + 1 \in T
  PROVE  T = Nat
<1>. DEFINE R == OpToRel(<, Nat)
            Missed == Nat \ T
<1>1. IsWellFoundedOn(R, Nat)
  BY NatLessThanWellFounded
<1>2. \A k, m \in Nat : k < m => <<k, m>> \in R
  BY DEF OpToRel
<1>. HIDE DEF R
<1>3. SUFFICES ASSUME Missed # {} PROVE FALSE
  OBVIOUS
<1>4. PICK m \in Missed : \A k \in Missed : ~(<<k, m>> \in R)
  BY <1>1, <1>3, WFMin
<1>5. m - 1 \in Nat /\ m - 1 < m /\ (m - 1) + 1 = m
  <2>1. m \in Nat /\ m # 0
    OBVIOUS
  <2>. QED
    BY <2>1
<1>6. m - 1 \in T
  BY <1>2, <1>4, <1>5
<1>. QED
  BY <1>5, <1>6

\* A digit is no other character, and a character extends a number to one.
LEMMA ExtendedNumber ==
  ASSUME NEW n \in Nat, NEW c
  PROVE  /\ Extended(n, c) \in Nat
         /\ IsDigit(c) => Extended(n, c) = 10 * n + DigitOf(c)
         /\ c = " " => Extended(n, c) = n
         /\ ~IsDigit(c) /\ c # " " => Extended(n, c) = 0
<1>1. IsDigit(c) => c # " "
  <2>1. \A d \in 0 .. 9 : Digits[d + 1] # " "
    <3>1. \A d \in 0 .. 9 : d + 1 \in {1, 2, 3, 4, 5, 6, 7, 8, 9, 10}
      OBVIOUS
    <3>2. /\ Digits[1] # " " /\ Digits[2] # " " /\ Digits[3] # " "
          /\ Digits[4] # " " /\ Digits[5] # " " /\ Digits[6] # " "
          /\ Digits[7] # " " /\ Digits[8] # " " /\ Digits[9] # " "
          /\ Digits[10] # " "
      BY DEF Digits
    <3>. QED
      BY <3>1, <3>2
  <2>. QED
    BY <2>1 DEF IsDigit
<1>2. IsDigit(c) => DigitOf(c) \in 0 .. 9
  BY DigitRange
<1>3. c = " " => Extended(n, c) = n
  BY <1>1 DEF Extended
<1>4. IsDigit(c) => Extended(n, c) = 10 * n + DigitOf(c)
  BY <1>1 DEF Extended
<1>5. ~IsDigit(c) /\ c # " " => Extended(n, c) = 0
  BY DEF Extended
<1>6. Extended(n, c) \in Nat
  <2>1. IsDigit(c) => 10 * n + DigitOf(c) \in Nat
    BY <1>2
  <2>2. CASE IsDigit(c)
    BY <1>4, <2>1, <2>2
  <2>3. CASE c = " "
    BY <1>3, <2>3
  <2>4. CASE ~IsDigit(c) /\ c # " "
    <3>1. Extended(n, c) = 0
      BY <1>5, <2>4
    <3>. QED
      BY <3>1
  <2>. QED
    BY <2>2, <2>3, <2>4
<1>. QED
  BY <1>3, <1>4, <1>5, <1>6

\* The recursion of Number has a solution.
LEMMA NumberValue ==
  ASSUME NEW s, Len(s) \in Nat
  PROVE  /\ Number(s) \in [0 .. Len(s) -> Nat]
         /\ Number(s)[0] = 0
         /\ \A i \in 1 .. Len(s) : Number(s)[i] = Extended(Number(s)[i - 1], s[i])
<1>. DEFINE Solves(f, n) == /\ f \in [0 .. n -> Nat]
                            /\ f[0] = 0
                            /\ \A i \in 1 .. n : f[i] = Extended(f[i - 1], s[i])
            T == {n \in Nat : \E f : Solves(f, n)}
<1>1. 0 \in T
  <2>1. Solves([i \in 0 .. 0 |-> 0], 0)
    OBVIOUS
  <2>. QED
    BY <2>1
<1>2. ASSUME NEW n \in T PROVE n + 1 \in T
  <2>1. PICK f : Solves(f, n)
    OBVIOUS
  <2>. DEFINE g == [i \in 0 .. n + 1 |-> IF i = n + 1 THEN Extended(f[n], s[n + 1]) ELSE f[i]]
  <2>2. n \in Nat /\ f[n] \in Nat
    BY <2>1
  <2>3. Extended(f[n], s[n + 1]) \in Nat
    BY <2>2, ExtendedNumber
  <2>4. g \in [0 .. n + 1 -> Nat] /\ g[0] = 0
    BY <2>1, <2>2, <2>3
  <2>5. ASSUME NEW i \in 1 .. n + 1 PROVE g[i] = Extended(g[i - 1], s[i])
    <3>1. CASE i = n + 1
      BY <2>2, <3>1
    <3>2. CASE i # n + 1
      <4>1. i \in 1 .. n /\ g[i] = f[i] /\ g[i - 1] = f[i - 1]
        BY <2>2, <3>2
      <4>. QED
        BY <2>1, <4>1
    <3>. QED
      BY <3>1, <3>2
  <2>6. Solves(g, n + 1)
    <3>. HIDE DEF g
    <3>. QED
      BY <2>4, <2>5
  <2>. HIDE DEF Solves, g
  <2>7. n + 1 \in Nat /\ \E h : Solves(h, n + 1)
    BY <2>2, <2>6
  <2>. QED
    BY <2>7
<1>3. PICK f : Solves(f, Len(s))
  <2>. HIDE DEF T
  <2>1. T = Nat
    BY <1>1, <1>2, AllNumbers DEF T
  <2>. QED
    BY <2>1 DEF T
<1>. DEFINE Turn(v) == [i \in 0 .. Len(s) |-> IF i = 0 THEN 0 ELSE Extended(v[i - 1], s[i])]
<1>4. f = Turn(f)
  BY <1>3
<1>5. Number(s) = CHOOSE v : v = Turn(v)
  BY DEF Number
<1>6. Number(s) = Turn(Number(s))
  <2>. HIDE DEF Turn
  <2>. QED
    BY <1>4, <1>5
<1>7. \A n \in Nat : n <= Len(s) => Number(s)[n] \in Nat
  <2>. DEFINE U == {n \in Nat : n <= Len(s) => Number(s)[n] \in Nat}
  <2>1. 0 \in U
    BY <1>6
  <2>2. ASSUME NEW n \in U PROVE n + 1 \in U
    <3>1. SUFFICES ASSUME n + 1 <= Len(s) PROVE Number(s)[n + 1] \in Nat
      OBVIOUS
    <3>2. n + 1 \in 0 .. Len(s) /\ n + 1 # 0 /\ (n + 1) - 1 = n
      BY <3>1
    <3>3. Number(s)[n + 1] = Extended(Number(s)[n], s[n + 1])
      BY <1>6, <3>2
    <3>4. Number(s)[n] \in Nat
      BY <3>1
    <3>. QED
      BY <3>3, <3>4, ExtendedNumber
  <2>. HIDE DEF U
  <2>3. U = Nat
    BY <2>1, <2>2, AllNumbers DEF U
  <2>. QED
    BY <2>3 DEF U
<1>8. \A i \in 1 .. Len(s) : Number(s)[i] = Extended(Number(s)[i - 1], s[i])
  BY <1>6
<1>9. Number(s)[0] = 0
  BY <1>6
<1>10. Number(s) \in [0 .. Len(s) -> Nat]
  <2>1. \A i \in 0 .. Len(s) : Number(s)[i] \in Nat
    BY <1>7
  <2>2. Number(s) = [i \in 0 .. Len(s) |-> Number(s)[i]]
    BY <1>6
  <2>. QED
    BY <2>1, <2>2
<1>. QED
  BY <1>8, <1>9, <1>10

\* What is read does not change the numbers before it.
LEMMA NumberPrefix ==
  ASSUME NEW s \in Seq(Alphabet), NEW c
  PROVE  \A i \in 0 .. Len(s) : Number(Append(s, c))[i] = Number(s)[i]
<1>. DEFINE t == Append(s, c)
            T == {i \in Nat : i <= Len(s) => Number(t)[i] = Number(s)[i]}
<1>1. /\ Len(s) \in Nat /\ Len(t) = Len(s) + 1
      /\ \A i \in 1 .. Len(s) : t[i] = s[i]
  OBVIOUS
<1>. HIDE DEF t
<1>2. Number(t)[0] = 0 /\ Number(s)[0] = 0
  BY <1>1, NumberValue
<1>3. ASSUME NEW i \in 1 .. Len(s)
      PROVE  /\ Number(t)[i] = Extended(Number(t)[i - 1], s[i])
             /\ Number(s)[i] = Extended(Number(s)[i - 1], s[i])
  <2>1. /\ \A j \in 1 .. Len(t) : Number(t)[j] = Extended(Number(t)[j - 1], t[j])
        /\ \A j \in 1 .. Len(s) : Number(s)[j] = Extended(Number(s)[j - 1], s[j])
    BY <1>1, NumberValue
  <2>2. i \in 1 .. Len(t) /\ t[i] = s[i]
    BY <1>1
  <2>. QED
    BY <2>1, <2>2
<1>4. 0 \in T
  BY <1>2
<1>5. ASSUME NEW i \in T PROVE i + 1 \in T
  <2>1. SUFFICES ASSUME i + 1 <= Len(s) PROVE Number(t)[i + 1] = Number(s)[i + 1]
    OBVIOUS
  <2>2. i + 1 \in 1 .. Len(s) /\ (i + 1) - 1 = i /\ Number(t)[i] = Number(s)[i]
    BY <1>1, <2>1
  <2>. QED
    BY <1>3, <2>2
<1>6. T = Nat
  <2>. HIDE DEF T
  <2>. QED
    BY <1>4, <1>5, AllNumbers DEF T
<1>. QED
  BY <1>1, <1>6 DEF t

\* How often a tag is repeated is a number, at least one when no digits say
\* otherwise, and follows from what was read before it.
LEMMA TimesPrefix ==
  ASSUME NEW s \in Seq(Alphabet), NEW c, NEW i \in 1 .. Len(s) + 1
  PROVE  /\ Times(s, i) \in Nat
         /\ Times(Append(s, c), i) = Times(s, i)
<1>. DEFINE t == Append(s, c)
<1>1. /\ Len(s) \in Nat /\ i - 1 \in 0 .. Len(s)
      /\ \A j \in 1 .. i - 1 : t[j] = s[j]
  OBVIOUS
<1>2. Number(s)[i - 1] \in Nat /\ Number(t)[i - 1] = Number(s)[i - 1]
  BY <1>1, NumberValue, NumberPrefix
<1>3. DigitsBefore(t, i) = DigitsBefore(s, i)
  <2>. HIDE DEF t
  <2>. DEFINE Digit(r, j) == /\ IsDigit(r[j])
                             /\ \A k \in j .. i - 1 : IsDigit(r[k]) \/ r[k] = " "
  <2>1. ASSUME NEW j \in 1 .. i - 1 PROVE Digit(t, j) <=> Digit(s, j)
    <3>1. t[j] = s[j] /\ \A k \in j .. i - 1 : t[k] = s[k]
      BY <1>1
    <3>2. IsDigit(t[j]) <=> IsDigit(s[j])
      BY <3>1
    <3>3. ASSUME NEW k \in j .. i - 1
          PROVE  (IsDigit(t[k]) \/ t[k] = " ") <=> (IsDigit(s[k]) \/ s[k] = " ")
      BY <3>1
    <3>. QED
      BY <3>2, <3>3
  <2>2. \A r : DigitsBefore(r, i) = {j \in 1 .. i - 1 : Digit(r, j)}
    BY DEF DigitsBefore
  <2>. HIDE DEF Digit
  <2>. QED
    BY <2>1, <2>2
<1>. QED
  BY <1>2, <1>3 DEF Times

\* Where there are no digits there is no number.
LEMMA NumberHasDigits ==
  ASSUME NEW s \in Seq(Alphabet)
  PROVE  \A i \in 0 .. Len(s) : Number(s)[i] # 0 => DigitsBefore(s, i + 1) # {}
<1>. DEFINE T == {i \in Nat : i <= Len(s) /\ Number(s)[i] # 0
                                => DigitsBefore(s, i + 1) # {}}
<1>1. Len(s) \in Nat /\ Number(s)[0] = 0
  BY NumberValue
<1>2. 0 \in T
  BY <1>1
<1>3. ASSUME NEW i \in T PROVE i + 1 \in T
  <2>1. SUFFICES ASSUME i + 1 <= Len(s), Number(s)[i + 1] # 0
                 PROVE  DigitsBefore(s, i + 2) # {}
    OBVIOUS
  <2>2. /\ i \in 0 .. Len(s) /\ i + 1 \in 1 .. Len(s)
        /\ (i + 1) - 1 = i /\ (i + 2) - 1 = i + 1 /\ i \in Nat
    BY <1>1, <2>1
  <2>3. /\ Number(s)[i] \in Nat
        /\ Number(s)[i + 1] = Extended(Number(s)[i], s[i + 1])
    BY <1>1, <2>2, NumberValue
  <2>4. CASE IsDigit(s[i + 1])
    <3>1. i + 1 \in 1 .. i + 1 /\ \A k \in i + 1 .. i + 1 : k = i + 1
      BY <1>1, <2>2
    <3>2. i + 1 \in DigitsBefore(s, i + 2)
      BY <2>2, <2>4, <3>1 DEF DigitsBefore
    <3>. QED
      BY <3>2
  <2>5. CASE s[i + 1] = " "
    <3>1. Number(s)[i] # 0
      BY <2>1, <2>3, <2>5, ExtendedNumber
    <3>2. PICK j \in DigitsBefore(s, i + 1) : TRUE
      BY <2>2, <3>1
    <3>3. /\ j \in 1 .. i /\ IsDigit(s[j])
          /\ \A k \in j .. i : IsDigit(s[k]) \/ s[k] = " "
      BY <2>2, <3>2 DEF DigitsBefore
    <3>4. j \in 1 .. i + 1 /\ \A k \in j .. i + 1 : k # i + 1 => k \in j .. i
      <4>1. i \in Nat /\ j \in 1 .. i
        BY <2>2, <3>3
      <4>. QED
        BY <4>1
    <3>5. j \in DigitsBefore(s, i + 2)
      BY <2>2, <2>5, <3>3, <3>4 DEF DigitsBefore
    <3>. QED
      BY <3>5
  <2>. QED
    BY <2>1, <2>3, <2>4, <2>5, ExtendedNumber
<1>4. T = Nat
  <2>. HIDE DEF T
  <2>. QED
    BY <1>2, <1>3, AllNumbers DEF T
<1>. QED
  BY <1>1, <1>4

-----------------------------------------------------------------------------
(***************************************************************************)
(* Places.                                                                 *)
(***************************************************************************)

\* The tags at one position: as many as it is repeated.
LEMMA RepeatsAt ==
  ASSUME NEW s, NEW i, Times(s, i) \in Nat
  PROVE  /\ IsFiniteSet({i} \X (1 .. Times(s, i)))
         /\ Cardinality({i} \X (1 .. Times(s, i))) = Times(s, i)
<1>1. IsFiniteSet(1 .. Times(s, i)) /\ Cardinality(1 .. Times(s, i)) = Times(s, i)
  BY FS_Interval
<1>2. IsFiniteSet({i}) /\ Cardinality({i}) = 1
  BY FS_Singleton
<1>. QED
  BY <1>1, <1>2, FS_Product

\* Repetitions at finitely many positions are finitely many.
LEMMA RepeatsFinite ==
  ASSUME NEW s, NEW J, IsFiniteSet(J), \A j \in J : Times(s, j) \in Nat
  PROVE  IsFiniteSet(Repeats(s, J)) /\ Cardinality(Repeats(s, J)) \in Nat
<1>. DEFINE f == [j \in J |-> {j} \X (1 .. Times(s, j))]
            F == {{j} \X (1 .. Times(s, j)) : j \in J}
<1>1. f \in Surjection(J, F)
  BY DEF Surjection
<1>2. IsFiniteSet(F)
  <2>. HIDE DEF f, F
  <2>. QED
    BY <1>1, FS_Surjection
<1>3. \A T \in F : IsFiniteSet(T)
  BY RepeatsAt
<1>4. IsFiniteSet(UNION F)
  <2>. HIDE DEF F
  <2>. QED
    BY <1>2, <1>3, FS_UNION
<1>. QED
  BY <1>4, FS_CardinalityType DEF Repeats

\* One more position adds its repetitions.
LEMMA RepeatsMore ==
  ASSUME NEW s, NEW J, IsFiniteSet(J), \A j \in J : Times(s, j) \in Nat,
         NEW i, i \notin J, Times(s, i) \in Nat
  PROVE  Cardinality(Repeats(s, J \cup {i})) = Cardinality(Repeats(s, J)) + Times(s, i)
<1>. DEFINE here == {i} \X (1 .. Times(s, i))
<1>1. Repeats(s, J \cup {i}) = Repeats(s, J) \cup here
  BY DEF Repeats
<1>2. Repeats(s, J) \cap here = {}
  <2>1. \A r \in here : r[1] = i
    OBVIOUS
  <2>2. \A r \in Repeats(s, J) : r[1] \in J
    BY DEF Repeats
  <2>. QED
    BY <2>1, <2>2
<1>3. IsFiniteSet(Repeats(s, J)) /\ Cardinality(Repeats(s, J)) \in Nat
  BY RepeatsFinite
<1>4. IsFiniteSet(here) /\ Cardinality(here) = Times(s, i)
  BY RepeatsAt
<1>. HIDE DEF here
<1>5. Cardinality(Repeats(s, J) \cup here)
        = Cardinality(Repeats(s, J)) + Cardinality(here) - Cardinality({})
  BY <1>2, <1>3, <1>4, FS_Union
<1>6. Cardinality({}) = 0
  BY FS_EmptySet
<1>7. Cardinality(Repeats(s, J \cup {i})) = Cardinality(Repeats(s, J)) + Cardinality(here) - 0
  BY <1>1, <1>5, <1>6
<1>. QED
  BY <1>3, <1>4, <1>7

\* The tags before a position are finitely many, and follow from what was read
\* before it; so do the line and the column, which are numbers.
LEMMA PlacePrefix ==
  ASSUME NEW s \in Seq(Alphabet), NEW c, NEW i \in 1 .. Len(s) + 1
  PROVE  /\ IsFiniteSet(LineEndsBefore(s, i)) /\ IsFiniteSet(CellsBefore(s, i))
         /\ \A j \in 1 .. i - 1 : Times(s, j) \in Nat
         /\ LineOf(s, i) \in Nat /\ ColumnOf(s, i) \in Nat
         /\ LineOf(Append(s, c), i) = LineOf(s, i)
         /\ ColumnOf(Append(s, c), i) = ColumnOf(s, i)
         /\ RunAt(Append(s, c), i) = RunAt(s, i)
<1>. DEFINE t == Append(s, c)
<1>1. /\ Len(s) \in Nat
      /\ \A j \in 1 .. i - 1 : t[j] = s[j]
  OBVIOUS
<1>2. \A j \in 1 .. i : Times(s, j) \in Nat /\ Times(t, j) = Times(s, j)
  <2>1. \A j \in 1 .. i : j \in 1 .. Len(s) + 1
    BY <1>1
  <2>. QED
    BY <2>1, TimesPrefix
<1>. HIDE DEF t
<1>3. /\ LineEndsBefore(s, i) \in SUBSET (1 .. i - 1)
      /\ CellsBefore(s, i) \in SUBSET (1 .. i - 1)
  BY DEF LineEndsBefore, CellsBefore
<1>4. IsFiniteSet(LineEndsBefore(s, i)) /\ IsFiniteSet(CellsBefore(s, i))
  <2>1. IsFiniteSet(1 .. i - 1)
    BY <1>1, FS_Interval
  <2>. QED
    BY <1>3, <2>1, FS_Subset
<1>5. \A J \in SUBSET (1 .. i - 1) : Repeats(t, J) = Repeats(s, J)
  <2>1. ASSUME NEW J \in SUBSET (1 .. i - 1)
        PROVE  \A j \in J : {j} \X (1 .. Times(t, j)) = {j} \X (1 .. Times(s, j))
    BY <1>2
  <2>. QED
    BY <2>1 DEF Repeats
<1>6. LineEndsBefore(t, i) = LineEndsBefore(s, i)
  BY <1>1 DEF LineEndsBefore
<1>7. CellsBefore(t, i) = CellsBefore(s, i)
  <2>. DEFINE Cell(r, j) == r[j] \in {"b", "o"} /\ \A k \in j .. i - 1 : r[k] # "$"
  <2>1. ASSUME NEW j \in 1 .. i - 1 PROVE Cell(t, j) <=> Cell(s, j)
    <3>1. t[j] = s[j] /\ \A k \in j .. i - 1 : t[k] = s[k]
      BY <1>1
    <3>. QED
      BY <3>1
  <2>2. \A r : CellsBefore(r, i) = {j \in 1 .. i - 1 : Cell(r, j)}
    BY DEF CellsBefore
  <2>. HIDE DEF Cell
  <2>. QED
    BY <2>1, <2>2
<1>8. /\ LineOf(t, i) = LineOf(s, i)
      /\ ColumnOf(t, i) = ColumnOf(s, i)
  BY <1>3, <1>5, <1>6, <1>7 DEF LineOf, ColumnOf
<1>9. \A j \in 1 .. i - 1 : Times(s, j) \in Nat
  BY <1>1, <1>2
<1>10. LineOf(s, i) \in Nat /\ ColumnOf(s, i) \in Nat
  BY <1>3, <1>4, <1>9, RepeatsFinite DEF LineOf, ColumnOf
<1>11. Times(t, i) = Times(s, i)
  BY <1>1, <1>2
<1>12. RunAt(t, i) = RunAt(s, i)
  BY <1>8, <1>11 DEF RunAt
<1>. QED
  BY <1>4, <1>8, <1>9, <1>10, <1>12 DEF t

\* Where the next tag starts, by the character before it.
LEMMA PlaceAfter ==
  ASSUME NEW s \in Seq(Alphabet), NEW c \in Alphabet
  PROVE  LET t == Append(s, c)
             n == Len(s) + 1
         IN  /\ c = "$" => /\ LineOf(t, n + 1) = LineOf(s, n) + Times(s, n)
                           /\ ColumnOf(t, n + 1) = 0
             /\ c \in {"b", "o"} =>
                  /\ LineOf(t, n + 1) = LineOf(s, n)
                  /\ ColumnOf(t, n + 1) = ColumnOf(s, n) + Times(s, n)
             /\ c \notin Tags => /\ LineOf(t, n + 1) = LineOf(s, n)
                                 /\ ColumnOf(t, n + 1) = ColumnOf(s, n)
<1>. DEFINE t == Append(s, c)
            n == Len(s) + 1
            lines == LineEndsBefore(t, n)
            row == CellsBefore(t, n)
<1>1. /\ n \in Nat \ {0} /\ (n + 1) - 1 = n /\ n \in 1 .. Len(s) + 1
      /\ t[n] = c
      /\ \A j \in 1 .. n - 1 : j \in 1 .. n /\ j # n
      /\ \A j \in 1 .. n : j = n \/ j \in 1 .. n - 1
  OBVIOUS
<1>2. /\ LineOf(t, n) = LineOf(s, n) /\ ColumnOf(t, n) = ColumnOf(s, n)
      /\ Times(t, n) = Times(s, n) /\ Times(s, n) \in Nat
  BY <1>1, PlacePrefix, TimesPrefix
<1>3. /\ IsFiniteSet(lines) /\ IsFiniteSet(row)
      /\ \A j \in 1 .. n - 1 : Times(t, j) \in Nat
  <2>1. t \in Seq(Alphabet) /\ n \in 1 .. Len(t) + 1
    OBVIOUS
  <2>. HIDE DEF t, n
  <2>. QED
    BY <2>1, PlacePrefix
<1>4. /\ lines \in SUBSET (1 .. n - 1) /\ row \in SUBSET (1 .. n - 1)
      /\ n \notin lines /\ n \notin row
  BY <1>1 DEF LineEndsBefore, CellsBefore
<1>. HIDE DEF t, n
<1>5. LineEndsBefore(t, n + 1) = IF c = "$" THEN lines \cup {n} ELSE lines
  <2>1. \A j \in 1 .. n : t[j] = "$" <=> (j = n /\ c = "$") \/ j \in lines
    BY <1>1 DEF LineEndsBefore
  <2>2. LineEndsBefore(t, n + 1) = {j \in 1 .. n : t[j] = "$"}
    BY <1>1 DEF LineEndsBefore
  <2>3. n \in 1 .. n /\ \A j \in lines : j \in 1 .. n
    BY <1>1, <1>4
  <2>. HIDE DEF lines
  <2>4. CASE c = "$"
    BY <2>1, <2>2, <2>3, <2>4
  <2>5. CASE c # "$"
    BY <2>1, <2>2, <2>3, <2>5
  <2>. QED
    BY <2>4, <2>5
<1>. DEFINE Cell(j, m) == t[j] \in {"b", "o"} /\ \A k \in j .. m : t[k] # "$"
<1>6. /\ row = {j \in 1 .. n - 1 : Cell(j, n - 1)}
      /\ CellsBefore(t, n + 1) = {j \in 1 .. n : Cell(j, n)}
  BY <1>1 DEF CellsBefore
<1>7. \A j \in 1 .. n : n \in j .. n
  BY <1>1
<1>8. c = "$" => CellsBefore(t, n + 1) = {}
  BY <1>1, <1>6, <1>7
<1>9. c # "$" => CellsBefore(t, n + 1) = IF c \in {"b", "o"} THEN row \cup {n} ELSE row
  <2>1. ASSUME c # "$", NEW j \in 1 .. n - 1 PROVE Cell(j, n) <=> Cell(j, n - 1)
    <3>1. \A k \in j .. n : k = n \/ k \in j .. n - 1
      BY <1>1
    <3>2. \A k \in j .. n - 1 : k \in j .. n
      BY <1>1
    <3>. QED
      BY <1>1, <2>1, <3>1, <3>2
  <2>2. c # "$" => (Cell(n, n) <=> c \in {"b", "o"})
    <3>1. n \in n .. n /\ \A k \in n .. n : k = n
      BY <1>1
    <3>. QED
      BY <1>1, <3>1
  <2>3. n \in 1 .. n
    BY <1>1
  <2>. HIDE DEF Cell
  <2>. QED
    BY <1>1, <1>6, <2>1, <2>2, <2>3
<1>. HIDE DEF Cell
<1>10. /\ Cardinality(Repeats(t, lines \cup {n})) = LineOf(t, n) + Times(t, n)
       /\ Cardinality(Repeats(t, row \cup {n})) = ColumnOf(t, n) + Times(t, n)
  <2>. HIDE DEF lines, row
  <2>1. /\ \A j \in lines : Times(t, j) \in Nat
        /\ \A j \in row : Times(t, j) \in Nat
        /\ Times(t, n) \in Nat
    BY <1>2, <1>3, <1>4
  <2>2. /\ Cardinality(Repeats(t, lines \cup {n}))
             = Cardinality(Repeats(t, lines)) + Times(t, n)
        /\ Cardinality(Repeats(t, row \cup {n}))
             = Cardinality(Repeats(t, row)) + Times(t, n)
    BY <1>3, <1>4, <2>1, RepeatsMore
  <2>. QED
    BY <2>2 DEF LineOf, ColumnOf, lines, row
<1>11. Cardinality(Repeats(t, {})) = 0
  <2>1. Repeats(t, {}) = {}
    BY DEF Repeats
  <2>. QED
    BY <2>1, FS_EmptySet
<1>12. c = "$" => /\ LineOf(t, n + 1) = LineOf(s, n) + Times(s, n)
                  /\ ColumnOf(t, n + 1) = 0
  BY <1>2, <1>5, <1>8, <1>10, <1>11 DEF LineOf, ColumnOf
<1>13. c # "$" => LineOf(t, n + 1) = LineOf(s, n)
  BY <1>2, <1>5 DEF LineOf
<1>14. c \in {"b", "o"} => ColumnOf(t, n + 1) = ColumnOf(s, n) + Times(s, n)
  BY <1>2, <1>9, <1>10 DEF ColumnOf
<1>15. c \notin Tags => ColumnOf(t, n + 1) = ColumnOf(s, n)
  BY <1>2, <1>9 DEF ColumnOf, Tags
<1>16. c \notin Tags \/ c \in {"b", "o"} => c # "$"
  BY DEF Tags
<1>. QED
  BY <1>12, <1>13, <1>14, <1>15, <1>16 DEF t, n

\* What the next character adds to the meaning, and what a plain body tells of
\* its last tag.
LEMMA MeaningAfter ==
  ASSUME NEW s \in Seq(Alphabet), NEW c \in Alphabet
  PROVE  LET t == Append(s, c)
             n == Len(s) + 1
         IN  /\ c = "o" => Meaning(t) = Meaning(s) \cup RunAt(s, n)
             /\ c # "o" => Meaning(t) = Meaning(s)
             /\ Plain(t) => Plain(s)
             /\ Plain(t) /\ c \in Tags => /\ Times(s, n) > 0
                                          /\ LineOf(s, n) + Times(s, n) < WordSize
                                          /\ ColumnOf(s, n) + Times(s, n) < WordSize
<1>. DEFINE t == Append(s, c)
            n == Len(s) + 1
            Live(r) == {j \in DOMAIN r : r[j] = "o"}
<1>1. /\ n \in Nat \ {0} /\ n \in 1 .. n
      /\ DOMAIN s = 1 .. n - 1 /\ DOMAIN t = 1 .. n
      /\ t[n] = c /\ \A j \in 1 .. n - 1 : t[j] = s[j]
      /\ \A j \in 1 .. n : j = n \/ j \in 1 .. n - 1
      /\ \A j \in 1 .. n - 1 : j \in 1 .. n
  OBVIOUS
<1>2. \A i \in 1 .. n : /\ LineOf(t, i) = LineOf(s, i)
                        /\ ColumnOf(t, i) = ColumnOf(s, i)
                        /\ RunAt(t, i) = RunAt(s, i)
                        /\ Times(t, i) = Times(s, i)
  BY PlacePrefix, TimesPrefix
<1>. HIDE DEF t, n
<1>3. /\ c = "o" => Live(t) = Live(s) \cup {n}
      /\ c # "o" => Live(t) = Live(s)
      /\ Live(s) \subseteq 1 .. n - 1
  BY <1>1
<1>4. \A r : Meaning(r) = UNION {RunAt(r, i) : i \in Live(r)}
  BY DEF Meaning
<1>. HIDE DEF Live
<1>5. UNION {RunAt(t, i) : i \in Live(s)} = Meaning(s)
  <2>1. \A i \in Live(s) : RunAt(t, i) = RunAt(s, i)
    BY <1>1, <1>2, <1>3
  <2>. QED
    BY <1>4, <2>1
<1>6. c = "o" => Meaning(t) = Meaning(s) \cup RunAt(s, n)
  <2>1. c = "o" => Meaning(t) = (UNION {RunAt(t, i) : i \in Live(s)}) \cup RunAt(t, n)
    BY <1>3, <1>4
  <2>. QED
    BY <1>1, <1>2, <1>5, <2>1
<1>7. c # "o" => Meaning(t) = Meaning(s)
  BY <1>3, <1>4, <1>5
<1>8. Plain(t) => Plain(s)
  <2>. SUFFICES ASSUME Plain(t), NEW i \in 1 .. n - 1, s[i] \in Tags
                PROVE  /\ Times(s, i) > 0
                       /\ LineOf(s, i) + Times(s, i) < WordSize
                       /\ ColumnOf(s, i) + Times(s, i) < WordSize
    BY <1>1 DEF Plain
  <2>1. i \in DOMAIN t /\ t[i] \in Tags /\ i \in 1 .. n
    BY <1>1
  <2>2. /\ Times(t, i) > 0
        /\ LineOf(t, i) + Times(t, i) < WordSize
        /\ ColumnOf(t, i) + Times(t, i) < WordSize
    BY <2>1 DEF Plain
  <2>. QED
    BY <1>2, <2>1, <2>2
<1>9. Plain(t) /\ c \in Tags => /\ Times(s, n) > 0
                                /\ LineOf(s, n) + Times(s, n) < WordSize
                                /\ ColumnOf(s, n) + Times(s, n) < WordSize
  <2>. SUFFICES ASSUME Plain(t), c \in Tags
                PROVE  /\ Times(s, n) > 0
                       /\ LineOf(s, n) + Times(s, n) < WordSize
                       /\ ColumnOf(s, n) + Times(s, n) < WordSize
    OBVIOUS
  <2>1. n \in DOMAIN t /\ t[n] \in Tags
    BY <1>1
  <2>2. /\ Times(t, n) > 0
        /\ LineOf(t, n) + Times(t, n) < WordSize
        /\ ColumnOf(t, n) + Times(t, n) < WordSize
    BY <2>1 DEF Plain
  <2>. QED
    BY <1>1, <1>2, <2>2
<1>. QED
  BY <1>6, <1>7, <1>8, <1>9 DEF t, n

-----------------------------------------------------------------------------
(***************************************************************************)
(* The pen.                                                                *)
(***************************************************************************)

\* Whole words below a number do not matter to what is left of it.
LEMMA WholeWords ==
  ASSUME NEW q \in Nat, NEW n \in Nat
  PROVE  Wrapped(q * WordSize + n) = Wrapped(n)
<1>. DEFINE k == n \div WordSize
            r == n % WordSize
<1>1. WordSize \in Nat \ {0}
  BY RleAssumption
<1>2. k \in Nat /\ r \in 0 .. WordSize - 1 /\ n = WordSize * k + r
  BY <1>1
<1>3. ASSUME NEW j \in Int, NEW t \in 0 .. WordSize - 1 PROVE (WordSize * j + t) % WordSize = t
  BY <1>1
<1>. HIDE DEF k, r
<1>4. q * WordSize + n = WordSize * (q + k) + r
  BY <1>1, <1>2
<1>. QED
  BY <1>2, <1>3, <1>4 DEF Wrapped

\* The count that wraps at every digit is the number, wrapped.
LEMMA WrappedDigits ==
  ASSUME NEW n \in Nat, NEW d \in Nat
  PROVE  Wrapped(Wrapped(n) * 10 + d) = Wrapped(10 * n + d)
<1>. DEFINE q == n \div WordSize
            r == n % WordSize
<1>1. WordSize \in Nat \ {0}
  BY RleAssumption
<1>2. q \in Nat /\ r \in Nat /\ n = q * WordSize + r
  BY <1>1
<1>. HIDE DEF q, r
<1>3. 10 * n + d = (10 * q) * WordSize + (r * 10 + d)
  BY <1>1, <1>2
<1>4. Wrapped((10 * q) * WordSize + (r * 10 + d)) = Wrapped(r * 10 + d)
  BY <1>2, WholeWords
<1>. QED
  BY <1>3, <1>4 DEF Wrapped, r

\* On a tag of a plain body the count is how often the tag is repeated.
LEMMA CountMeans ==
  ASSUME NEW s \in Seq(Alphabet),
         run = Wrapped(Number(s)[Len(s)]),
         Times(s, Len(s) + 1) > 0, Times(s, Len(s) + 1) < WordSize
  PROVE  Count = Times(s, Len(s) + 1)
<1>1. /\ Len(s) \in Nat /\ (Len(s) + 1) - 1 = Len(s) /\ Len(s) \in 0 .. Len(s)
      /\ WordSize \in Nat \ {0}
  BY RleAssumption
<1>2. Number(s)[Len(s)] \in Nat
  BY <1>1, NumberValue
<1>3. CASE DigitsBefore(s, Len(s) + 1) = {}
  <2>1. Number(s)[Len(s)] = 0
    BY <1>1, <1>3, NumberHasDigits
  <2>2. run = 0
    BY <1>1, <2>1 DEF Wrapped
  <2>. QED
    BY <1>3, <2>2 DEF Count, Times
<1>4. CASE DigitsBefore(s, Len(s) + 1) # {}
  <2>1. Times(s, Len(s) + 1) = Number(s)[Len(s)]
    BY <1>1, <1>4 DEF Times
  <2>2. run = Number(s)[Len(s)] /\ run # 0
    BY <1>1, <1>2, <2>1 DEF Wrapped
  <2>. QED
    BY <2>1, <2>2 DEF Count
<1>. QED
  BY <1>3, <1>4

\* The number at the end of a text that has grown by a character.
LEMMA NumberAfter ==
  ASSUME NEW s \in Seq(Alphabet), NEW c \in Alphabet
  PROVE  /\ Number(s)[Len(s)] \in Nat
         /\ Number(Append(s, c))[Len(Append(s, c))] = Extended(Number(s)[Len(s)], c)
<1>. DEFINE t == Append(s, c)
<1>1. /\ Len(s) \in 0 .. Len(s) /\ Len(t) \in 1 .. Len(t) /\ Len(t) \in Nat
      /\ Len(s) \in Nat /\ Len(t) - 1 = Len(s) /\ t[Len(t)] = c
  OBVIOUS
<1>2. Number(t)[Len(s)] = Number(s)[Len(s)]
  BY <1>1, NumberPrefix
<1>. HIDE DEF t
<1>3. Number(t)[Len(t)] = Extended(Number(t)[Len(t) - 1], t[Len(t)])
  BY <1>1, NumberValue
<1>4. Number(s)[Len(s)] \in Nat
  BY <1>1, NumberValue
<1>. QED
  BY <1>1, <1>2, <1>3, <1>4 DEF t

\* Where the pen is and what it has written.
PenMeans ==
  /\ y = LineOf(body, Len(body) + 1)
  /\ x = ColumnOf(body, Len(body) + 1)
  /\ cells = Meaning(body)

\* The inductive invariant behind ParsesMeaning: the count is the number
\* before the next character, wrapped, and the pen is where the next tag of
\* a plain body starts.
ParserInv ==
  /\ parsing = "header" => /\ run = 0 /\ x = 0 /\ y = 0
                           /\ cells = {} /\ body = <<>>
  /\ parsing = "body" => /\ run = Wrapped(Number(body)[Len(body)])
                         /\ Plain(body) => PenMeans
  /\ parsing = "Ok" /\ Plain(body) => cells = Meaning(body)
  /\ parsing = "OutOfBounds" /\ Plain(body) => ~ (Meaning(body) \subseteq Box)

\* The pen of a body not yet begun.
LEMMA EmptyBody ==
  /\ Number(<<>>)[Len(<<>>)] = 0
  /\ LineOf(<<>>, Len(<<>>) + 1) = 0 /\ ColumnOf(<<>>, Len(<<>>) + 1) = 0
  /\ Meaning(<<>>) = {}
<1>1. Len(<<>>) = 0 /\ DOMAIN <<>> = {}
  OBVIOUS
<1>2. Number(<<>>)[0] = 0
  BY <1>1, NumberValue
<1>3. LineEndsBefore(<<>>, 1) = {} /\ CellsBefore(<<>>, 1) = {}
  BY DEF LineEndsBefore, CellsBefore
<1>4. Repeats(<<>>, {}) = {}
  BY DEF Repeats
<1>5. Meaning(<<>>) = {}
  BY <1>1 DEF Meaning
<1>6. Cardinality({}) = 0
  BY FS_EmptySet
<1>7. LineOf(<<>>, 1) = 0 /\ ColumnOf(<<>>, 1) = 0
  BY <1>3, <1>4, <1>6 DEF LineOf, ColumnOf
<1>8. Len(<<>>) + 1 = 1
  BY <1>1
<1>. QED
  BY <1>1, <1>2, <1>5, <1>7, <1>8

\* A tag of a plain body moves the pen by what it means: nothing wraps.
LEMMA PlainTag ==
  ASSUME RleTypeOK, ParserInv, parsing = "body",
         NEW c \in Alphabet, c \in Tags, Plain(Append(body, c))
  PROVE  LET n == Len(body) + 1
         IN  /\ PenMeans
             /\ Count = Times(body, n) /\ Count \in Nat \ {0}
             /\ x \in Nat /\ y \in Nat
             /\ Wrapped(x + Count) = ColumnOf(body, n) + Times(body, n)
             /\ Wrapped(y + Count) = LineOf(body, n) + Times(body, n)
             /\ Columns = {x + i : i \in 0 .. Count - 1}
             /\ RunAt(body, n) = Columns \X {y}
<1>. DEFINE n == Len(body) + 1
<1>1. body \in Seq(Alphabet) /\ WordSize \in Nat \ {0} /\ x \in Nat /\ y \in Nat
  BY RleAssumption DEF RleTypeOK, Word
<1>2. /\ Plain(body)
      /\ Times(body, n) > 0
      /\ LineOf(body, n) + Times(body, n) < WordSize
      /\ ColumnOf(body, n) + Times(body, n) < WordSize
  BY <1>1, MeaningAfter
<1>3. PenMeans /\ run = Wrapped(Number(body)[Len(body)])
  BY <1>2 DEF ParserInv
<1>4. y = LineOf(body, n) /\ x = ColumnOf(body, n)
  BY <1>3 DEF PenMeans
<1>5. n \in 1 .. Len(body) + 1
  BY <1>1
<1>6. Times(body, n) \in Nat
  BY <1>1, <1>5, TimesPrefix
<1>. HIDE DEF n
<1>7. Times(body, n) < WordSize
  BY <1>1, <1>2, <1>4, <1>6
<1>8. Count = Times(body, n)
  BY <1>1, <1>2, <1>3, <1>7, CountMeans DEF n
<1>9. \A m \in Nat : m < WordSize => Wrapped(m) = m
  BY <1>1 DEF Wrapped
<1>10. x + Count \in Nat /\ x + Count < WordSize /\ y + Count \in Nat /\ y + Count < WordSize
  BY <1>1, <1>2, <1>4, <1>6, <1>8
<1>11. /\ Wrapped(x + Count) = ColumnOf(body, n) + Times(body, n)
       /\ Wrapped(y + Count) = LineOf(body, n) + Times(body, n)
  BY <1>4, <1>8, <1>9, <1>10
<1>12. \A i \in 0 .. Count - 1 : Wrapped(x + i) = x + i
  BY <1>1, <1>6, <1>8, <1>9, <1>10
<1>13. Columns = {x + i : i \in 0 .. Count - 1}
  BY <1>12 DEF Columns
<1>14. RunAt(body, n) = Columns \X {y}
  <2>1. RunAt(body, n) = {<<x + i, y>> : i \in 0 .. Count - 1}
    BY <1>4, <1>8 DEF RunAt
  <2>. QED
    BY <1>13, <2>1
<1>. QED
  BY <1>1, <1>2, <1>3, <1>6, <1>8, <1>11, <1>13, <1>14 DEF n

\* A character keeps the invariant.
LEMMA CharMeans ==
  ASSUME RleTypeOK, ParserInv, NEW c \in Alphabet, ReadChar(c)
  PROVE  ParserInv'
<1>. DEFINE n == Len(body) + 1
<1>1. /\ parsing = "body" /\ body' = Append(body, c) /\ UNCHANGED <<width, height>>
      /\ body \in Seq(Alphabet) /\ n + 1 = Len(body') + 1
  <2>1. Reads(c)
    BY DEF ReadChar, ReadDigit, ReadDead, ReadAlive, ReadLineEnd, ReadSpace, ReadEndMark,
           ReadOther
  <2>2. body' = Append(body, c) /\ body \in Seq(Alphabet)
    BY <2>1 DEF Reads, RleTypeOK
  <2>3. Len(body') = Len(body) + 1
    BY <2>2
  <2>. QED
    BY <2>1, <2>2, <2>3 DEF Reads
<1>2. /\ Number(body)[Len(body)] \in Nat
      /\ Number(body')[Len(body')] = Extended(Number(body)[Len(body)], c)
  BY <1>1, NumberAfter
<1>3. /\ run = Wrapped(Number(body)[Len(body)])
      /\ Plain(body') => Plain(body) /\ PenMeans
  BY <1>1, MeaningAfter DEF ParserInv
<1>4. IsDigit(c) => c \notin Tags
  BY DEF IsDigit, Digits, Tags
<1>5. CASE ReadDigit(c) \/ ReadSpace(c)
  <2>1. c \notin Tags /\ c # "o" /\ parsing' = "body" /\ UNCHANGED <<x, y, cells>>
    BY <1>1, <1>4, <1>5 DEF ReadDigit, ReadSpace, Reads, Tags
  <2>2. run' = Wrapped(Number(body')[Len(body')])
    <3>1. CASE ReadDigit(c)
      <4>1. Extended(Number(body)[Len(body)], c)
              = 10 * Number(body)[Len(body)] + DigitOf(c)
        BY <1>2, <3>1, ExtendedNumber DEF ReadDigit
      <4>2. DigitOf(c) \in Nat
        BY <3>1, DigitRange DEF ReadDigit
      <4>3. run' = Wrapped(Wrapped(Number(body)[Len(body)]) * 10 + DigitOf(c))
        BY <1>3, <3>1 DEF ReadDigit
      <4>4. run' = Wrapped(10 * Number(body)[Len(body)] + DigitOf(c))
        BY <1>2, <4>2, <4>3, WrappedDigits
      <4>. QED
        BY <1>2, <4>1, <4>4
    <3>2. CASE ReadSpace(c)
      BY <1>2, <1>3, <3>2, ExtendedNumber DEF ReadSpace
    <3>. QED
      BY <1>5, <3>1, <3>2
  <2>3. Plain(body') => PenMeans'
    BY <1>1, <1>3, <2>1, PlaceAfter, MeaningAfter DEF PenMeans
  <2>. QED
    BY <2>1, <2>2, <2>3 DEF ParserInv
<1>6. CASE ReadDead(c) \/ ReadLineEnd(c) \/ (ReadAlive(c) /\ InBox)
  <2>1. /\ c \in Tags /\ parsing' = "body" /\ run' = 0
        /\ ~IsDigit(c) /\ c # " "
    BY <1>1, <1>4, <1>6 DEF ReadDead, ReadLineEnd, ReadAlive, Reads, Tags
  <2>2. run' = Wrapped(Number(body')[Len(body')])
    <3>1. Wrapped(0) = 0
      BY RleAssumption DEF Wrapped
    <3>. QED
      BY <1>2, <2>1, <3>1, ExtendedNumber
  <2>3. ASSUME Plain(body') PROVE PenMeans'
    <3>1. /\ PenMeans
          /\ Wrapped(x + Count) = ColumnOf(body, n) + Times(body, n)
          /\ Wrapped(y + Count) = LineOf(body, n) + Times(body, n)
          /\ RunAt(body, n) = Columns \X {y}
      BY <1>1, <2>1, <2>3, PlainTag
    <3>2. CASE ReadDead(c)
      <4>1. c = "b" /\ x' = Wrapped(x + Count) /\ UNCHANGED <<y, cells>>
        BY <3>2 DEF ReadDead
      <4>. QED
        BY <1>1, <3>1, <4>1, PlaceAfter, MeaningAfter DEF PenMeans
    <3>3. CASE ReadLineEnd(c)
      <4>1. c = "$" /\ y' = Wrapped(y + Count) /\ x' = 0 /\ UNCHANGED cells
        BY <3>3 DEF ReadLineEnd
      <4>. QED
        BY <1>1, <3>1, <4>1, PlaceAfter, MeaningAfter DEF PenMeans
    <3>4. CASE ReadAlive(c) /\ InBox
      <4>1. /\ c = "o" /\ x' = Wrapped(x + Count) /\ y' = y
            /\ cells' = cells \cup (Columns \X {y})
        BY <3>4 DEF ReadAlive
      <4>. QED
        BY <1>1, <3>1, <4>1, PlaceAfter, MeaningAfter DEF PenMeans
    <3>. QED
      BY <1>6, <3>2, <3>3, <3>4
  <2>. QED
    BY <2>1, <2>2, <2>3 DEF ParserInv
<1>7. CASE ReadAlive(c) /\ ~InBox
  <2>1. c = "o" /\ c \in Tags /\ parsing' = "OutOfBounds" /\ Box' = Box
    BY <1>1, <1>7 DEF ReadAlive, Tags, Box
  <2>2. ASSUME Plain(body'), Meaning(body') \subseteq Box PROVE FALSE
    <3>1. /\ Count \in Nat \ {0} /\ x \in Nat /\ y \in Nat
          /\ Columns = {x + i : i \in 0 .. Count - 1}
          /\ RunAt(body, n) = Columns \X {y}
      BY <1>1, <2>1, <2>2, PlainTag
    <3>2. Columns \X {y} \subseteq Box
      <4>1. Meaning(body') = Meaning(body) \cup RunAt(body, n)
        BY <1>1, <2>1, MeaningAfter
      <4>. QED
        BY <2>2, <3>1, <4>1
    <3>3. width \in Nat /\ height \in Nat
      BY RleAssumption DEF RleTypeOK, Word
    <3>4. ASSUME NEW p \in Columns PROVE p < width /\ y < height
      <4>1. <<p, y>> \in Box
        BY <3>2
      <4>. QED
        BY <3>3, <4>1 DEF Box
    <3>5. x + 0 \in Columns
      BY <3>1
    <3>. QED
      BY <1>7, <3>4, <3>5 DEF InBox
  <2>. QED
    BY <2>1, <2>2 DEF ParserInv
<1>8. CASE ReadEndMark(c) \/ ReadOther(c)
  <2>1. parsing' \in {"Ok", "UnexpectedChar"} /\ c # "o" /\ UNCHANGED cells
    BY <1>8 DEF ReadEndMark, ReadOther
  <2>2. Plain(body') => cells' = Meaning(body')
    BY <1>1, <1>3, <2>1, MeaningAfter DEF PenMeans
  <2>. QED
    BY <2>1, <2>2 DEF ParserInv
<1>. QED
  BY <1>5, <1>6, <1>7, <1>8 DEF ReadChar

\* So does every other step of the parser.
LEMMA ParseMeans == RleTypeOK /\ ParserInv /\ [RleNext]_rleVars => ParserInv'
<1>. SUFFICES ASSUME RleTypeOK, ParserInv, [RleNext]_rleVars PROVE ParserInv'
  OBVIOUS
<1>1. CASE NoHeader
  BY <1>1 DEF NoHeader, ParserInv
<1>2. ASSUME NEW h \in Headers, ReadHeader(h) PROVE ParserInv'
  <2>1. /\ parsing' \in {"MissingHeader", "UnsupportedRule", "body"}
        /\ UNCHANGED <<run, x, y, cells, body>>
        /\ run = 0 /\ x = 0 /\ y = 0 /\ cells = {} /\ body = <<>>
    BY <1>2 DEF ReadHeader, ParserInv
  <2>2. run' = Wrapped(Number(body')[Len(body')])
    <3>1. Wrapped(0) = 0
      BY RleAssumption DEF Wrapped
    <3>. QED
      BY <2>1, <3>1, EmptyBody
  <2>3. PenMeans'
    BY <2>1, EmptyBody DEF PenMeans
  <2>. QED
    BY <2>1, <2>2, <2>3 DEF ParserInv
<1>3. ASSUME NEW c \in Alphabet, ReadChar(c) PROVE ParserInv'
  BY <1>3, CharMeans
<1>4. CASE TextEnds
  BY <1>4 DEF TextEnds, ParserInv, PenMeans
<1>5. CASE UNCHANGED rleVars
  BY <1>5 DEF rleVars, ParserInv, PenMeans, Box
<1>. QED
  BY <1>1, <1>2, <1>3, <1>4, <1>5 DEF RleNext

\* A text not yet read satisfies the invariant, and it implies the property.
LEMMA MeaningKnown ==
  /\ parsing = "header" /\ run = 0 /\ x = 0 /\ y = 0 /\ cells = {} /\ body = <<>>
       => ParserInv
  /\ ParserInv => ParsesMeaning
BY DEF ParserInv, ParsesMeaning, PenMeans

=============================================================================
