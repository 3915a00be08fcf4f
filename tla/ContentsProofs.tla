----------------------------- MODULE ContentsProofs ----------------------------
(***************************************************************************)
(* What a record says of its model, for every set of timestamps and of     *)
(* footprints, every kind of tileset, every area and every limit.          *)
(***************************************************************************)
EXTENDS Contents, SequenceTheorems, TLAPS

-----------------------------------------------------------------------------
(* What the order of texts is worth.                                       *)

(* What is where when two sequences are joined.                            *)
LEMMA Joined ==
  ASSUME NEW u \in Seq(Int), NEW v \in Seq(Int)
  PROVE  /\ u \o v \in Seq(Int) /\ Len(u \o v) = Len(u) + Len(v)
         /\ \A i \in 1..Len(u) : (u \o v)[i] = u[i]
         /\ \A i \in 1..Len(v) : (u \o v)[Len(u) + i] = v[i]
<1>1. Len(u) \in Nat /\ Len(v) \in Nat
  OBVIOUS
<1>2. /\ u \o v \in Seq(Int) /\ Len(u \o v) = Len(u) + Len(v)
      /\ \A i \in 1..Len(u) + Len(v) :
           (u \o v)[i] = IF i <= Len(u) THEN u[i] ELSE v[i - Len(u)]
  BY ConcatProperties
<1>3. ASSUME NEW i \in 1..Len(u) PROVE (u \o v)[i] = u[i]
  BY <1>1, <1>2
<1>4. ASSUME NEW i \in 1..Len(v) PROVE (u \o v)[Len(u) + i] = v[i]
  <2>1. Len(u) + i \in 1..Len(u) + Len(v) /\ ~(Len(u) + i <= Len(u)) /\ (Len(u) + i) - Len(u) = i
    BY <1>1
  <2> QED
    BY <1>2, <2>1
<1> QED
  BY <1>2, <1>3, <1>4

(* What is where in a fraction.                                            *)
LEMMA FractionShape ==
  ASSUME NEW t \in Timestamps
  PROVE  /\ Len(t.digits) \in Nat /\ DOMAIN t.digits = 1..Len(t.digits)
         /\ Fraction(t) \in Seq(Int)
         /\ Len(Fraction(t)) = IF Len(t.digits) = 0 THEN 0 ELSE Len(t.digits) + 1
         /\ Len(t.digits) > 0 => Fraction(t)[1] = 46
         /\ \A i \in 1..Len(t.digits) : Fraction(t)[i + 1] = 48 + t.digits[i]
<1> DEFINE n == Len(t.digits)
           ds == [i \in DOMAIN t.digits |-> Code.zero + t.digits[i]]
<1>1. t.digits \in Seq(0..9) /\ n \in Nat /\ DOMAIN t.digits = 1..n
  BY DEF Timestamps
<1>2. ds \in Seq(Int) /\ Len(ds) = n /\ \A i \in 1..n : ds[i] = 48 + t.digits[i]
  BY <1>1 DEF Code
<1>3. CASE n = 0
  BY <1>1, <1>3 DEF Fraction
<1>4. CASE n > 0
  <2>1. Fraction(t) = <<46>> \o ds
    BY <1>1, <1>4 DEF Fraction, Code
  <2> HIDE DEF ds
  <2>2. <<46>> \in Seq(Int) /\ Len(<<46>>) = 1 /\ <<46>>[1] = 46
    OBVIOUS
  <2>3. /\ Fraction(t) \in Seq(Int) /\ Len(Fraction(t)) = 1 + n
        /\ \A i \in 1..1 : Fraction(t)[i] = <<46>>[i]
        /\ \A i \in 1..n : Fraction(t)[1 + i] = ds[i]
    BY <1>2, <2>1, <2>2, Joined
  <2>4. Fraction(t)[1] = 46
    BY <2>2, <2>3
  <2>5. ASSUME NEW i \in 1..n PROVE Fraction(t)[i + 1] = 48 + t.digits[i]
    <3>1. i + 1 = 1 + i
      BY <1>1
    <3> QED
      BY <1>2, <2>3, <3>1
  <2> QED
    BY <1>1, <1>4, <2>3, <2>4, <2>5
<1> QED
  BY <1>1, <1>3, <1>4

(* What is where in the text of a timestamp.                               *)
LEMMA TextShape ==
  ASSUME NEW t \in Timestamps
  PROVE  LET m == Len(Fraction(t)) IN
         /\ m \in Nat
         /\ DOMAIN Text(t) = 1..m + 3
         /\ Text(t)[1] = t.clock
         /\ \A i \in 1..m : Text(t)[i + 1] = Fraction(t)[i]
         /\ Text(t)[m + 2] = ZoneMark(t) /\ Text(t)[m + 3] = t.offset
<1> DEFINE f == Fraction(t)
           m == Len(f)
           c == <<t.clock>>
           z == <<ZoneMark(t), t.offset>>
<1>1. f \in Seq(Int) /\ m \in Nat
  BY FractionShape
<1>2. /\ c \in Seq(Int) /\ Len(c) = 1 /\ c[1] = t.clock
      /\ z \in Seq(Int) /\ Len(z) = 2 /\ z[1] = ZoneMark(t) /\ z[2] = t.offset
  BY DEF Timestamps, ZoneMark, Code
<1>3. Text(t) = (c \o f) \o z
  BY DEF Text
<1> HIDE DEF f, c, z
<1>4. /\ c \o f \in Seq(Int) /\ Len(c \o f) = 1 + m
      /\ \A i \in 1..1 : (c \o f)[i] = c[i]
      /\ \A i \in 1..m : (c \o f)[1 + i] = f[i]
  <2>1. /\ c \o f \in Seq(Int) /\ Len(c \o f) = Len(c) + Len(f)
        /\ \A i \in 1..Len(c) : (c \o f)[i] = c[i]
        /\ \A i \in 1..Len(f) : (c \o f)[Len(c) + i] = f[i]
    BY <1>1, <1>2, Joined
  <2> QED
    BY <1>2, <2>1
<1> DEFINE g == c \o f
<1> HIDE DEF g
<1>5. /\ g \in Seq(Int) /\ Len(g) = 1 + m /\ g[1] = t.clock
      /\ \A i \in 1..m : g[1 + i] = f[i]
  BY <1>2, <1>4 DEF g
<1>6. /\ Text(t) \in Seq(Int) /\ Len(Text(t)) = (1 + m) + 2
      /\ \A i \in 1..1 + m : Text(t)[i] = g[i]
      /\ \A i \in 1..2 : Text(t)[(1 + m) + i] = z[i]
  <2>1. Text(t) = g \o z
    BY <1>3 DEF g
  <2>2. /\ g \o z \in Seq(Int) /\ Len(g \o z) = Len(g) + Len(z)
        /\ \A i \in 1..Len(g) : (g \o z)[i] = g[i]
        /\ \A i \in 1..Len(z) : (g \o z)[Len(g) + i] = z[i]
    BY <1>2, <1>5, Joined
  <2> HIDE DEF m
  <2> QED
    BY <1>2, <1>5, <2>1, <2>2
<1>7. DOMAIN Text(t) = 1..m + 3
  BY <1>1, <1>6
<1>8. Text(t)[1] = t.clock
  BY <1>1, <1>5, <1>6
<1>9. ASSUME NEW i \in 1..m PROVE Text(t)[i + 1] = f[i]
  <2>1. 1 + i \in 1..1 + m /\ i + 1 = 1 + i
    BY <1>1
  <2> QED
    BY <1>5, <1>6, <2>1
<1>10. Text(t)[m + 2] = ZoneMark(t) /\ Text(t)[m + 3] = t.offset
  <2>1. m + 2 = (1 + m) + 1 /\ m + 3 = (1 + m) + 2
    BY <1>1
  <2> QED
    BY <1>2, <1>6, <2>1
<1> QED
  BY <1>1, <1>7, <1>8, <1>9, <1>10 DEF f

(* Texts written alike differ in the clock or in a digit.                  *)
LEMMA Differences ==
  ASSUME WrittenAlike, NEW s \in Written, NEW t \in Written
  PROVE  LET n == Len(s.digits) IN
         /\ n \in Nat /\ DOMAIN s.digits = 1..n /\ DOMAIN t.digits = 1..n
         /\ DOMAIN Text(s) = DOMAIN Text(t)
         /\ 1 \in DOMAIN Text(s) /\ Text(s)[1] = s.clock /\ Text(t)[1] = t.clock
         /\ \A i \in 1..n : /\ 1..i + 2 \subseteq DOMAIN Text(s)
                            /\ Text(s)[i + 2] = 48 + s.digits[i]
                            /\ Text(t)[i + 2] = 48 + t.digits[i]
         /\ \A p \in DOMAIN Text(s) :
              p \in Nat /\ (p = 1 \/ Text(s)[p] = Text(t)[p] \/ \E i \in 1..n : p = i + 2)
<1> DEFINE n == Len(s.digits)
           m == Len(Fraction(s))
<1>1. s \in Timestamps /\ t \in Timestamps
  BY WrittenAssumption
<1>2. s.sign = t.sign /\ s.offset = t.offset /\ Len(t.digits) = n
  BY DEF WrittenAlike
<1>3. ZoneMark(s) = ZoneMark(t)
  BY <1>2 DEF ZoneMark
<1>4. /\ n \in Nat /\ DOMAIN s.digits = 1..n /\ DOMAIN t.digits = 1..n
      /\ m = (IF n = 0 THEN 0 ELSE n + 1) /\ Len(Fraction(t)) = m
      /\ n > 0 => Fraction(s)[1] = 46 /\ Fraction(t)[1] = 46
      /\ \A i \in 1..n : /\ Fraction(s)[i + 1] = 48 + s.digits[i]
                         /\ Fraction(t)[i + 1] = 48 + t.digits[i]
  BY <1>1, <1>2, FractionShape
<1>5. /\ m \in Nat /\ DOMAIN Text(s) = 1..m + 3 /\ DOMAIN Text(t) = 1..m + 3
      /\ Text(s)[1] = s.clock /\ Text(t)[1] = t.clock
      /\ \A i \in 1..m : Text(s)[i + 1] = Fraction(s)[i] /\ Text(t)[i + 1] = Fraction(t)[i]
      /\ Text(s)[m + 2] = Text(t)[m + 2] /\ Text(s)[m + 3] = Text(t)[m + 3]
  BY <1>1, <1>2, <1>3, <1>4, TextShape
<1> HIDE DEF n, m
<1>6. ASSUME NEW i \in 1..n
      PROVE  /\ 1..i + 2 \subseteq DOMAIN Text(s)
             /\ Text(s)[i + 2] = 48 + s.digits[i]
             /\ Text(t)[i + 2] = 48 + t.digits[i]
  <2>1. i + 1 \in 1..m /\ i + 2 = (i + 1) + 1 /\ i + 2 <= m + 3 /\ i \in Nat
    BY <1>4, <1>6
  <2>2. Text(s)[(i + 1) + 1] = Fraction(s)[i + 1] /\ Text(t)[(i + 1) + 1] = Fraction(t)[i + 1]
    BY <1>5, <2>1
  <2>3. 1..i + 2 \subseteq 1..m + 3
    BY <1>5, <2>1
  <2> QED
    BY <1>4, <1>5, <2>1, <2>2, <2>3
<1>7. ASSUME NEW p \in DOMAIN Text(s), p # 1, Text(s)[p] # Text(t)[p]
      PROVE  \E i \in 1..n : p = i + 2
  <2>1. p - 1 \in 1..m /\ p = (p - 1) + 1
    BY <1>5, <1>7
  <2>2. n > 0 /\ m = n + 1
    BY <1>4, <2>1
  <2>3. p - 1 # 1
    BY <1>4, <1>5, <1>7, <2>1, <2>2
  <2>4. p - 2 \in 1..n /\ p = (p - 2) + 2
    BY <1>4, <1>5, <2>1, <2>2, <2>3
  <2> QED
    BY <2>4
<1>8. 1 \in DOMAIN Text(s) /\ DOMAIN Text(s) \subseteq Nat
  BY <1>5
<1> QED
  BY <1>4, <1>5, <1>6, <1>7, <1>8 DEF n

(***************************************************************************)
(* Between timestamps written alike, isDatesValid of validationManager.ts  *)
(* compares the instants: this is what lets module Records have numbers    *)
(* for dates.                                                              *)
(***************************************************************************)
THEOREM TextOrderIsTimeOrder ==
  ASSUME WrittenAlike, NEW s \in Written, NEW t \in Written
  PROVE  isDatesValid(s, t) <=> ~isLater(s, t)
<1> DEFINE n == Len(s.digits)
<1>1. /\ n \in Nat /\ DOMAIN s.digits = 1..n /\ DOMAIN t.digits = 1..n
      /\ DOMAIN Text(s) = DOMAIN Text(t)
      /\ 1 \in DOMAIN Text(s) /\ Text(s)[1] = s.clock /\ Text(t)[1] = t.clock
      /\ \A i \in 1..n : /\ 1..i + 2 \subseteq DOMAIN Text(s)
                         /\ Text(s)[i + 2] = 48 + s.digits[i]
                         /\ Text(t)[i + 2] = 48 + t.digits[i]
      /\ \A p \in DOMAIN Text(s) :
           p \in Nat /\ (p = 1 \/ Text(s)[p] = Text(t)[p] \/ \E i \in 1..n : p = i + 2)
  BY Differences
<1> HIDE DEF n
<1>2. /\ s.clock \in Nat /\ t.clock \in Nat
      /\ \A i \in 1..n : /\ s.digits[i] \in 0..9 /\ Digit(s, i) = s.digits[i]
                         /\ t.digits[i] \in 0..9 /\ Digit(t, i) = t.digits[i]
  BY <1>1, WrittenAssumption DEF Timestamps, Digit
<1>3. East(s) = East(t) /\ East(t) \in Int
  BY WrittenAssumption DEF WrittenAlike, East, Timestamps
<1>4. /\ Second(s) > Second(t) <=> s.clock > t.clock
      /\ Second(s) = Second(t) <=> s.clock = t.clock
  BY <1>2, <1>3 DEF Second
<1>5. ASSUME isDatesValid(s, t), isLater(s, t) PROVE FALSE
  <2>1. CASE s.clock > t.clock
    <3>1. FirstDifference(Text(s), Text(t), 1)
      BY <1>1, <1>2, <2>1 DEF FirstDifference
    <3> QED
      BY <1>1, <1>2, <1>5, <2>1, <3>1 DEF isDatesValid
  <2>2. CASE s.clock <= t.clock
    <3>1. PICK i \in 1..n : /\ s.clock = t.clock
                            /\ Digit(s, i) > Digit(t, i)
                            /\ \A j \in 1..i - 1 : Digit(s, j) = Digit(t, j)
      BY <1>1, <1>2, <1>4, <1>5, <2>2 DEF isLater
    <3>2. \A j \in 1..i - 1 : s.digits[j] = t.digits[j]
      BY <1>1, <1>2, <3>1
    <3>3. Text(s)[i + 2] > Text(t)[i + 2]
      <4>1. /\ Text(s)[i + 2] = 48 + s.digits[i] /\ Text(t)[i + 2] = 48 + t.digits[i]
            /\ s.digits[i] > t.digits[i] /\ s.digits[i] \in 0..9 /\ t.digits[i] \in 0..9
        BY <1>1, <1>2, <3>1
      <4> QED
        BY <4>1
    <3>4. ASSUME NEW p \in 1..(i + 2) - 1 PROVE Text(s)[p] = Text(t)[p]
      <4>1. p \in DOMAIN Text(s)
        BY <1>1
      <4>2. ASSUME NEW j \in 1..n, p = j + 2 PROVE Text(s)[p] = Text(t)[p]
        <5>1. j \in 1..i - 1
          BY <1>1, <4>2
        <5>2. Text(s)[j + 2] = 48 + s.digits[j] /\ Text(t)[j + 2] = 48 + t.digits[j]
          BY <1>1
        <5> QED
          BY <3>2, <4>2, <5>1, <5>2
      <4> QED
        BY <1>1, <3>1, <4>1, <4>2
    <3>5. /\ i + 2 \in DOMAIN Text(s) \cap DOMAIN Text(t)
          /\ Text(s)[i + 2] \in Int /\ Text(t)[i + 2] \in Int
      <4>1. /\ 1..i + 2 \subseteq DOMAIN Text(s)
            /\ Text(s)[i + 2] = 48 + s.digits[i] /\ Text(t)[i + 2] = 48 + t.digits[i]
        BY <1>1
      <4>2. s.digits[i] \in 0..9 /\ t.digits[i] \in 0..9
        BY <1>2
      <4>3. Text(s)[i + 2] \in Int /\ Text(t)[i + 2] \in Int
        BY <4>1, <4>2
      <4>4. i + 2 \in 1..i + 2
        BY <1>1
      <4> QED
        BY <1>1, <4>1, <4>3, <4>4
    <3>6. FirstDifference(Text(s), Text(t), i + 2)
      <4>1. Text(s)[i + 2] # Text(t)[i + 2]
        BY <3>3, <3>5
      <4> QED
        BY <3>4, <4>1 DEF FirstDifference
    <3>7. Text(s)[i + 2] < Text(t)[i + 2]
      BY <1>5, <3>5, <3>6 DEF isDatesValid
    <3> QED
      BY <3>3, <3>5, <3>7
  <2> QED
    BY <1>2, <2>1, <2>2
<1>6. ASSUME ~isLater(s, t), NEW p \in DOMAIN Text(s), FirstDifference(Text(s), Text(t), p)
      PROVE  Text(s)[p] < Text(t)[p]
  <2>1. CASE p = 1
    BY <1>1, <1>2, <1>4, <1>6, <2>1 DEF isLater, FirstDifference
  <2>2. ASSUME NEW i \in 1..n, p = i + 2
        PROVE  Text(s)[p] < Text(t)[p]
    <3>1. \A j \in 1..(i + 2) - 1 : Text(s)[j] = Text(t)[j]
      BY <1>6, <2>2 DEF FirstDifference
    <3>2. s.clock = t.clock
      BY <1>1, <3>1
    <3>3. ASSUME NEW j \in 1..i - 1 PROVE Digit(s, j) = Digit(t, j)
      <4>1. j \in 1..n /\ j + 2 \in 1..(i + 2) - 1
        BY <1>1
      <4>2. Text(s)[j + 2] = Text(t)[j + 2]
        BY <3>1, <4>1
      <4>3. Text(s)[j + 2] = 48 + s.digits[j] /\ Text(t)[j + 2] = 48 + t.digits[j]
        BY <1>1, <4>1
      <4>4. /\ s.digits[j] \in 0..9 /\ Digit(s, j) = s.digits[j]
            /\ t.digits[j] \in 0..9 /\ Digit(t, j) = t.digits[j]
        BY <1>2, <4>1
      <4>5. 48 + s.digits[j] = 48 + t.digits[j]
        BY <4>2, <4>3
      <4>6. s.digits[j] = t.digits[j]
        BY <4>4, <4>5
      <4> QED
        BY <4>4, <4>6
    <3>4. ~(Digit(s, i) > Digit(t, i))
      <4>1. Second(s) = Second(t) /\ i \in DOMAIN s.digits
        BY <1>1, <1>4, <3>2
      <4> QED
        BY <1>6, <3>3, <4>1 DEF isLater
    <3>5. /\ s.digits[i] \in 0..9 /\ Digit(s, i) = s.digits[i]
          /\ t.digits[i] \in 0..9 /\ Digit(t, i) = t.digits[i]
          /\ Text(s)[p] = 48 + s.digits[i] /\ Text(t)[p] = 48 + t.digits[i]
      BY <1>1, <1>2, <2>2
    <3>6. Text(s)[p] # Text(t)[p]
      BY <1>6 DEF FirstDifference
    <3> QED
      BY <3>4, <3>5, <3>6
  <2> QED
    BY <1>1, <1>6, <2>1, <2>2 DEF FirstDifference
<1> QED
  BY <1>1, <1>5, <1>6 DEF isDatesValid

(* The catalog answers with what was written, whether or not it rewrites.  *)
LEMMA StoredAsWritten ==
  ASSUME WrittenAlike, NEW t \in Written
  PROVE  Stored(t) = t
<1>1. CASE ~Rewrites
  BY <1>1 DEF Stored
<1>2. CASE Rewrites
  <2>1. t \in Timestamps /\ t.sign = "Z" /\ Len(t.digits) = Precision
    BY <1>2, WrittenAssumption DEF WrittenAlike
  <2>2. t.offset = 0 /\ t.clock \in Nat /\ t.digits \in Seq(0..9)
    BY <2>1 DEF Timestamps
  <2>3. Second(t) = t.clock
    BY <2>1, <2>2 DEF Second, East
  <2>4. t.digits = [i \in 1..Precision |-> Digit(t, i)]
    BY <2>1, <2>2 DEF Digit
  <2>5. t = [clock |-> t.clock, digits |-> t.digits, sign |-> t.sign, offset |-> t.offset]
    BY <2>1 DEF Timestamps
  <2> QED
    BY <1>2, <2>1, <2>2, <2>3, <2>4, <2>5 DEF Stored, Utc
<1> QED
  BY <1>1, <1>2

(* The dates of the record are dates that clients wrote, in order.         *)
DatesInv ==
  \/ start = Undefined /\ end = Undefined
  \/ start \in Written /\ end \in Written /\ ~isLater(start, end)

(* Whoever omits a date writes none.                                       *)
LEMMA UndefinedIsNotWritten == Undefined \notin Written
  BY WrittenAssumption

(* Every accepted request leaves dates that were written, in order.        *)
LEMMA DatesStep ==
  ASSUME WrittenAlike, DatesInv, [Next]_vars
  PROVE  DatesInv'
<1>1. ASSUME NEW s \in Written, NEW e \in Written, IngestDates(s, e)
      PROVE  DatesInv'
  <2>1. start' = s /\ end' = e
    BY <1>1, StoredAsWritten DEF IngestDates
  <2>2. ~isLater(s, e)
    BY <1>1, TextOrderIsTimeOrder DEF IngestDates
  <2> QED
    BY <2>1, <2>2 DEF DatesInv, isLater, Second, East, Digit
<1>2. ASSUME NEW s \in Written \cup {Undefined}, NEW e \in Written \cup {Undefined},
             UpdateDates(s, e)
      PROVE  DatesInv'
  <2>1. start \in Written /\ end \in Written /\ ~isLater(start, end)
    BY <1>2 DEF DatesInv, UpdateDates, Exists
  <2>2. start' = Or(s, start) /\ end' = Or(e, end)
    BY <1>2, StoredAsWritten DEF UpdateDates, Or
  <2>3. Or(s, start) \in Written /\ Or(e, end) \in Written
    BY <2>1 DEF Or
  <2>4. CASE s = Undefined /\ e = Undefined
    BY <2>1, <2>2, <2>4 DEF Or, DatesInv
  <2>5. CASE s # Undefined \/ e # Undefined
    <3>1. isDatesValid(Or(s, start), Or(e, end))
      BY <1>2, <2>5 DEF UpdateDates, isUpdateInOrder
    <3>2. ~isLater(Or(s, start), Or(e, end))
      BY <2>3, <3>1, TextOrderIsTimeOrder
    <3> QED
      BY <2>2, <2>3, <3>2 DEF DatesInv, isLater, Second, East, Digit
  <2> QED
    BY <2>4, <2>5
<1>3. CASE UNCHANGED dates
  BY <1>3 DEF DatesInv, dates, isLater, Second, East, Digit
<1>4. CASE SendBack
  BY <1>2, <1>4 DEF SendBack, Update, Exists, DatesInv
<1> QED
  BY <1>1, <1>2, <1>3, <1>4 DEF Next, Ingest, Update, vars

(***************************************************************************)
(* If clients write their dates alike, no sequence of accepted requests    *)
(* leaves a record that starts later than it ends.                         *)
(***************************************************************************)
THEOREM DatesStayOrdered == WrittenAlike => (Spec => []InstantsOrdered)
<1>1. SUFFICES ASSUME WrittenAlike
               PROVE  Spec => []InstantsOrdered
  OBVIOUS
<1>2. Init => DatesInv
  BY DEF Init, InitDates, DatesInv
<1>3. DatesInv /\ [Next]_vars => DatesInv'
  BY <1>1, DatesStep
<1>4. DatesInv => InstantsOrdered
  BY UndefinedIsNotWritten DEF DatesInv, InstantsOrdered, Exists
<1> QED
  BY <1>2, <1>3, <1>4, PTL DEF Spec
-----------------------------------------------------------------------------
(* What the conversion of a footprint is worth.                            *)

(* Flattening keeps the positions of a ring, and closes what only its      *)
(* heights kept open.                                                      *)
LEMMA FlatRing ==
  ASSUME NEW r \in Rings
  PROVE  /\ Flat(r) \in Rings
         /\ Flat(r).sizes = {2} /\ Flat(r).first = 2
         /\ Flat(r).positions = r.positions
         /\ r.closing = "equal" => Flat(r).closing = "equal"
  BY DEF Flat, Rings

(* Conversion touches the rings, and each of them alone.                   *)
LEMMA ConvertedRings ==
  ASSUME NEW f \in Polygons
  PROVE  LET g == convertPolygonTo2DPolygon(f) IN
         /\ g \in Polygons
         /\ g.type = f.type
         /\ g.inside = f.inside /\ g.outside = f.outside
         /\ DOMAIN g.rings = DOMAIN f.rings
         /\ \A i \in DOMAIN f.rings : g.rings[i] = Flat(f.rings[i])
<1> DEFINE g == convertPolygonTo2DPolygon(f)
           rs == [i \in DOMAIN f.rings |-> Flat(f.rings[i])]
<1>1. f.rings \in Seq(Rings)
  BY DEF Polygons
<1>2. g = [f EXCEPT !.rings = rs]
  BY DEF convertPolygonTo2DPolygon
<1>3. \A r \in Rings : Flat(r) \in Rings
  BY FlatRing
<1>4. rs \in Seq(Rings) /\ DOMAIN rs = DOMAIN f.rings
  BY <1>1, <1>3
<1>5. /\ g \in Polygons /\ g.rings = rs /\ g.type = f.type
      /\ g.inside = f.inside /\ g.outside = f.outside
  BY <1>2, <1>4 DEF Polygons
<1>6. \A i \in DOMAIN f.rings : rs[i] = Flat(f.rings[i])
  OBVIOUS
<1> QED
  BY <1>4, <1>5, <1>6

(***************************************************************************)
(* What the conversion makes of an accepted footprint is flat and closed,  *)
(* and is accepted by the same checks.                                     *)
(***************************************************************************)
LEMMA ConvertedIsAccepted ==
  ASSUME NEW f \in Polygons, NEW file, isAccepted(f, file)
  PROVE  LET g == convertPolygonTo2DPolygon(f) IN
         /\ isAccepted(g, file)
         /\ g.rings # <<>>
         /\ \A i \in DOMAIN g.rings : g.rings[i].sizes = {2} /\ g.rings[i].closing = "equal"
         /\ g.inside > 0
<1> DEFINE g == convertPolygonTo2DPolygon(f)
<1>1. /\ g.type = f.type /\ g.inside = f.inside /\ g.outside = f.outside
      /\ DOMAIN g.rings = DOMAIN f.rings
      /\ \A i \in DOMAIN f.rings : g.rings[i] = Flat(f.rings[i])
      /\ f.rings \in Seq(Rings) /\ g.rings \in Seq(Rings)
  BY ConvertedRings DEF Polygons
<1>2. /\ f.rings # <<>> /\ f.type = "Polygon"
      /\ \A i \in DOMAIN f.rings : f.rings[i].positions >= 4 /\ f.rings[i].closing = "equal"
  BY DEF isAccepted, isPolygonValid, footprintSchema, validateCoordinates,
         isFootprintAndModelIntersects, polygon
<1>3. \A i \in DOMAIN f.rings : f.rings[i] \in Rings
  BY <1>1
<1>4. \A i \in DOMAIN g.rings :
        /\ g.rings[i].sizes = {2} /\ g.rings[i].first = 2
        /\ g.rings[i].positions >= 4 /\ g.rings[i].closing = "equal"
  BY <1>1, <1>2, <1>3, FlatRing
<1>5. 1 \in DOMAIN f.rings /\ g.rings # <<>>
  BY <1>1, <1>2
<1>6. isPolygonValid(g)
  BY <1>1, <1>2, <1>4, <1>5
     DEF isPolygonValid, footprintSchema, validateCoordinates, validateCoordinatesAreAll2DOr3D
<1>7. f.inside > 0 /\ isCoverageReached(f) /\ getTilesetModelPolygon(file)
  BY DEF isAccepted, isFootprintAndModelIntersects
<1>8. g.inside > 0 /\ isCoverageReached(g) /\ polygon(g)
  BY <1>1, <1>4, <1>7 DEF isCoverageReached, polygon
<1> QED
  BY <1>4, <1>5, <1>6, <1>7, <1>8 DEF isAccepted, isFootprintAndModelIntersects

FootprintInv ==
  /\ footprint \in Polygons \cup {NoFootprint}
  /\ StoredIsFlatAndClosed
  /\ StoredIsAcceptedAgain

(* Every accepted request leaves a footprint that is accepted and flat.    *)
LEMMA FootprintStep ==
  ASSUME FootprintInv, [Next]_vars
  PROVE  FootprintInv'
<1>1. ASSUME NEW f \in Polygons, isAccepted(f, tileset),
             footprint' = convertPolygonTo2DPolygon(f), UNCHANGED tileset
      PROVE  FootprintInv'
  BY <1>1, ConvertedIsAccepted, ConvertedRings
     DEF FootprintInv, StoredIsFlatAndClosed, StoredIsAcceptedAgain
<1>2. CASE UNCHANGED <<tileset, footprint>>
  BY <1>2 DEF FootprintInv, StoredIsFlatAndClosed, StoredIsAcceptedAgain
<1>3. ASSUME NEW f \in Polygons, IngestFootprint(f) \/ UpdateFootprint(f)
      PROVE  FootprintInv'
  BY <1>1, <1>2, <1>3 DEF IngestFootprint, UpdateFootprint
<1>4. CASE UpdateFootprint(NoFootprint)
  BY <1>2, <1>4 DEF UpdateFootprint
<1>5. CASE SendBack
  BY <1>3, <1>4, <1>5 DEF SendBack, Update, FootprintInv
<1> QED
  BY <1>2, <1>3, <1>4, <1>5, FootprintAssumption DEF Next, Ingest, Update, vars

(* Every accepted footprint has passed the checks, and so has what was     *)
(* made of it.                                                             *)
LEMMA FootprintInvariant == Spec => []FootprintInv
<1>1. Init => FootprintInv
  BY DEF Init, InitFootprint, FootprintInv, StoredIsFlatAndClosed, StoredIsAcceptedAgain
<1>2. FootprintInv /\ [Next]_vars => FootprintInv'
  BY FootprintStep
<1> QED
  BY <1>1, <1>2, PTL DEF Spec

(***************************************************************************)
(* Whatever footprints clients send, with holes or heights, the one that   *)
(* modelManager.ts and metadataManager.ts store is flat, closed in every   *)
(* ring, and meets the model.                                              *)
(***************************************************************************)
THEOREM StoredFootprints == Spec => []StoredIsFlatAndClosed
<1>1. FootprintInv => StoredIsFlatAndClosed
  BY DEF FootprintInv
<1> QED
  BY <1>1, FootprintInvariant, PTL

(***************************************************************************)
(* What is stored passes the checks of validationManager.ts once more.     *)
(***************************************************************************)
THEOREM SentBackFootprints == Spec => []StoredIsAcceptedAgain
<1>1. FootprintInv => StoredIsAcceptedAgain
  BY DEF FootprintInv
<1> QED
  BY <1>1, FootprintInvariant, PTL
================================================================================
