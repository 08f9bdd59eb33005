-------------------------- MODULE BindingsProofs --------------------------
(***************************************************************************)
(* Whatever is edited, generated and built, and in whatever order, an app  *)
(* that boots calls every function it knows with the signature its library *)
(* has.  The check at boot is not enough by itself: it reads the checksum  *)
(* of every known function out of the library, which is there to be read   *)
(* only because the app was linked.  Linked is the strengthening.          *)
(*                                                                         *)
(* And whatever error it raises is read as itself or as an unexpected      *)
(* case, because the bindings an app has are behind its library by cases   *)
(* at the end of the enum and by nothing else, and because what is written *)
(* of an error is read.  That comes first: Written, Sized and ReadFields   *)
(* are recursive functions on 0 .. Len(fields), and a function of that     *)
(* kind is only as good as the proof that there is one, which Sizes,       *)
(* Writings and Readings take from NatRecursion.  The facts about every    *)
(* prefix of an error are by induction on the number of its fields, with   *)
(* the set of the prefixes they hold of.  That the arms of write and of    *)
(* allocationSize go through the fields Rust declares is                   *)
(* ArmsFollowTheDeclaration, from the two tables and from the enum.        *)
(***************************************************************************)
EXTENDS Bindings, NatRecursion, SequenceTheorems, TLAPS

---------------------------------------------------------------------------
(* What is written is what is read. *)

\* A field as it travels: a string is its length.
FieldValue == [string : Nat] \cup [u32 : Nat]

\* Words are joined in any grouping.
LEMMA Regrouping ==
    \A s \in Seq(Nat) : \A t \in Seq(Nat) : \A u \in Seq(Nat) :
      (s \o t) \o u = s \o (t \o u)
  OBVIOUS

\* A field's value is written in the words its size counts.
LEMMA FieldsAreWrittenInTheirSize ==
    ASSUME NEW v \in FieldValue
    PROVE  /\ Size(v) \in Nat
           /\ WriteField(v) \in Seq(Nat)
           /\ Len(WriteField(v)) = Size(v)
<1>1. CASE v \in [string : Nat]
  <2>1. PICK n \in Nat : v = [string |-> n]
    BY <1>1
  <2> DEFINE text == [i \in 1 .. n |-> 0]
  <2>2. "string" \in DOMAIN v /\ v.string = n
    BY <2>1
  <2>3. WriteField(v) = <<n>> \o text /\ Size(v) = 1 + n
    BY <2>2 DEF WriteField, Size
  <2>4. text \in Seq(Nat) /\ Len(text) = n
    OBVIOUS
  <2>5. <<n>> \in Seq(Nat) /\ Len(<<n>>) = 1
    OBVIOUS
  <2> HIDE DEF text
  <2> QED BY <2>3, <2>4, <2>5, ConcatProperties
<1>2. CASE v \in [u32 : Nat]
  <2>1. PICK n \in Nat : v = [u32 |-> n]
    BY <1>2
  <2>2. "string" \notin DOMAIN v /\ v.u32 = n
    BY <2>1
  <2> QED BY <2>1, <2>2 DEF WriteField, Size
<1> QED BY <1>1, <1>2 DEF FieldValue

\* size counts an error field by field.
Counts(size, inner) ==
    /\ size[0] = 1
    /\ \A k \in 1 .. Len(inner) : size[k] = size[k - 1] + Size(inner[k])

\* written has an error field by field, after its ordinal.
Writes(written, ordinal, inner) ==
    /\ written[0] = <<ordinal>>
    /\ \A k \in 1 .. Len(inner) : written[k] = written[k - 1] \o WriteField(inner[k])

\* from has what is left, and what was read, field by field.
Reads(from, words, fields) ==
    /\ from[0] = [words |-> words, inner |-> << >>, overrun |-> FALSE]
    /\ \A k \in 1 .. Len(fields) : from[k] = ReadField(from[k - 1], fields[k])

\* The recursion of allocationSize has a solution, and every part of it is a size.
LEMMA Sizes ==
    ASSUME NEW inner \in Seq(FieldValue), NEW n, n = Len(inner)
    PROVE  \E size : Counts(size, inner) /\ Sized(inner) = size[n]
<1> DEFINE step == [k \in 1 .. n |-> [x \in Nat |-> x + Size(inner[k])]]
           size[k \in 0 .. Len(inner)] ==
             IF k = 0 THEN 1 ELSE size[k - 1] + Size(inner[k])
<1>1. n \in Nat /\ \A k \in 1 .. n : inner[k] \in FieldValue
  OBVIOUS
<1>2. step \in [1 .. n -> [Nat -> Nat]]
  BY <1>1, FieldsAreWrittenInTheirSize
<1>3. PICK g \in [0 .. n -> Nat] : Follows(g, n, 1, step)
  <2> HIDE DEF step
  <2> QED BY <1>1, <1>2, RecursionOnInterval
<1>4. g = [k \in 0 .. n |-> IF k = 0 THEN 1 ELSE g[k - 1] + Size(inner[k])]
  <2>1. ASSUME NEW k \in 1 .. n PROVE g[k] = g[k - 1] + Size(inner[k])
    <3>1. step[k] = [x \in Nat |-> x + Size(inner[k])] /\ g[k - 1] \in Nat
      BY <1>1
    <3> QED BY <1>3, <3>1 DEF Follows
  <2> QED BY <1>3, <2>1 DEF Follows
<1>5. size = [k \in 0 .. n |-> IF k = 0 THEN 1 ELSE size[k - 1] + Size(inner[k])]
  BY <1>4, Zenon
<1>6. Sized(inner) = size[n]
  BY DEF Sized
<1> HIDE DEF size
<1>7. size[0] = 1
  <2>1. 0 \in 0 .. n
    BY <1>1
  <2> QED BY <1>5, <2>1, Zenon
<1>8. ASSUME NEW k \in 1 .. n PROVE size[k] = size[k - 1] + Size(inner[k])
  <2>1. k \in 0 .. n /\ k # 0
    BY <1>1
  <2> QED BY <1>5, <2>1, Zenon
<1> QED BY <1>6, <1>7, <1>8 DEF Counts

\* So has that of write, for an ordinal that is a number.
LEMMA Writings ==
    ASSUME NEW inner \in Seq(FieldValue), NEW n, n = Len(inner), NEW ordinal \in Nat
    PROVE  \E written : Writes(written, ordinal, inner) /\ Written(ordinal, inner) = written[n]
<1> DEFINE step == [k \in 1 .. n |-> [x \in Seq(Nat) |-> x \o WriteField(inner[k])]]
           written[k \in 0 .. Len(inner)] ==
             IF k = 0 THEN <<ordinal>> ELSE written[k - 1] \o WriteField(inner[k])
<1>1. n \in Nat /\ \A k \in 1 .. n : WriteField(inner[k]) \in Seq(Nat)
  <2>1. \A k \in 1 .. n : inner[k] \in FieldValue
    OBVIOUS
  <2> QED BY <2>1, FieldsAreWrittenInTheirSize
<1>2. step \in [1 .. n -> [Seq(Nat) -> Seq(Nat)]]
  BY <1>1, ConcatProperties
<1>3. PICK g \in [0 .. n -> Seq(Nat)] : Follows(g, n, <<ordinal>>, step)
  <2>1. <<ordinal>> \in Seq(Nat)
    OBVIOUS
  <2> HIDE DEF step
  <2> QED BY <1>1, <1>2, <2>1, RecursionOnInterval
<1>4. g = [k \in 0 .. n |-> IF k = 0 THEN <<ordinal>> ELSE g[k - 1] \o WriteField(inner[k])]
  <2>1. ASSUME NEW k \in 1 .. n PROVE g[k] = g[k - 1] \o WriteField(inner[k])
    <3>1. g[k] = step[k][g[k - 1]]
      <4> HIDE DEF step
      <4> QED BY <1>3 DEF Follows
    <3>2. g[k - 1] \in Seq(Nat)
      <4>1. k - 1 \in 0 .. n
        BY <1>1
      <4>2. g \in [0 .. n -> Seq(Nat)]
        BY <1>3
      <4> QED BY <4>1, <4>2, Zenon
    <3>3. step[k] = [x \in Seq(Nat) |-> x \o WriteField(inner[k])]
      OBVIOUS
    <3> HIDE DEF step
    <3>4. step[k][g[k - 1]] = g[k - 1] \o WriteField(inner[k])
      BY <3>2, <3>3, Zenon
    <3> QED BY <3>1, <3>4
  <2>2. g[0] = <<ordinal>> /\ g \in [0 .. n -> Seq(Nat)]
    BY <1>3 DEF Follows
  <2> HIDE DEF step
  <2> DEFINE h == [k \in 0 .. n |-> IF k = 0 THEN <<ordinal>> ELSE g[k - 1] \o WriteField(inner[k])]
  <2>3. ASSUME NEW k \in 0 .. n PROVE g[k] = h[k]
    <3>1. CASE k = 0
      BY <2>2, <3>1
    <3>2. CASE k # 0
      <4>1. k \in 1 .. n
        BY <1>1, <3>2
      <4>2. h[k] = g[k - 1] \o WriteField(inner[k])
        BY <3>2, Zenon
      <4> HIDE DEF h
      <4> QED BY <2>1, <4>1, <4>2, Zenon
    <3> QED BY <3>1, <3>2
  <2>4. DOMAIN h = 0 .. n /\ h = [k \in 0 .. n |-> h[k]]
    BY Zenon
  <2>5. g = [k \in 0 .. n |-> g[k]]
    BY <2>2
  <2>6. g = h
    <3> HIDE DEF h
    <3> QED BY <2>3, <2>4, <2>5, Zenon
  <2> QED BY <2>6, Zenon
<1>5. written = [k \in 0 .. n |-> IF k = 0 THEN <<ordinal>>
                                  ELSE written[k - 1] \o WriteField(inner[k])]
  BY <1>4, Zenon
<1>6. Written(ordinal, inner) = written[n]
  BY DEF Written
<1> HIDE DEF written
<1>7. written[0] = <<ordinal>>
  <2>1. 0 \in 0 .. n
    BY <1>1
  <2> QED BY <1>5, <2>1, Zenon
<1>8. ASSUME NEW k \in 1 .. n PROVE written[k] = written[k - 1] \o WriteField(inner[k])
  <2>1. k \in 0 .. n /\ k # 0
    BY <1>1
  <2> QED BY <1>5, <2>1, Zenon
<1> QED BY <1>6, <1>7, <1>8 DEF Writes

\* The types of the fields of AbiError.
FieldType == {"string", "u32"}

\* A reader: the words that are left, what was read, and whether they ran out.
Reader == [words : Seq(Nat), inner : Seq(FieldValue), overrun : BOOLEAN]

\* A field is read off a reader, and a reader is left.
LEMMA ReadersStayReaders ==
    ASSUME NEW from \in Reader, NEW field \in FieldType
    PROVE  ReadField(from, field) \in Reader
<1>1. from.words \in Seq(Nat) /\ from.inner \in Seq(FieldValue) /\ from.overrun \in BOOLEAN
  BY DEF Reader
<1>2. CASE \/ from.overrun \/ from.words = << >>
           \/ field = "string" /\ Len(from.words) - 1 < Head(from.words)
  BY <1>2 DEF ReadField, Reader
<1>3. CASE ~(\/ from.overrun \/ from.words = << >>
             \/ field = "string" /\ Len(from.words) - 1 < Head(from.words))
  <2>1. Head(from.words) \in Nat /\ Tail(from.words) \in Seq(Nat)
    BY <1>1, <1>3
  <2>2. SubSeq(from.words, Head(from.words) + 2, Len(from.words)) \in Seq(Nat)
    <3>1. \A i \in Head(from.words) + 2 .. Len(from.words) : from.words[i] \in Nat
      BY <1>1, <2>1
    <3> QED BY <1>1, <2>1, <3>1, SubSeqProperties
  <2>3. /\ Append(from.inner, [string |-> Head(from.words)]) \in Seq(FieldValue)
        /\ Append(from.inner, [u32 |-> Head(from.words)]) \in Seq(FieldValue)
    BY <1>1, <2>1 DEF FieldValue
  <2> QED BY <1>1, <1>3, <2>1, <2>2, <2>3 DEF ReadField, Reader
<1> QED BY <1>2, <1>3

\* The recursion of read has a solution.
LEMMA Readings ==
    ASSUME NEW words \in Seq(Nat), NEW fields \in Seq(FieldType), NEW n, n = Len(fields)
    PROVE  \E from : Reads(from, words, fields) /\ ReadFields(words, fields) = from[n]
<1> DEFINE base == [words |-> words, inner |-> << >>, overrun |-> FALSE]
           step == [k \in 1 .. n |-> [x \in Reader |-> ReadField(x, fields[k])]]
           from[k \in 0 .. Len(fields)] ==
             IF k = 0 THEN [words |-> words, inner |-> << >>, overrun |-> FALSE]
                      ELSE ReadField(from[k - 1], fields[k])
<1>1. n \in Nat /\ \A k \in 1 .. n : fields[k] \in FieldType
  OBVIOUS
<1>2. step \in [1 .. n -> [Reader -> Reader]]
  BY <1>1, ReadersStayReaders
<1>3. base \in Reader
  BY DEF Reader
<1>4. PICK g \in [0 .. n -> Reader] : Follows(g, n, base, step)
  <2> HIDE DEF base, step
  <2> QED BY <1>1, <1>2, <1>3, RecursionOnInterval
<1>5. g = [k \in 0 .. n |-> IF k = 0 THEN base ELSE ReadField(g[k - 1], fields[k])]
  <2>1. ASSUME NEW k \in 1 .. n PROVE g[k] = ReadField(g[k - 1], fields[k])
    <3>1. step[k] = [x \in Reader |-> ReadField(x, fields[k])] /\ g[k - 1] \in Reader
      BY <1>1
    <3> QED BY <1>4, <3>1 DEF Follows
  <2> HIDE DEF base, step
  <2> QED BY <1>4, <2>1 DEF Follows
<1>6. from = [k \in 0 .. n |-> IF k = 0 THEN base ELSE ReadField(from[k - 1], fields[k])]
  BY <1>5, Zenon
<1>7. ReadFields(words, fields) = from[n]
  BY DEF ReadFields
<1> HIDE DEF from
<1>8. from[0] = base
  <2>1. 0 \in 0 .. n
    BY <1>1
  <2> QED BY <1>6, <2>1, Zenon
<1>9. ASSUME NEW k \in 1 .. n PROVE from[k] = ReadField(from[k - 1], fields[k])
  <2>1. k \in 0 .. n /\ k # 0
    BY <1>1
  <2> QED BY <1>6, <2>1, Zenon
<1> QED BY <1>7, <1>8, <1>9 DEF Reads


\* Whatever has been written of an error is words, as many as have been counted.
LEMMA WordsAreCounted ==
    ASSUME NEW inner \in Seq(FieldValue), NEW n, n = Len(inner), NEW ordinal \in Nat,
           NEW written, Writes(written, ordinal, inner), NEW size, Counts(size, inner)
    PROVE  \A k \in 0 .. n : /\ written[k] \in Seq(Nat)
                             /\ size[k] \in Nat
                             /\ Len(written[k]) = size[k]
<1> DEFINE Counted(k) == /\ written[k] \in Seq(Nat)
                         /\ size[k] \in Nat
                         /\ Len(written[k]) = size[k]
           S == {k \in 0 .. n : Counted(k)}
<1>1. n \in Nat
  OBVIOUS
<1>2. 0 \in S
  <2>1. written[0] = <<ordinal>> /\ size[0] = 1
    BY Zenon DEF Writes, Counts
  <2>2. <<ordinal>> \in Seq(Nat) /\ Len(<<ordinal>>) = 1
    OBVIOUS
  <2>3. 0 \in 0 .. n /\ Counted(0)
    <3>1. 0 \in 0 .. n
      BY <1>1
    <3> QED BY <2>1, <2>2, <3>1
  <2> HIDE DEF Counted
  <2> QED BY <2>3
<1>3. ASSUME NEW k \in 1 .. n, k - 1 \in S PROVE k \in S
  <2>1. k \in 0 .. n /\ k # 0
    BY <1>1
  <2>2. written[k] = written[k - 1] \o WriteField(inner[k])
    BY Zenon DEF Writes
  <2>3. size[k] = size[k - 1] + Size(inner[k])
    BY Zenon DEF Counts
  <2>4. inner[k] \in FieldValue
    BY <1>1
  <2>5. /\ Size(inner[k]) \in Nat
        /\ WriteField(inner[k]) \in Seq(Nat)
        /\ Len(WriteField(inner[k])) = Size(inner[k])
    BY <2>4, FieldsAreWrittenInTheirSize
  <2>6. Counted(k - 1)
    BY <1>3
  <2>7. Counted(k)
    <3> DEFINE before == written[k - 1]
               more == WriteField(inner[k])
    <3>1. before \in Seq(Nat) /\ more \in Seq(Nat)
      BY <2>5, <2>6
    <3>2. before \o more \in Seq(Nat) /\ Len(before \o more) = Len(before) + Len(more)
      <4> HIDE DEF before, more
      <4> QED BY <3>1, ConcatProperties
    <3> QED BY <2>2, <2>3, <2>5, <2>6, <3>2
  <2> HIDE DEF Counted
  <2> QED BY <2>1, <2>7
<1>4. 0 .. n \subseteq S
  <2> HIDE DEF S
  <2> QED BY <1>1, <1>2, <1>3, IntervalInduction
<1> QED
  <2>1. \A k \in 0 .. n : Counted(k)
    <3> HIDE DEF Counted
    <3> QED BY <1>4
  <2> QED BY <2>1

\* What has been written of an error is what the whole of it starts with.
LEMMA WhatIsWrittenStays ==
    ASSUME NEW inner \in Seq(FieldValue), NEW n, n = Len(inner),
           NEW ordinal, NEW written, Writes(written, ordinal, inner),
           \A k \in 0 .. n : written[k] \in Seq(Nat)
    PROVE  \A k \in 0 .. n : \E rest \in Seq(Nat) : written[k] \o rest = written[n]
<1> DEFINE Stays(k) == \E rest \in Seq(Nat) : written[k] \o rest = written[n]
           S == {j \in 0 .. n : Stays(n - j)}
<1>1. n \in Nat
  OBVIOUS
<1>2. 0 \in S
  <2>1. written[n] \in Seq(Nat) /\ << >> \in Seq(Nat)
    <3>1. n \in 0 .. n
      BY <1>1
    <3> QED BY <3>1
  <2>2. written[n] \o << >> = written[n]
    BY <2>1, ConcatEmptySeq
  <2>3. Stays(n)
    BY <2>1, <2>2
  <2>4. 0 \in 0 .. n /\ n - 0 = n
    BY <1>1
  <2> HIDE DEF Stays
  <2> QED BY <2>3, <2>4
<1>3. ASSUME NEW j \in 1 .. n, j - 1 \in S PROVE j \in S
  <2> DEFINE k == n - j + 1
  <2>1. k \in 1 .. n /\ k \in 0 .. n /\ k # 0 /\ k - 1 \in 0 .. n /\ j \in 0 .. n
    BY <1>1
  <2>2. n - (j - 1) = k /\ n - j = k - 1
    BY <1>1
  <2> HIDE DEF k
  <2>3. Stays(k)
    <3> HIDE DEF Stays
    <3> QED BY <1>3, <2>2
  <2>4. PICK rest \in Seq(Nat) : written[k] \o rest = written[n]
    BY <2>3
  <2>5. written[k] = written[k - 1] \o WriteField(inner[k])
    BY <2>1, Zenon DEF Writes
  <2>6. inner[k] \in FieldValue
    BY <2>1
  <2>7. WriteField(inner[k]) \in Seq(Nat) /\ written[k - 1] \in Seq(Nat)
    BY <2>1, <2>6, FieldsAreWrittenInTheirSize
  <2>8. WriteField(inner[k]) \o rest \in Seq(Nat)
    BY <2>7, ConcatProperties
  <2>9. written[k - 1] \o (WriteField(inner[k]) \o rest) = written[n]
    <3> DEFINE before == written[k - 1]
               more == WriteField(inner[k])
    <3>1. before \in Seq(Nat) /\ more \in Seq(Nat)
      BY <2>7
    <3>2. (before \o more) \o rest = written[n]
      BY <2>4, <2>5
    <3> HIDE DEF before, more
    <3>3. before \o (more \o rest) = written[n]
      <4>1. rest \in Seq(Nat)
        BY <2>4
      <4>2. (before \o more) \o rest = before \o (more \o rest)
        BY <3>1, <4>1, Regrouping, Zenon
      <4> QED BY <3>2, <4>2, Zenon
    <3> QED BY <3>3 DEF before, more
  <2>10. Stays(k - 1)
    BY <2>8, <2>9, Zenon
  <2> HIDE DEF Stays
  <2> QED BY <2>1, <2>2, <2>10
<1>4. 0 .. n \subseteq S
  <2> HIDE DEF S
  <2> QED BY <1>1, <1>2, <1>3, IntervalInduction
<1>5. ASSUME NEW k \in 0 .. n PROVE Stays(k)
  <2>1. n - k \in S /\ n - (n - k) = k
    <3>1. n - k \in 0 .. n /\ n - (n - k) = k
      BY <1>1
    <3> HIDE DEF S
    <3> QED BY <1>4, <3>1
  <2> HIDE DEF Stays
  <2> QED BY <2>1
<1> QED BY <1>5

\* The type a value is of.
IsOf(value, field) ==
    \/ field = "string" /\ value \in [string : Nat]
    \/ field = "u32" /\ value \in [u32 : Nat]

\* Reading a field takes back what writing it put there, and nothing more.
LEMMA FieldsAreReadAsWritten ==
    ASSUME NEW value, NEW field, IsOf(value, field), NEW rest \in Seq(Nat),
           NEW from \in Reader, ~from.overrun, from.words = WriteField(value) \o rest
    PROVE  ReadField(from, field) =
             [from EXCEPT !.words = rest, !.inner = Append(@, value)]
<1>1. CASE field = "string" /\ value \in [string : Nat]
  <2>1. PICK n \in Nat : value = [string |-> n]
    BY <1>1
  <2> DEFINE text == [i \in 1 .. n |-> 0]
             words == (<<n>> \o text) \o rest
  <2>2. from.words = words
    BY <2>1 DEF WriteField
  <2>3. text \in Seq(Nat) /\ Len(text) = n
    OBVIOUS
  <2>4. /\ Len(words) = 1 + n + Len(rest)
        /\ words \in Seq(Nat)
        /\ words # << >>
        /\ Head(words) = n
        /\ \A i \in 1 .. Len(rest) : words[n + 1 + i] = rest[i]
    <3> HIDE DEF text
    <3>1. <<n>> \in Seq(Nat) /\ Len(<<n>>) = 1
      OBVIOUS
    <3>2. /\ <<n>> \o text \in Seq(Nat)
          /\ Len(<<n>> \o text) = 1 + n
          /\ (<<n>> \o text)[1] = n
      BY <2>3, <3>1
    <3> DEFINE field_ == <<n>> \o text
    <3>3. field_ \in Seq(Nat) /\ Len(field_) = 1 + n /\ field_[1] = n
      BY <3>2
    <3>4. words = field_ \o rest
      OBVIOUS
    <3> HIDE DEF field_, words
    <3>5. words \in Seq(Nat) /\ Len(words) = 1 + n + Len(rest) /\ words # << >>
      <4>1. words \in Seq(Nat) /\ Len(words) = Len(field_) + Len(rest)
        BY <3>3, <3>4, ConcatProperties, Zenon
      <4>2. Len(words) = 1 + n + Len(rest) /\ Len(words) # 0
        BY <3>3, <4>1
      <4>3. Len(<< >>) = 0
        OBVIOUS
      <4> QED BY <4>1, <4>2, <4>3, Zenon
    <3>6. words[1] = n
      BY <3>3, <3>4
    <3>7. \A i \in 1 .. Len(rest) : words[n + 1 + i] = rest[i]
      <4> TAKE i \in 1 .. Len(rest)
      <4> DEFINE k == n + 1 + i
      <4>1. /\ k \in 1 .. (Len(field_) + Len(rest))
            /\ ~ (k <= Len(field_)) /\ k - Len(field_) = i
        BY <3>3
      <4> HIDE DEF k
      <4>2. (field_ \o rest)[k] = IF k <= Len(field_) THEN field_[k] ELSE rest[k - Len(field_)]
        BY <3>3, <4>1, ConcatProperties, Zenon
      <4> QED BY <3>4, <4>1, <4>2 DEF k
    <3> QED BY <3>5, <3>6, <3>7
  <2>5. SubSeq(words, n + 2, Len(words)) = rest
    <3> HIDE DEF words
    <3> DEFINE tail == SubSeq(words, n + 2, Len(words))
    <3>1. Len(words) \in Nat /\ Len(rest) \in Nat /\ n + 2 \in Nat
      BY <2>4
    <3>2. tail = [i \in 1 .. Len(rest) |-> words[n + 1 + i]]
      BY <2>4, <3>1
    <3>3. rest = [i \in 1 .. Len(rest) |-> rest[i]]
      OBVIOUS
    <3> QED BY <2>4, <3>2, <3>3
  <2>6. ~(Len(words) - 1 < Head(words))
    <3> HIDE DEF words
    <3> QED BY <2>4
  <2> HIDE DEF words
  <2> QED BY <1>1, <2>1, <2>2, <2>4, <2>5, <2>6 DEF ReadField, Reader
<1>2. CASE field = "u32" /\ value \in [u32 : Nat]
  <2>1. PICK n \in Nat : value = [u32 |-> n]
    BY <1>2
  <2> DEFINE words == <<n>> \o rest
  <2>2. from.words = words
    BY <2>1 DEF WriteField
  <2>3. words # << >> /\ Head(words) = n /\ Tail(words) = rest
    OBVIOUS
  <2> HIDE DEF words
  <2> QED BY <1>2, <2>1, <2>2, <2>3 DEF ReadField, Reader
<1> QED BY <1>1, <1>2 DEF IsOf


\* Words after the same words are the same.
LEMMA Cancelling ==
    \A s \in Seq(Nat) : \A t \in Seq(Nat) : \A u \in Seq(Nat) : s \o t = s \o u => t = u
  BY ConcatSimplifications, Zenon

\* The values up to one more are those and that one.
LEMMA OneMoreValue ==
    ASSUME NEW inner \in Seq(FieldValue), NEW k \in 1 .. Len(inner)
    PROVE  Append(SubSeq(inner, 1, k - 1), inner[k]) = SubSeq(inner, 1, k)
<1> DEFINE some == SubSeq(inner, 1, k - 1)
           more == Append(some, inner[k])
<1>1. Len(some) = k - 1 /\ some \in Seq(FieldValue) /\ \A i \in 1 .. k - 1 : some[i] = inner[i]
  OBVIOUS
<1>2. more = [i \in 1 .. k |-> inner[i]]
  <2>1. inner[k] \in FieldValue
    OBVIOUS
  <2>2. Len(more) = k /\ more[k] = inner[k] /\ \A i \in 1 .. k - 1 : more[i] = inner[i]
    BY <1>1, <2>1
  <2>3. more \in Seq(FieldValue)
    BY <1>1, <2>1
  <2>4. more = [i \in 1 .. Len(more) |-> more[i]]
    BY <2>3
  <2> HIDE DEF more
  <2> QED BY <2>2, <2>4
<1>3. SubSeq(inner, 1, k) = [i \in 1 .. k |-> inner[i]]
  OBVIOUS
<1> QED BY <1>2, <1>3

\* from reads what written wrote, for these fields.
ReadsBack(from, fields, written, ordinal, inner) ==
    /\ inner \in Seq(FieldValue) /\ fields \in Seq(FieldType)
    /\ Len(fields) = Len(inner)
    /\ \A k \in 1 .. Len(inner) : IsOf(inner[k], fields[k])
    /\ ordinal \in Nat /\ Writes(written, ordinal, inner)
    /\ \A k \in 0 .. Len(inner) : written[k] \in Seq(Nat)
    /\ Reads(from, Tail(written[Len(inner)]), fields)

\* The reader has the values, and did not run out of words.
HasRead(from, inner) == ~from.overrun /\ from.inner = inner

\* What is written of an error is read as its ordinal and then its fields.
LEMMA PayloadsAreReadAsWritten ==
    ASSUME NEW inner, NEW fields, NEW ordinal, NEW written, NEW from,
           ReadsBack(from, fields, written, ordinal, inner)
    PROVE  HasRead(from[Len(inner)], inner)
<1> DEFINE n == Len(inner)
           At(k) == /\ from[k] \in Reader
                    /\ ~from[k].overrun
                    /\ from[k].inner = SubSeq(inner, 1, k)
                    /\ written[k] \o from[k].words = written[n]
           S == {k \in 0 .. n : At(k)}
<1> USE DEF ReadsBack
<1>0. /\ inner \in Seq(FieldValue) /\ fields \in Seq(FieldType)
      /\ Len(fields) = n
      /\ \A k \in 1 .. n : IsOf(inner[k], fields[k])
      /\ ordinal \in Nat /\ Writes(written, ordinal, inner)
      /\ \A k \in 0 .. n : written[k] \in Seq(Nat)
      /\ Reads(from, Tail(written[n]), fields)
  OBVIOUS
<1> HIDE DEF ReadsBack
<1> USE <1>0
<1>1. n \in Nat /\ 0 \in 0 .. n /\ n \in 0 .. n
  OBVIOUS
<1>2. \A k \in 0 .. n : \E rest \in Seq(Nat) : written[k] \o rest = written[n]
  BY WhatIsWrittenStays
<1>3. Head(written[n]) = ordinal /\ Tail(written[n]) \in Seq(Nat) /\
      <<ordinal>> \o Tail(written[n]) = written[n]
  <2>1. PICK rest \in Seq(Nat) : written[0] \o rest = written[n]
    BY <1>1, <1>2
  <2>2. written[n] = <<ordinal>> \o rest
    BY <2>1, Zenon DEF Writes
  <2>3. Head(<<ordinal>> \o rest) = ordinal /\ Tail(<<ordinal>> \o rest) = rest
    OBVIOUS
  <2> QED BY <2>1, <2>2, <2>3, Zenon
<1>4. 0 \in S
  <2>1. from[0] = [words |-> Tail(written[n]), inner |-> << >>, overrun |-> FALSE]
    BY Zenon DEF Reads
  <2>2. written[0] = <<ordinal>>
    BY Zenon DEF Writes
  <2>3. SubSeq(inner, 1, 0) = << >>
    OBVIOUS
  <2>4. At(0)
    <3> DEFINE whole == written[n]
    <3>1. written[0] \o from[0].words = whole
      BY <1>3, <2>1, <2>2
    <3> DEFINE rest == Tail(written[n])
    <3>2. rest \in Seq(Nat) /\ from[0] = [words |-> rest, inner |-> << >>, overrun |-> FALSE]
      BY <1>3, <2>1
    <3> HIDE DEF rest
    <3>3. from[0] \in Reader /\ ~from[0].overrun /\ from[0].inner = << >>
      BY <3>2 DEF Reader
    <3> QED BY <2>3, <3>1, <3>3
  <2> HIDE DEF At
  <2> QED BY <1>1, <2>4
<1>5. ASSUME NEW k \in 1 .. n, k - 1 \in S PROVE k \in S
  <2>1. k \in 0 .. n /\ k \in 1 .. Len(fields) /\ k \in 1 .. Len(inner) /\ k - 1 \in 0 .. n
    BY <1>1
  <2>2. At(k - 1)
    BY <1>5
  <2> DEFINE before == from[k - 1]
             value == inner[k]
             front == written[k - 1]
             some == SubSeq(inner, 1, k - 1)
  <2>3. /\ before \in Reader
        /\ ~before.overrun
        /\ before.inner = some
        /\ front \o before.words = written[n]
    BY <2>2
  <2>4. from[k] = ReadField(before, fields[k])
    BY <2>1, Zenon DEF Reads
  <2>5. written[k] = front \o WriteField(value)
    BY Zenon DEF Writes
  <2>6. value \in FieldValue /\ fields[k] \in FieldType /\ IsOf(value, fields[k])
    BY <2>1
  <2>7. front \in Seq(Nat) /\ before.words \in Seq(Nat)
    <3>1. front \in Seq(Nat)
      BY <2>1
    <3> HIDE DEF before
    <3> QED BY <2>3, <3>1 DEF Reader
  <2>8. PICK rest \in Seq(Nat) : written[k] \o rest = written[n]
    BY <1>2, <2>1
  <2>9. Append(some, value) = SubSeq(inner, 1, k)
    BY <2>1, OneMoreValue
  <2> HIDE DEF before, value, front, some, At
  <2>10. WriteField(value) \in Seq(Nat)
    BY <2>6, FieldsAreWrittenInTheirSize
  <2>11. before.words = WriteField(value) \o rest
    <3>1. rest \in Seq(Nat) /\ WriteField(value) \o rest \in Seq(Nat)
      BY <2>8, <2>10, ConcatProperties
    <3>2. front \o (WriteField(value) \o rest) = written[n]
      <4>1. (front \o WriteField(value)) \o rest = written[n]
        BY <2>5, <2>8
      <4>2. (front \o WriteField(value)) \o rest = front \o (WriteField(value) \o rest)
        BY <2>7, <2>10, <3>1, Regrouping, Zenon
      <4> QED BY <4>1, <4>2, Zenon
    <3> QED BY <2>3, <2>7, <3>1, <3>2, Cancelling, Zenon
  <2>12. from[k] = [before EXCEPT !.words = rest, !.inner = Append(@, value)]
    <3>1. rest \in Seq(Nat)
      BY <2>8
    <3>2. ReadField(before, fields[k]) =
            [before EXCEPT !.words = rest, !.inner = Append(@, value)]
      BY <2>3, <2>6, <2>11, <3>1, FieldsAreReadAsWritten, Zenon
    <3> QED BY <2>4, <3>2
  <2>13. from[k] \in Reader
    BY <2>3, <2>4, <2>6, ReadersStayReaders
  <2>14. from[k].words = rest /\ ~from[k].overrun /\ from[k].inner = Append(some, value)
    BY <2>3, <2>12 DEF Reader
  <2>15. At(k)
    BY <2>8, <2>9, <2>13, <2>14, Zenon DEF At
  <2> QED BY <2>1, <2>15
<1>6. At(n)
  <2>1. 0 .. n \subseteq S
    <3> HIDE DEF S
    <3> QED BY <1>1, <1>4, <1>5, IntervalInduction
  <2>2. n \in S
    <3> HIDE DEF S
    <3> QED BY <1>1, <2>1
  <2> HIDE DEF At
  <2> QED BY <2>2
<1>7. SubSeq(inner, 1, n) = inner
  OBVIOUS
<1> QED BY <1>6, <1>7 DEF HasRead


\* No two cases have a tag in common.
Distinct(variants) ==
    \A i \in DOMAIN variants : \A j \in DOMAIN variants :
        variants[i].tag = variants[j].tag => i = j

\* The one enum has become the other, by cases at its end.
Grown(old, new) ==
    /\ Len(old) <= Len(new)
    /\ \A i \in 1 .. Len(old) : new[i] = old[i]

\* An error a case can carry is a sequence of values, each of its field's type.
LEMMA PayloadsAreValues ==
    ASSUME NEW fields \in Seq(FieldType), NEW inner \in Payloads(fields)
    PROVE  /\ inner \in Seq(FieldValue)
           /\ Len(inner) = Len(fields)
           /\ \A k \in 1 .. Len(inner) : IsOf(inner[k], fields[k])
<1>1. DOMAIN fields = 1 .. Len(fields) /\ Len(fields) \in Nat
  OBVIOUS
<1>2. ASSUME NEW f \in FieldType PROVE \A v \in Values(f) : IsOf(v, f) /\ v \in FieldValue
  BY InterfaceAssumption DEF Values, IsOf, FieldType, FieldValue
<1>3. /\ inner \in [1 .. Len(fields) -> UNION {Values(f) : f \in {"string", "u32"}}]
      /\ \A k \in 1 .. Len(fields) : inner[k] \in Values(fields[k])
  BY <1>1 DEF Payloads
<1>4. \A k \in 1 .. Len(fields) : fields[k] \in FieldType
  BY <1>1
<1>5. \A k \in 1 .. Len(fields) : IsOf(inner[k], fields[k]) /\ inner[k] \in FieldValue
  BY <1>2, <1>3, <1>4, Zenon
<1>6. inner = [k \in 1 .. Len(fields) |-> inner[k]]
  BY <1>3
<1>7. inner \in [1 .. Len(fields) -> FieldValue]
  BY <1>5, <1>6
<1>8. inner \in Seq(FieldValue) /\ Len(inner) = Len(fields)
  <2> HIDE DEF FieldValue
  <2> QED BY <1>1, <1>7
<1> QED BY <1>5, <1>8

\* A case of the declared enum, or one that none of its tags is the tag of.
LEMMA CasesByTag ==
    ASSUME NEW variants \in Seq(Variants), Distinct(variants), Grown(AbiError, variants),
           NEW i \in DOMAIN variants
    PROVE  \/ i \in 1 .. 12 /\ variants[i] = AbiError[i]
           \/ \A j \in 1 .. 12 : variants[i].tag # AbiError[j].tag
<1>1. Len(AbiError) = 12 /\ Len(variants) \in Nat /\ DOMAIN variants = 1 .. Len(variants)
  BY DEF AbiError
<1>2. \A j \in 1 .. 12 : j \in DOMAIN variants /\ variants[j] = AbiError[j]
  BY <1>1 DEF Grown
<1>3. CASE i \in 1 .. 12
  BY <1>2, <1>3
<1>4. CASE i \notin 1 .. 12
  BY <1>2, <1>4 DEF Distinct
<1> QED BY <1>3, <1>4

\* Both switches go through the fields of an error as Rust declares them.
LEMMA ArmsFollowTheDeclaration ==
    ASSUME NEW variants \in Seq(Variants), Distinct(variants), Grown(AbiError, variants),
           NEW i \in DOMAIN variants, NEW inner \in Seq(FieldValue),
           Len(inner) = Len(variants[i].fields),
           NEW error, error = [tag |-> variants[i].tag, inner |-> inner]
    PROVE  WrittenFields(error) = inner /\ SizedFields(error) = inner
<1>1. error.inner = inner /\ error.tag = variants[i].tag
  OBVIOUS
<1>2. /\ Len(inner) = 1 => << inner[1] >> = inner
      /\ Len(inner) = 2 => << inner[1], inner[2] >> = inner
      /\ Len(inner) = 3 => << inner[1], inner[2], inner[3] >> = inner
  <2> HIDE DEF FieldValue
  <2> QED OBVIOUS
<1>3. CASE i \in 1 .. 12 /\ variants[i] = AbiError[i]
  <2>1. error.tag = AbiError[i].tag /\ Len(inner) = Len(AbiError[i].fields)
    BY <1>1, <1>3
  <2>2. \/ /\ error.tag \in {"InvalidAbi", "FunctionNotFound", "InvalidHex",
                              "UnsupportedType", "DecodeFailed", "EncodeFailed",
                              "InvalidArgument", "InvalidAddress"}
           /\ Len(inner) = 1
        \/ error.tag = "AmbiguousOverload" /\ Len(inner) = 2
        \/ error.tag = "ArityMismatch" /\ Len(inner) = 3
        \/ error.tag = "BytesSizeMismatch" /\ Len(inner) = 2
        \/ error.tag = "IntegerOutOfRange" /\ Len(inner) = 2
    BY <1>3, <2>1 DEF AbiError, Variant
  <2> QED BY <1>1, <1>2, <2>2 DEF WrittenFields, SizedFields
<1>4. CASE \A j \in 1 .. 12 : variants[i].tag # AbiError[j].tag
  <2>1. error.tag \notin {"InvalidAbi", "FunctionNotFound", "AmbiguousOverload", "InvalidHex",
                          "UnsupportedType", "ArityMismatch", "DecodeFailed", "EncodeFailed",
                          "InvalidArgument", "InvalidAddress", "BytesSizeMismatch",
                          "IntegerOutOfRange"}
    BY <1>1, <1>4 DEF AbiError, Variant
  <2> QED BY <1>1, <2>1 DEF WrittenFields, SizedFields
<1> QED BY <1>3, <1>4, CasesByTag

\* An error is written by bindings that know its case as Rust writes it, in the words
\* that are reserved for it.
WrittenAsInRust(known, error, words) ==
    write(known, error) = words /\ allocationSize(error) = Len(words)

\* Bindings that have missed only cases at the end read every error they know, and
\* write it as Rust does.
LEMMA ErrorsAreReadAsWritten ==
    ASSUME NEW variants \in Seq(Variants), Distinct(variants),
           NEW known \in Seq(Variants), Grown(known, variants), Grown(AbiError, variants),
           NEW i \in DOMAIN variants, NEW inner \in Payloads(variants[i].fields),
           NEW error, error = [tag |-> variants[i].tag, inner |-> inner],
           NEW words, words = lower(variants, error)
    PROVE  /\ i \in DOMAIN known => WrittenAsInRust(known, error, words)
           /\ read(known, words) =
                IF i \in DOMAIN known THEN error ELSE UnexpectedEnumCase
<1> DEFINE fields == variants[i].fields
           n == Len(inner)
<1>1. /\ i \in 1 .. Len(variants) /\ i \in Nat
      /\ variants[i].tag \in Tags
      /\ fields \in Seq(FieldType)
  <2>1. i \in 1 .. Len(variants) /\ i \in Nat
    OBVIOUS
  <2>2. variants[i] \in Variants
    BY <2>1
  <2> QED BY <2>1, <2>2 DEF Variants, FieldType
<1>2. /\ inner \in Seq(FieldValue)
      /\ Len(inner) = Len(fields)
      /\ \A k \in 1 .. Len(inner) : IsOf(inner[k], fields[k])
  <2> HIDE DEF fields
  <2>1. inner \in Payloads(fields)
    BY DEF fields
  <2> QED BY <1>1, <2>1, PayloadsAreValues
<1>3. error.inner = inner /\ error.tag = variants[i].tag
  OBVIOUS
<1>4. Ordinal(variants, error.tag) = i
  BY <1>3 DEF Ordinal, Distinct
<1>5. n \in Nat /\ 0 .. n = {k \in Int : 0 <= k /\ k <= n} /\ n \in 0 .. n
  BY <1>2
<1> HIDE DEF fields, n
<1>6. PICK size : Counts(size, inner) /\ Sized(inner) = size[n]
  BY <1>2, Sizes, Zenon DEF n
<1>7. PICK written : Writes(written, i, inner) /\ Written(i, inner) = written[n]
  <2>1. i \in Nat /\ inner \in Seq(FieldValue) /\ n = Len(inner)
    BY <1>1, <1>2, Zenon DEF n
  <2> QED BY <2>1, Writings
<1>8. \A k \in 0 .. n : /\ written[k] \in Seq(Nat)
                        /\ size[k] \in Nat
                        /\ Len(written[k]) = size[k]
  <2>1. i \in Nat /\ inner \in Seq(FieldValue) /\ n = Len(inner)
    BY <1>1, <1>2, Zenon DEF n
  <2> QED BY <1>6, <1>7, <2>1, WordsAreCounted
<1>9. i \in DOMAIN known => WrittenAsInRust(known, error, words)
  <2> SUFFICES ASSUME i \in DOMAIN known PROVE WrittenAsInRust(known, error, words)
    OBVIOUS
  <2>1. Ordinal(known, error.tag) = i
    BY <1>3 DEF Ordinal, Distinct, Grown
  <2>2. WrittenFields(error) = inner /\ SizedFields(error) = inner
    <3>1. Len(inner) = Len(variants[i].fields)
      BY <1>2 DEF fields
    <3> QED BY <1>2, <3>1, ArmsFollowTheDeclaration
  <2>3. write(known, error) = words
    BY <1>3, <1>4, <2>1, <2>2, Zenon DEF write, lower
  <2>4. allocationSize(error) = size[n]
    BY <1>6, <2>2, Zenon DEF allocationSize
  <2>5. Len(words) = size[n]
    BY <1>3, <1>4, <1>5, <1>7, <1>8, Zenon DEF lower
  <2> QED BY <2>3, <2>4, <2>5, Zenon DEF WrittenAsInRust
<1>10. words = written[n] /\ written[n] \in Seq(Nat) /\ Tail(written[n]) \in Seq(Nat)
       /\ Head(written[n]) = i
  <2>1. words = written[n] /\ written[n] \in Seq(Nat)
    BY <1>3, <1>4, <1>5, <1>7, <1>8, Zenon DEF lower
  <2>2. PICK rest \in Seq(Nat) : written[0] \o rest = written[n]
    <3>1. 0 \in 0 .. n
      BY <1>5
    <3>2. \A k \in 0 .. n : written[k] \in Seq(Nat)
      BY <1>8, Zenon
    <3>3. \A k \in 0 .. n : \E rest \in Seq(Nat) : written[k] \o rest = written[n]
      BY <1>2, <1>7, <3>2, WhatIsWrittenStays, Zenon DEF n
    <3> QED BY <3>1, <3>3, Zenon
  <2>3. written[n] = <<i>> \o rest
    BY <1>7, <2>2, Zenon DEF Writes
  <2>4. Head(<<i>> \o rest) = i /\ Tail(<<i>> \o rest) = rest
    BY <1>1, <2>2
  <2> QED BY <2>1, <2>2, <2>3, <2>4, Zenon
<1>11. CASE i \notin DOMAIN known
  <2>1. Head(words) = i
    BY <1>10, Zenon
  <2> QED BY <1>9, <1>11, <2>1 DEF read
<1>12. CASE i \in DOMAIN known
  <2>1. known[i] = variants[i]
    BY <1>12 DEF Grown
  <2>2. PICK from : Reads(from, Tail(words), fields) /\ ReadFields(Tail(words), fields) = from[n]
    <3>1. Tail(words) \in Seq(Nat) /\ n = Len(fields)
      BY <1>2, <1>10, Zenon DEF n
    <3> QED BY <1>1, <3>1, Readings, Zenon
  <2>3. ~from[n].overrun /\ from[n].inner = inner
    <3>1. Len(fields) = n /\ \A k \in 1 .. n : IsOf(inner[k], fields[k])
      BY <1>2, Zenon DEF n
    <3>2. Reads(from, Tail(written[n]), fields)
      BY <1>10, <2>2, Zenon
    <3>3. \A k \in 0 .. n : written[k] \in Seq(Nat)
      BY <1>8, Zenon
    <3>4. /\ i \in Nat /\ inner \in Seq(FieldValue) /\ n = Len(inner)
          /\ fields \in Seq(FieldType)
      BY <1>1, <1>2, Zenon DEF n
    <3>5. Writes(written, i, inner)
      BY <1>7
    <3>6. HasRead(from[Len(inner)], inner)
      <4>1. ReadsBack(from, fields, written, i, inner)
        <5>1. inner \in Seq(FieldValue) /\ fields \in Seq(FieldType) /\ i \in Nat
          BY <3>4, Zenon
        <5>2. Len(fields) = Len(inner) /\ \A k \in 1 .. Len(inner) : IsOf(inner[k], fields[k])
          BY <3>1, Zenon DEF n
        <5>3. \A k \in 0 .. Len(inner) : written[k] \in Seq(Nat)
          BY <3>3, Zenon DEF n
        <5>4. Reads(from, Tail(written[Len(inner)]), fields)
          BY <3>2, Zenon DEF n
        <5> QED BY <3>5, <5>1, <5>2, <5>3, <5>4, Zenon DEF ReadsBack
      <4> QED BY <4>1, PayloadsAreReadAsWritten, Zenon
    <3> QED BY <3>6 DEF n, HasRead
  <2>4. read(known, words) = [tag |-> known[i].tag, inner |-> from[n].inner]
    <3>1. Head(words) = i /\ known[i].fields = fields
      BY <1>10, <2>1, Zenon DEF fields
    <3> HIDE DEF fields
    <3> QED BY <1>12, <2>2, <2>3, <3>1 DEF read
  <2>5. read(known, words) = error
    BY <2>1, <2>3, <2>4
  <2> QED BY <1>9, <1>12, <2>5, Zenon
<1> QED BY <1>9, <1>11, <1>12, Zenon

\* No two errors of the enum as it is declared have a tag in common.
LEMMA AbiErrorDistinct == Distinct(AbiError)
  BY DEF AbiError, Variant, Distinct

\* The enum as it is declared is a sequence of variants.
LEMMA AbiErrorType == AbiError \in Seq(Variants)
<1>1. DOMAIN AbiError = 1..12 /\ AbiError \in Seq({AbiError[i] : i \in 1..12})
  BY DEF AbiError
<1>2. \A i \in 1..12 : AbiError[i].tag \in Tags
  BY <1>1 DEF Tags
<1>3. \A i \in 1..12 : AbiError[i].fields \in Seq({"string", "u32"})
  <2>1. \A i \in 1..12 :
          AbiError[i].fields \in {<<"string">>, <<"string", "u32">>, <<"u32", "u32">>,
                                  <<"string", "u32", "u32">>, <<"string", "string">>}
    BY DEF AbiError, Variant
  <2>2. /\ <<"string">> \in Seq({"string", "u32"})
        /\ <<"string", "u32">> \in Seq({"string", "u32"})
        /\ <<"u32", "u32">> \in Seq({"string", "u32"})
        /\ <<"string", "u32", "u32">> \in Seq({"string", "u32"})
        /\ <<"string", "string">> \in Seq({"string", "u32"})
    OBVIOUS
  <2> QED
    BY <2>1, <2>2
<1>4. \A i \in 1..12 : AbiError[i] = Variant(AbiError[i].tag, AbiError[i].fields)
  BY DEF AbiError, Variant
<1>5. \A i \in 1..12 : AbiError[i] \in Variants
  <2>1. \A tag \in Tags : \A fields \in Seq({"string", "u32"}) :
          Variant(tag, fields) \in Variants
    BY DEF Variant, Variants
  <2> QED
    BY <1>2, <1>3, <1>4, <2>1
<1> QED
  BY <1>1, <1>5

\* A case of a new tag at the end leaves the enum grown, and its cases told apart.
LEMMA AppendedCases ==
    ASSUME NEW variants \in Seq(Variants), Distinct(variants),
           NEW known \in Seq(Variants), Grown(known, variants),
           NEW v \in Variants, v.tag \notin {variants[i].tag : i \in DOMAIN variants}
    PROVE  Distinct(Append(variants, v)) /\ Grown(known, Append(variants, v))
<1> DEFINE new == Append(variants, v)
<1>1. /\ Len(new) = Len(variants) + 1 /\ DOMAIN new = 1 .. Len(variants) + 1
      /\ new[Len(variants) + 1] = v
      /\ \A i \in 1 .. Len(variants) : new[i] = variants[i]
      /\ DOMAIN variants = 1 .. Len(variants)
      /\ Len(variants) \in Nat /\ Len(known) \in Nat
  OBVIOUS
<1> HIDE DEF new
<1>2. Distinct(new)
  BY <1>1 DEF Distinct
<1>3. Grown(known, new)
  BY <1>1 DEF Grown
<1> QED BY <1>2, <1>3 DEF new

---------------------------------------------------------------------------
(* Running apps agree with their library. *)

\* What the linker has seen to.
Linked ==
    app.state \in {"built", "running"} =>
        DOMAIN app.bindings.functions \subseteq DOMAIN app.crate.functions

Inv == TypeOK /\ Linked /\ RunningAppsAgreeOnSignatures

\* A table of functions with an entry added, taken out or changed is one.
LEMMA TablesOfFunctions ==
    ASSUME NEW f \in Functions, NEW name \in Names, NEW sum \in Checksums
    PROVE  /\ [n \in DOMAIN f \cup {name} |-> IF n = name THEN sum ELSE f[n]] \in Functions
           /\ [n \in DOMAIN f \ {name} |-> f[n]] \in Functions
           /\ [f EXCEPT ![name] = sum] \in Functions
<1>1. PICK names \in SUBSET Names : f \in [names -> Checksums]
  BY DEF Functions
<1>2. \A S \in SUBSET Names : [S -> Checksums] \subseteq Functions
  BY DEF Functions
<1>3. [n \in DOMAIN f \cup {name} |-> IF n = name THEN sum ELSE f[n]]
        \in [names \cup {name} -> Checksums]
  BY <1>1
<1>4. [n \in DOMAIN f \ {name} |-> f[n]] \in [names \ {name} -> Checksums]
  BY <1>1
<1>5. [f EXCEPT ![name] = sum] \in [names -> Checksums]
  BY <1>1
<1>6. names \cup {name} \in SUBSET Names /\ names \ {name} \in SUBSET Names
  OBVIOUS
<1> QED
  BY <1>2, <1>3, <1>4, <1>5, <1>6

\* Init establishes the invariant: there is no app yet.
LEMMA InitInv == Init => Inv
<1> SUFFICES ASSUME Init PROVE Inv
  OBVIOUS
<1>1. crate \in Interface
  BY AbiErrorType, InterfaceAssumption DEF Init, Interface
<1> QED
  BY <1>1 DEF Init, Inv, TypeOK, Linked, RunningAppsAgreeOnSignatures

\* An edit that yields an interface leaves the bindings and the app alone.
LEMMA EditInv ==
    ASSUME Inv, NEW kind, NEW new \in Interface, Edit(kind, new)
    PROVE  Inv'
  BY DEF Inv, TypeOK, Linked, RunningAppsAgreeOnSignatures, Edit

\* Every edit of the crate yields an interface.
LEMMA EditsPreserveInv ==
    ASSUME Inv,
           \/ AddFunction \/ RemoveFunction \/ ChangeFunction
           \/ AppendVariant \/ UpgradeUniffi
    PROVE  Inv'
<1>0. crate \in Interface /\ crate.functions \in Functions
  BY DEF Inv, TypeOK, Interface
<1>6. /\ DOMAIN crate.functions \subseteq Names
      /\ \A n \in DOMAIN crate.functions : crate.functions[n] \in Checksums
  BY <1>0 DEF Functions
<1>1. CASE AddFunction
  <2>1. PICK name \in Names \ DOMAIN crate.functions, sum \in Checksums :
          Edit("addFunction",
             [crate EXCEPT !.functions = [n \in DOMAIN @ \cup {name} |->
                                            IF n = name THEN sum ELSE @[n]]])
    BY <1>1 DEF AddFunction
  <2>2. [n \in DOMAIN crate.functions \cup {name} |->
           IF n = name THEN sum ELSE crate.functions[n]] \in Functions
    BY <1>0, <2>1, TablesOfFunctions
  <2>3. [crate EXCEPT !.functions = [n \in DOMAIN @ \cup {name} |->
                                       IF n = name THEN sum ELSE @[n]]] \in Interface
    BY <1>0, <2>2 DEF Interface
  <2> QED
    BY <2>1, <2>3, EditInv
<1>2. CASE RemoveFunction
  <2>1. PICK name \in DOMAIN crate.functions :
          Edit("removeFunction",
             [crate EXCEPT !.functions = [n \in DOMAIN @ \ {name} |-> @[n]]])
    BY <1>2 DEF RemoveFunction
  <2>2. [n \in DOMAIN crate.functions \ {name} |-> crate.functions[n]] \in Functions
    BY <1>0, <1>6, <2>1, TablesOfFunctions
  <2>3. [crate EXCEPT !.functions = [n \in DOMAIN @ \ {name} |-> @[n]]] \in Interface
    BY <1>0, <2>2 DEF Interface
  <2> QED
    BY <2>1, <2>3, EditInv
<1>3. CASE ChangeFunction
  <2>1. PICK name \in DOMAIN crate.functions, sum \in Checksums :
          Edit("changeFunction", [crate EXCEPT !.functions[name] = sum])
    BY <1>3 DEF ChangeFunction
  <2>2. [crate.functions EXCEPT ![name] = sum] \in Functions
    BY <1>0, <1>6, <2>1, TablesOfFunctions
  <2>3. [crate EXCEPT !.functions[name] = sum] \in Interface
    BY <1>0, <2>2 DEF Interface
  <2> QED
    BY <2>1, <2>3, EditInv
<1>4. CASE AppendVariant
  <2>1. PICK v \in NewVariants :
          Edit("appendVariant", [crate EXCEPT !.variants = Append(@, v)])
    BY <1>4 DEF AppendVariant
  <2>2. Append(crate.variants, v) \in Seq(Variants)
    BY <1>0, <2>1, InterfaceAssumption DEF Interface
  <2>3. [crate EXCEPT !.variants = Append(@, v)] \in Interface
    BY <1>0, <2>2 DEF Interface
  <2> QED
    BY <2>1, <2>3, EditInv
<1>5. CASE UpgradeUniffi
  <2>1. PICK version \in Contracts :
          Edit("upgradeUniffi", [crate EXCEPT !.contract = version])
    BY <1>5 DEF UpgradeUniffi
  <2>2. [crate EXCEPT !.contract = version] \in Interface
    BY <1>0 DEF Interface
  <2> QED
    BY <2>1, <2>2, EditInv
<1> QED
  BY <1>1, <1>2, <1>3, <1>4, <1>5

\* Every step preserves the invariant.
LEMMA NextInv == Inv /\ [Next]_bindingsVars => Inv'
<1> SUFFICES ASSUME Inv, [Next]_bindingsVars PROVE Inv'
  OBVIOUS
<1>1. CASE \/ AddFunction \/ RemoveFunction \/ ChangeFunction
           \/ AppendVariant \/ UpgradeUniffi
  BY <1>1, EditsPreserveInv
<1>2. CASE Generate
  BY <1>2 DEF Inv, TypeOK, Linked, RunningAppsAgreeOnSignatures, Generate
<1>3. CASE Build
  BY <1>3 DEF Inv, TypeOK, Linked, RunningAppsAgreeOnSignatures, Build
<1>4. CASE Boot
  <2>1. /\ app.state = "built"
        /\ app' = [app EXCEPT !.state =
                     IF uniffiEnsureInitialized(app.bindings, app.crate)
                     THEN "running" ELSE "refused"]
        /\ UNCHANGED <<crate, bindings>>
    BY <1>4 DEF Boot
  <2>2. app'.crate = app.crate /\ app'.bindings = app.bindings
    BY <2>1 DEF Inv, TypeOK
  <2>3. TypeOK'
    BY <2>1 DEF Inv, TypeOK
  <2>4. Linked'
    BY <2>1, <2>2 DEF Inv, Linked
  <2>5. app'.state = "running" => uniffiEnsureInitialized(app.bindings, app.crate)
    BY <2>1 DEF Inv, TypeOK
  <2>6. RunningAppsAgreeOnSignatures'
    BY <2>1, <2>2, <2>5
    DEF Inv, Linked, RunningAppsAgreeOnSignatures, uniffiEnsureInitialized
  <2> QED
    BY <2>3, <2>4, <2>6 DEF Inv
<1>5. CASE Raise
  BY <1>5 DEF Inv, TypeOK, Linked, RunningAppsAgreeOnSignatures, Raise
<1>6. CASE UNCHANGED bindingsVars
  BY <1>6 DEF Inv, TypeOK, Linked, RunningAppsAgreeOnSignatures, bindingsVars
<1> QED
  BY <1>1, <1>2, <1>3, <1>4, <1>5, <1>6 DEF Next

\* The invariant holds of every behaviour.
THEOREM SpecInv == Spec => []Inv
  BY InitInv, NextInv, PTL DEF Spec

\* An app that boots agrees with its library on every signature it knows, for any
\* set of functions and any number of edits.
THEOREM RunningAppsAgree == Spec => []RunningAppsAgreeOnSignatures
<1>1. Inv => RunningAppsAgreeOnSignatures
  BY DEF Inv
<1> QED
  BY <1>1, SpecInv, PTL

---------------------------------------------------------------------------

\* The enum only grows, whoever has it is behind it, and its cases are told apart.
EnumsOnlyGrow ==
    /\ Distinct(crate.variants)
    /\ Distinct(app.crate.variants)
    /\ Grown(bindings.variants, crate.variants)
    /\ Grown(app.bindings.variants, app.crate.variants)
    /\ Grown(AbiError, crate.variants)
    /\ Grown(AbiError, app.crate.variants)

\* With the properties of the last error raised, an inductive invariant.
WireInv ==
    /\ EnumsOnlyGrow
    /\ ErrorsNeverMisread
    /\ CurrentBindingsReadEveryError
    /\ KnownErrorsAreWrittenAsInRust

\* The interfaces have sequences of variants.
LEMMA VariantsAreSequences ==
    ASSUME Inv
    PROVE  /\ crate.variants \in Seq(Variants) /\ app.crate.variants \in Seq(Variants)
           /\ bindings.variants \in Seq(Variants) /\ app.bindings.variants \in Seq(Variants)
  BY DEF Inv, TypeOK, Interface

\* Init establishes it.
LEMMA WireInit == Init => WireInv
<1> SUFFICES ASSUME Init PROVE WireInv
  OBVIOUS
<1>1. Grown(AbiError, AbiError)
  <2>1. Len(AbiError) \in Nat
    BY AbiErrorType
  <2> QED BY <2>1 DEF Grown
<1> QED
  BY <1>1, AbiErrorDistinct
  DEF Init, WireInv, EnumsOnlyGrow, ErrorsNeverMisread, CurrentBindingsReadEveryError,
      KnownErrorsAreWrittenAsInRust

\* The edits, of which only one touches the enum.
LEMMA EditsPreserveWireInv ==
    ASSUME Inv, WireInv,
           \/ AddFunction \/ RemoveFunction \/ ChangeFunction
           \/ AppendVariant \/ UpgradeUniffi
    PROVE  WireInv'
<1>0. UNCHANGED <<bindings, app, raised>>
  BY DEF AddFunction, RemoveFunction, ChangeFunction, AppendVariant, UpgradeUniffi, Edit
<1>1. /\ Distinct(crate'.variants) /\ Grown(bindings.variants, crate'.variants)
      /\ Grown(AbiError, crate'.variants)
  <2>1. /\ crate \in Interface /\ Distinct(crate.variants)
        /\ Grown(bindings.variants, crate.variants) /\ Grown(AbiError, crate.variants)
    BY DEF Inv, TypeOK, WireInv, EnumsOnlyGrow
  <2>2. CASE AddFunction \/ RemoveFunction \/ ChangeFunction \/ UpgradeUniffi
    <3>1. crate'.variants = crate.variants
      BY <2>1, <2>2
      DEF AddFunction, RemoveFunction, ChangeFunction, UpgradeUniffi, Edit, Interface
    <3> QED BY <2>1, <3>1
  <2>3. CASE AppendVariant
    <3>1. PICK v \in NewVariants :
            /\ v.tag \notin {crate.variants[i].tag : i \in DOMAIN crate.variants}
            /\ crate' = [crate EXCEPT !.variants = Append(@, v)]
      BY <2>3 DEF AppendVariant, Edit
    <3>2. v \in Variants
      BY <3>1, InterfaceAssumption
    <3>3. crate'.variants = Append(crate.variants, v)
      BY <2>1, <3>1 DEF Interface
    <3>4. crate.variants \in Seq(Variants) /\ bindings.variants \in Seq(Variants)
      BY VariantsAreSequences
    <3> QED BY <2>1, <3>1, <3>2, <3>3, <3>4, AbiErrorType, AppendedCases
  <2> QED BY <2>2, <2>3
<1> QED
  BY <1>0, <1>1
  DEF WireInv, EnumsOnlyGrow, ErrorsNeverMisread, CurrentBindingsReadEveryError,
      KnownErrorsAreWrittenAsInRust

\* Whatever is raised is read back, or is not known.
LEMMA RaisePreservesWireInv ==
    ASSUME Inv, WireInv, Raise
    PROVE  WireInv'
<1> DEFINE variants == app.crate.variants
           known == app.bindings.variants
<1>0. PICK i \in DOMAIN variants :
        \E inner \in Payloads(variants[i].fields) :
          LET error == [tag |-> variants[i].tag, inner |-> inner]
              words == lower(variants, error)
          IN  raised' = [error |-> error, words |-> words, read |-> read(known, words)]
  BY DEF Raise
<1>1. PICK inner \in Payloads(variants[i].fields) :
        LET error == [tag |-> variants[i].tag, inner |-> inner]
            words == lower(variants, error)
        IN  raised' = [error |-> error, words |-> words, read |-> read(known, words)]
  BY <1>0, Zenon
<1> DEFINE error == [tag |-> variants[i].tag, inner |-> inner]
           words == lower(variants, error)
<1>2. raised' = [error |-> error, words |-> words, read |-> read(known, words)]
  BY <1>1
<1>3. UNCHANGED <<crate, bindings, app>>
  BY DEF Raise
<1>4. /\ variants \in Seq(Variants) /\ known \in Seq(Variants)
      /\ Distinct(variants) /\ Grown(known, variants) /\ Grown(AbiError, variants)
  BY VariantsAreSequences DEF WireInv, EnumsOnlyGrow
<1>5. /\ i \in DOMAIN known => WrittenAsInRust(known, error, words)
      /\ read(known, words) = IF i \in DOMAIN known THEN error ELSE UnexpectedEnumCase
  <2>1. i \in DOMAIN variants /\ inner \in Payloads(variants[i].fields)
    BY <1>0, <1>1
  <2> HIDE DEF variants, known
  <2> QED BY <1>4, <2>1, ErrorsAreReadAsWritten
<1>6. i \in DOMAIN variants
  BY <1>0
<1>7. raised'.error = error /\ raised'.words = words /\ raised'.read = read(known, words)
  BY <1>2
<1>8. app' = app
  BY <1>3
<1>9. \A j \in DOMAIN known : known[j].tag = error.tag => i \in DOMAIN known
  <2> SUFFICES ASSUME NEW j \in DOMAIN known, known[j].tag = error.tag PROVE i \in DOMAIN known
    OBVIOUS
  <2>1. DOMAIN known = 1 .. Len(known) /\ DOMAIN variants = 1 .. Len(variants)
        /\ Len(known) \in Nat /\ Len(variants) \in Nat
    BY <1>4
  <2>2. error.tag = variants[i].tag
    OBVIOUS
  <2> HIDE DEF known, variants, error
  <2>3. j \in DOMAIN variants /\ known[j] = variants[j]
    BY <1>4, <2>1 DEF Grown
  <2>4. variants[i].tag = variants[j].tag
    BY <2>2, <2>3
  <2>5. i = j
    BY <1>4, <1>6, <2>3, <2>4 DEF Distinct
  <2> QED BY <2>5
<1> HIDE DEF error, words
<1>10. ErrorsNeverMisread' /\ CurrentBindingsReadEveryError'
  BY <1>5, <1>6, <1>7, <1>8 DEF ErrorsNeverMisread, CurrentBindingsReadEveryError
<1>11. KnownErrorsAreWrittenAsInRust'
  BY <1>5, <1>7, <1>8, <1>9 DEF KnownErrorsAreWrittenAsInRust, WrittenAsInRust
<1>12. EnumsOnlyGrow'
  BY <1>3 DEF WireInv, EnumsOnlyGrow
<1> QED BY <1>10, <1>11, <1>12 DEF WireInv

\* Every step preserves it.
LEMMA WireNext == Inv /\ Inv' /\ WireInv /\ [Next]_bindingsVars => WireInv'
<1> SUFFICES ASSUME Inv, WireInv, [Next]_bindingsVars PROVE WireInv'
  OBVIOUS
<1>1. CASE \/ AddFunction \/ RemoveFunction \/ ChangeFunction
           \/ AppendVariant \/ UpgradeUniffi
  BY <1>1, EditsPreserveWireInv
<1>2. CASE Generate
  <2>1. Grown(crate.variants, crate.variants)
    <3>1. Len(crate.variants) \in Nat
      BY VariantsAreSequences
    <3> QED BY <3>1 DEF Grown
  <2> QED
    BY <1>2, <2>1
    DEF Generate, WireInv, EnumsOnlyGrow, ErrorsNeverMisread,
        CurrentBindingsReadEveryError, KnownErrorsAreWrittenAsInRust
<1>3. CASE Build
  <2>1. app'.crate = crate /\ app'.bindings = bindings
    BY <1>3 DEF Build
  <2>2. raised' = None /\ UNCHANGED <<crate, bindings>>
    BY <1>3 DEF Build
  <2> QED
    BY <2>1, <2>2
    DEF WireInv, EnumsOnlyGrow, ErrorsNeverMisread, CurrentBindingsReadEveryError,
        KnownErrorsAreWrittenAsInRust
<1>4. CASE Boot
  <2>1. UNCHANGED <<crate, bindings, raised>>
    BY <1>4 DEF Boot
  <2>2. app'.crate = app.crate /\ app'.bindings = app.bindings
    BY <1>4 DEF Boot, Inv, TypeOK
  <2> QED
    BY <2>1, <2>2
    DEF WireInv, EnumsOnlyGrow, ErrorsNeverMisread, CurrentBindingsReadEveryError,
        KnownErrorsAreWrittenAsInRust
<1>5. CASE Raise
  BY <1>5, RaisePreservesWireInv
<1>6. CASE UNCHANGED bindingsVars
  BY <1>6
  DEF bindingsVars, WireInv, EnumsOnlyGrow, ErrorsNeverMisread,
      CurrentBindingsReadEveryError, KnownErrorsAreWrittenAsInRust
<1> QED
  BY <1>1, <1>2, <1>3, <1>4, <1>5, <1>6 DEF Next

\* It holds of every behaviour.
THEOREM SpecWireInv == Spec => []WireInv
  BY SpecInv, WireInit, WireNext, PTL DEF Spec

\* An error of any payload is read as itself or as an unexpected case, however many
\* cases the enum has had added and however many of them the bindings have missed.
THEOREM ErrorsAreNeverMisread == Spec => []ErrorsNeverMisread
<1>1. WireInv => ErrorsNeverMisread
  BY DEF WireInv
<1> QED BY <1>1, SpecWireInv, PTL

\* With the bindings of the day every error is read as itself.
THEOREM CurrentBindingsSuffice == Spec => []CurrentBindingsReadEveryError
<1>1. WireInv => CurrentBindingsReadEveryError
  BY DEF WireInv
<1> QED BY <1>1, SpecWireInv, PTL

\* Any error the bindings know, of any payload, is written by them in the words Rust
\* writes, as many as they have reserved.
THEOREM WritingsAgreeWithRust == Spec => []KnownErrorsAreWrittenAsInRust
<1>1. WireInv => KnownErrorsAreWrittenAsInRust
  BY DEF WireInv
<1> QED BY <1>1, SpecWireInv, PTL

===========================================================================
