--------------------------- MODULE PoolPageProofs ---------------------------
(***************************************************************************)
(* Theorems about the pool page: whatever is laid out by AccountCodec is     *)
(* read back, a page that is up to date shows what it has confirmed and       *)
(* offers what the program accepts, and a payout is what the button said.     *)
(***************************************************************************)
EXTENDS PoolPage, PoolEscrowProofs, SequenceTheorems, WellFoundedInduction

-----------------------------------------------------------------------------
(* What is written                                                           *)

\* A set of natural numbers that is not empty has a least member.
LEMMA LeastMember ==
    ASSUME NEW S \in SUBSET Nat, S # {}
    PROVE  \E m \in S : \A n \in S : m <= n
  <1> DEFINE Before == OpToRel(<, Nat)
  <1>1. \A m, n \in Nat : n < m => <<n, m>> \in Before
    BY Zenon DEF OpToRel
  <1>2. IsWellFoundedOn(Before, Nat)
    BY NatLessThanWellFounded, Zenon
  <1> HIDE DEF Before
  <1>3. PICK m \in S : \A n \in S : ~(<<n, m>> \in Before)
    BY <1>2, WFMin
  <1>4. \A n \in S : m <= n
    <2> TAKE n \in S
    <2>1. m \in Nat /\ n \in Nat
      OBVIOUS
    <2>2. ~(n < m)
      BY <1>1, <1>3, <2>1, Zenon
    <2> QED
      BY <2>1, <2>2
  <1> QED
    BY <1>4

\* What is written of field k, and all that is written up to field i.
Part(layout, values, k) == Written(layout[k][2], values[layout[k][1]])
WritesUpTo(f, tag, layout, values, n) ==
    f = [i \in 0 .. n |-> IF i = 0 THEN <<Field("tag", tag)>>
                          ELSE f[i - 1] \o Part(layout, values, i)]

\* There is such a function for every number of fields.
LEMMA WritingExists ==
    ASSUME NEW tag, NEW layout, NEW values, NEW n \in Nat
    PROVE  \E f : WritesUpTo(f, tag, layout, values, n)
  <1> DEFINE Missing == {i \in Nat : ~ \E f : WritesUpTo(f, tag, layout, values, i)}
  <1>1. ASSUME Missing # {}
        PROVE  FALSE
    <2>1. PICK i \in Missing : \A j \in Missing : i <= j
      <3>1. Missing \in SUBSET Nat /\ Missing # {}
        BY <1>1
      <3> HIDE DEF Missing
      <3> QED
        BY <3>1, LeastMember
    <2>2. i \in Nat /\ ~ \E f : WritesUpTo(f, tag, layout, values, i)
      OBVIOUS
    <2>3. CASE i = 0
      <3> DEFINE g == [j \in 0 .. 0 |-> <<Field("tag", tag)>>]
      <3>1. WritesUpTo(g, tag, layout, values, 0)
        BY DEF WritesUpTo
      <3> QED
        BY <2>2, <2>3, <3>1
    <2>4. CASE i # 0
      <3>1. i - 1 \in Nat /\ ~(i <= i - 1)
        BY <2>2, <2>4
      <3>2. i - 1 \notin Missing
        BY <2>1, <3>1
      <3>3. PICK f : WritesUpTo(f, tag, layout, values, i - 1)
        BY <3>1, <3>2
      <3> DEFINE g == [j \in 0 .. i |-> IF j = i THEN f[i - 1] \o Part(layout, values, i)
                                        ELSE f[j]]
      <3>4. ASSUME NEW j \in 0 .. i
            PROVE  g[j] = IF j = 0 THEN <<Field("tag", tag)>>
                          ELSE g[j - 1] \o Part(layout, values, j)
        <4>1. CASE j = i
          <5>1. i - 1 \in 0 .. i /\ i - 1 # i /\ j # 0
            BY <2>2, <2>4, <4>1
          <5>2. g[i - 1] = f[i - 1]
            BY <5>1
          <5> QED
            BY <4>1, <5>1, <5>2
        <4>2. CASE j # i
          <5>1. j \in 0 .. i - 1 /\ g[j] = f[j]
            BY <2>2, <4>2
          <5>2. f[j] = IF j = 0 THEN <<Field("tag", tag)>>
                       ELSE f[j - 1] \o Part(layout, values, j)
            BY <3>3, <5>1 DEF WritesUpTo
          <5>3. j # 0 => g[j - 1] = f[j - 1]
            <6> SUFFICES ASSUME j # 0
                         PROVE  g[j - 1] = f[j - 1]
              OBVIOUS
            <6>1. j - 1 \in 0 .. i /\ j - 1 # i
              BY <2>2, <5>1
            <6> QED
              BY <6>1
          <5> HIDE DEF g
          <5> QED
            BY <5>1, <5>2, <5>3
        <4> QED
          BY <4>1, <4>2
      <3>5. WritesUpTo(g, tag, layout, values, i)
        <4>1. g = [j \in 0 .. i |-> g[j]]
          OBVIOUS
        <4> HIDE DEF g
        <4> QED
          BY <3>4, <4>1 DEF WritesUpTo
      <3> QED
        BY <2>2, <3>5
    <2> QED
      BY <2>3, <2>4
  <1> QED
    BY <1>1

\* The encoding is the last value of that function.
LEMMA EncodeWrites ==
    ASSUME NEW tag, NEW layout, NEW values, Len(layout) \in Nat
    PROVE  \E f : /\ WritesUpTo(f, tag, layout, values, Len(layout))
                  /\ Encode(tag, layout, values) = f[Len(layout)]
  <1> DEFINE g == CHOOSE f : WritesUpTo(f, tag, layout, values, Len(layout))
  <1>1. WritesUpTo(g, tag, layout, values, Len(layout))
    BY WritingExists
  <1>2. Encode(tag, layout, values) = g[Len(layout)]
    BY Zenon DEF Encode, WritesUpTo, Part
  <1> QED
    BY <1>1, <1>2

\* The layouts in use: one field at most is an option, field m, and no two
\* fields have the same name.
IsLayout(layout, m) ==
    /\ Len(layout) \in Nat
    /\ DOMAIN layout = 1 .. Len(layout)
    /\ m \in Nat \ {0}
    /\ \A k \in 1 .. Len(layout) :
          /\ layout[k][2] \in DOMAIN Width \cup {"option"}
          /\ layout[k][2] = "option" <=> k = m
    /\ \A j, k \in 1 .. Len(layout) : layout[j][1] = layout[k][1] => j = k

\* Values a field of this type has.
HasType(type, value) ==
    /\ type = "bool" => value \in 0 .. 1
    /\ type = "option" => value \in {-1, 0, 1}

\* Where field k begins; there tells whether the option, field m, is there.
Place(there, m, k) == IF there /\ m < k THEN 2 + k ELSE 1 + k

\* Field k is written at its place in data.
InPlace(data, layout, values, there, m, k) ==
    LET v == values[layout[k][1]] at == Place(there, m, k) IN
    IF k # m THEN data[at] = Field(layout[k][2], v)
    ELSE IF there THEN data[at] = Field("u8", 1) /\ data[at + 1] = Field("u8", v)
    ELSE data[at] = Field("u8", 0)

\* Every field that is written.
FieldsOf(tag, layout, values) ==
    {Field("tag", tag), Field("u8", 0), Field("u8", 1)}
        \cup {Field(type, values[layout[k][1]]) :
                 type \in DOMAIN Width, k \in 1 .. Len(layout)}

\* What is written of one field is a sequence of them.
LEMMA PartsAreFields ==
    ASSUME NEW tag, NEW layout, NEW values, NEW m, IsLayout(layout, m),
           NEW i \in 1 .. Len(layout)
    PROVE  Part(layout, values, i) \in Seq(FieldsOf(tag, layout, values))
  <1> DEFINE S == FieldsOf(tag, layout, values)
             v == values[layout[i][1]]
  <1>1. Field("u8", 0) \in S /\ Field("u8", 1) \in S
    BY DEF FieldsOf
  <1>2. \A type \in DOMAIN Width : Field(type, v) \in S
    BY DEF FieldsOf
  <1>3. "u8" \in DOMAIN Width
    BY DEF Width
  <1>4. layout[i][2] # "option" => layout[i][2] \in DOMAIN Width
    BY DEF IsLayout
  <1>5. Part(layout, values, i) = Written(layout[i][2], v)
    BY DEF Part
  <1> HIDE DEF S, v
  <1>6. CASE layout[i][2] # "option"
    <2>1. Field(layout[i][2], v) \in S
      BY <1>2, <1>4, <1>6
    <2>2. Part(layout, values, i) = <<Field(layout[i][2], v)>>
      BY <1>5, <1>6 DEF Written
    <2> QED
      BY <2>1, <2>2 DEF S
  <1>7. CASE layout[i][2] = "option"
    <2>1. Field("u8", v) \in S
      BY <1>2, <1>3
    <2>2. \/ Part(layout, values, i) = <<Field("u8", 0)>>
          \/ Part(layout, values, i) = <<Field("u8", 1), Field("u8", v)>>
      BY <1>5, <1>7 DEF Written
    <2>3. <<Field("u8", 0)>> \in Seq(S) /\ <<Field("u8", 1), Field("u8", v)>> \in Seq(S)
      BY <1>1, <2>1
    <2> QED
      BY <2>2, <2>3 DEF S
  <1> QED
    BY <1>6, <1>7

\* Whether the optional field of a layout is there.
OptionThere(layout, values, m) == m <= Len(layout) /\ values[layout[m][1]] >= 0

HaveTypes(layout, values) ==
    \A k \in 1 .. Len(layout) : HasType(layout[k][2], values[layout[k][1]])

\* The tag and the first i fields are at their places, and nothing else is.
WellWritten(s, tag, layout, values, m, i) ==
    LET there == OptionThere(layout, values, m) IN
    /\ s \in Seq(FieldsOf(tag, layout, values))
    /\ Len(s) = Place(there, m, i + 1) - 1
    /\ s[1] = Field("tag", tag)
    /\ \A k \in 1 .. i : InPlace(s, layout, values, there, m, k)

\* One more field is appended at its place, and the others stay where they are.
LEMMA AppendsInPlace ==
    ASSUME NEW tag, NEW layout, NEW values, NEW m, IsLayout(layout, m),
           HaveTypes(layout, values), NEW i \in 1 .. Len(layout),
           NEW s, WellWritten(s, tag, layout, values, m, i - 1)
    PROVE  WellWritten(s \o Part(layout, values, i), tag, layout, values, m, i)
  <1> DEFINE S == FieldsOf(tag, layout, values)
             there == OptionThere(layout, values, m)
             p == Part(layout, values, i)
             t == s \o p
             v == values[layout[i][1]]
  <1>a. /\ i \in Nat \ {0} /\ m \in Nat \ {0} /\ (i - 1) + 1 = i /\ there \in BOOLEAN
    BY DEF IsLayout, OptionThere
  <1>b. p \in Seq(S)
    BY PartsAreFields
  <1>c. /\ s \in Seq(S) /\ Len(s) = Place(there, m, i) - 1
        /\ s[1] = Field("tag", tag)
        /\ \A k \in 1 .. i - 1 : InPlace(s, layout, values, there, m, k)
    BY <1>a DEF WellWritten
  <1>d. i = m => (there <=> v >= 0)
    BY DEF OptionThere
  <1> HIDE DEF S, there
  <1>1. /\ t \in Seq(S) /\ Len(t) = Len(s) + Len(p)
        /\ \A j \in 1 .. Len(s) : t[j] = s[j]
        /\ \A j \in 1 .. Len(p) : t[Len(s) + j] = p[j]
    <2>0. t = s \o p /\ p \in Seq(S) /\ s \in Seq(S)
      BY <1>b, <1>c
    <2>1. /\ t \in Seq(S) /\ Len(t) = Len(s) + Len(p)
          /\ \A j \in 1 .. Len(s) + Len(p) : t[j] = IF j <= Len(s) THEN s[j]
                                                    ELSE p[j - Len(s)]
      <3> HIDE DEF t, p
      <3>1. /\ s \o p \in Seq(S)
            /\ Len(s \o p) = Len(s) + Len(p)
            /\ \A j \in 1 .. Len(s) + Len(p) : (s \o p)[j] = IF j <= Len(s) THEN s[j]
                                                      ELSE p[j - Len(s)]
        BY <2>0, ConcatProperties
      <3> QED
        BY <2>0, <3>1
    <2>2. Len(s) \in Nat /\ Len(p) \in Nat
      BY <2>0, LenProperties
    <2> HIDE DEF t, p
    <2>3. ASSUME NEW j \in 1 .. Len(s)
          PROVE  t[j] = s[j]
      BY <2>1, <2>2
    <2>4. ASSUME NEW j \in 1 .. Len(p)
          PROVE  t[Len(s) + j] = p[j]
      <3>1. Len(s) + j \in 1 .. Len(s) + Len(p) /\ ~(Len(s) + j <= Len(s))
            /\ (Len(s) + j) - Len(s) = j
        BY <2>2
      <3> QED
        BY <2>1, <3>1
    <2> QED
      BY <2>1, <2>3, <2>4
  <1>2. /\ i \in Nat \ {0} /\ m \in Nat \ {0} /\ Len(s) \in Nat /\ Len(s) >= i
        /\ Place(there, m, i) = Len(s) + 1
    BY <1>a, <1>b, <1>c, LenProperties DEF Place
  <1>3. /\ i # m => p = <<Field(layout[i][2], v)>>
        /\ i = m /\ there => p = <<Field("u8", 1), Field("u8", v)>>
        /\ i = m /\ ~there => p = <<Field("u8", 0)>>
    <2>1. /\ layout[i][2] = "option" <=> i = m
          /\ i = m => (there <=> v >= 0) /\ v \in {-1, 0, 1}
      BY <1>2, <1>d DEF IsLayout, HaveTypes, HasType
    <2>2. p = Written(layout[i][2], v)
      BY DEF Part
    <2>3. CASE i # m
      BY <2>1, <2>2, <2>3 DEF Written
    <2>4. CASE i = m /\ there
      <3>1. layout[i][2] = "option" /\ v >= 0 /\ v \in {-1, 0, 1}
        BY <2>1, <2>4
      <3>2. ~(v < 0)
        BY <3>1
      <3> QED
        BY <2>2, <2>4, <3>1, <3>2 DEF Written
    <2>5. CASE i = m /\ ~there
      <3>1. layout[i][2] = "option" /\ ~(v >= 0) /\ v \in {-1, 0, 1}
        BY <2>1, <2>5
      <3>2. v < 0
        BY <3>1
      <3> QED
        BY <2>2, <2>5, <3>1, <3>2 DEF Written
    <2> QED
      BY <2>3, <2>4, <2>5
  <1> HIDE DEF t, p, v
  <1>4. Len(t) = Place(there, m, i + 1) - 1
    <2>1. Len(p) = IF i = m /\ there THEN 2 ELSE 1
      BY <1>3
    <2> QED
      BY <1>1, <1>2, <2>1 DEF Place
  <1>5. t[1] = Field("tag", tag)
    BY <1>1, <1>2, <1>c
  <1>6. ASSUME NEW k \in 1 .. i - 1
        PROVE  InPlace(t, layout, values, there, m, k)
    <2>1. InPlace(s, layout, values, there, m, k)
      BY <1>c
    <2>2. /\ Place(there, m, k) \in 1 .. Len(s)
          /\ k = m /\ there => Place(there, m, k) + 1 \in 1 .. Len(s)
      BY <1>2, <1>a DEF Place
    <2> QED
      BY <1>1, <2>1, <2>2 DEF InPlace
  <1>7. InPlace(t, layout, values, there, m, i)
    <2>1. /\ t[Len(s) + 1] = p[1]
          /\ i = m /\ there => t[Len(s) + 2] = p[2]
      <3>0. Len(p) = IF i = m /\ there THEN 2 ELSE 1
        BY <1>3
      <3>1. 1 \in 1 .. Len(p) /\ (i = m /\ there => 2 \in 1 .. Len(p))
        BY <3>0
      <3> QED
        BY <1>1, <3>1
    <2> DEFINE at == Place(there, m, i)
    <2>2. at = Len(s) + 1 /\ at + 1 = Len(s) + 2
      BY <1>2
    <2> HIDE DEF at
    <2>3. CASE i # m
      <3>0. p[1] = Field(layout[i][2], v)
        BY <1>3, <2>3
      <3>1. t[at] = Field(layout[i][2], v)
        BY <3>0, <2>1, <2>2
      <3> QED
        BY <2>3, <3>1 DEF InPlace, at, v
    <2>4. CASE i = m /\ there
      <3>0. p[1] = Field("u8", 1) /\ p[2] = Field("u8", v)
        BY <1>3, <2>4
      <3>1. t[at] = Field("u8", 1) /\ t[at + 1] = Field("u8", v)
        BY <3>0, <2>1, <2>2, <2>4
      <3> QED
        BY <2>4, <3>1 DEF InPlace, at, v
    <2>5. CASE i = m /\ ~there
      <3>0. p[1] = Field("u8", 0)
        BY <1>3, <2>5
      <3>1. t[at] = Field("u8", 0)
        BY <3>0, <2>1, <2>2
      <3> QED
        BY <2>5, <3>1 DEF InPlace, at, v
    <2> QED
      BY <2>3, <2>4, <2>5
  <1>8. \A k \in 1 .. i : InPlace(t, layout, values, there, m, k)
    <2> TAKE k \in 1 .. i
    <2>1. k = i \/ k \in 1 .. i - 1
      BY <1>2
    <2> QED
      BY <1>6, <1>7, <2>1
  <1> QED
    BY <1>1, <1>4, <1>5, <1>8 DEF WellWritten, S, there, p, t

\* Every field of an encoding is at its place.
LEMMA EncodesInPlace ==
    ASSUME NEW tag, NEW layout, NEW values, NEW m, IsLayout(layout, m),
           HaveTypes(layout, values)
    PROVE  WellWritten(Encode(tag, layout, values), tag, layout, values, m, Len(layout))
  <1> DEFINE n == Len(layout)
             Good(s, i) == WellWritten(s, tag, layout, values, m, i)
  <1>1. n \in Nat /\ m \in Nat \ {0}
    BY DEF IsLayout
  <1>2. PICK f : /\ WritesUpTo(f, tag, layout, values, n)
                 /\ Encode(tag, layout, values) = f[n]
    BY <1>1, EncodeWrites
  <1>3. Good(f[0], 0)
    <2>1. f[0] = <<Field("tag", tag)>>
      BY <1>1, <1>2 DEF WritesUpTo
    <2>2. Field("tag", tag) \in FieldsOf(tag, layout, values)
      BY DEF FieldsOf
    <2>3. Place(OptionThere(layout, values, m), m, 0 + 1) = 2
      BY <1>1 DEF Place
    <2>4. /\ <<Field("tag", tag)>> \in Seq(FieldsOf(tag, layout, values))
          /\ Len(<<Field("tag", tag)>>) = 1
          /\ <<Field("tag", tag)>>[1] = Field("tag", tag)
      BY <2>2
    <2> QED
      BY <2>1, <2>3, <2>4 DEF WellWritten
  <1>4. ASSUME NEW i \in 1 .. n, Good(f[i - 1], i - 1)
        PROVE  Good(f[i], i)
    <2>1. f[i] = f[i - 1] \o Part(layout, values, i)
      <3>1. i \in 0 .. n /\ i # 0
        BY <1>1
      <3> QED
        BY <1>2, <3>1 DEF WritesUpTo
    <2>2. WellWritten(f[i - 1] \o Part(layout, values, i), tag, layout, values, m, i)
      BY <1>4, AppendsInPlace
    <2> QED
      BY <2>1, <2>2
  <1> HIDE DEF Good
  <1>5. \A i \in 0 .. n : Good(f[i], i)
    <2> DEFINE Bad == {i \in Nat : i <= n /\ ~Good(f[i], i)}
    <2>1. ASSUME Bad # {}
          PROVE  FALSE
      <3>1. PICK i \in Bad : \A j \in Bad : i <= j
        <4>1. Bad \in SUBSET Nat /\ Bad # {}
          BY <2>1
        <4> HIDE DEF Bad
        <4> QED
          BY <4>1, LeastMember
      <3>2. i \in Nat /\ i <= n /\ ~Good(f[i], i)
        OBVIOUS
      <3>3. i # 0
        BY <1>3, <3>2
      <3>4. i - 1 \in Nat /\ i - 1 <= n /\ ~(i <= i - 1) /\ i \in 1 .. n
        BY <1>1, <3>2, <3>3
      <3>5. i - 1 \notin Bad
        BY <3>1, <3>4
      <3>6. Good(f[i - 1], i - 1)
        BY <3>4, <3>5
      <3> QED
        BY <1>4, <3>2, <3>4, <3>6
    <2> QED
      BY <1>1, <2>1
  <1>6. Good(f[n], n)
    BY <1>1, <1>5
  <1> QED
    BY <1>2, <1>6 DEF Good

-----------------------------------------------------------------------------
(* What is read                                                              *)

\* A field with its type's value is readable at its place, and has that value.
LEMMA ReadsInPlace ==
    ASSUME NEW tag, NEW layout, NEW values, NEW m, IsLayout(layout, m),
           HaveTypes(layout, values), NEW data,
           WellWritten(data, tag, layout, values, m, Len(layout)),
           NEW k \in 1 .. Len(layout)
    PROVE  LET at == Place(OptionThere(layout, values, m), m, k) IN
           /\ Readable(layout[k][2], data, at)
           /\ Value(layout[k][2], data, at) = values[layout[k][1]]
  <1> DEFINE there == OptionThere(layout, values, m)
             at == Place(there, m, k)
             v == values[layout[k][1]]
             type == layout[k][2]
  <1>1. /\ k \in Nat \ {0} /\ m \in Nat \ {0} /\ Len(layout) \in Nat /\ k <= Len(layout)
        /\ type \in DOMAIN Width \cup {"option"} /\ (type = "option" <=> k = m)
        /\ there \in BOOLEAN /\ (k = m => (there <=> v >= 0))
        /\ type = "bool" => v \in 0 .. 1
        /\ k = m => v \in {-1, 0, 1}
    BY DEF IsLayout, OptionThere, HaveTypes, HasType
  <1>2. InPlace(data, layout, values, there, m, k)
    BY DEF WellWritten
  <1>3. DOMAIN data = 1 .. Len(data) /\ Len(data) = Place(there, m, Len(layout) + 1) - 1
    BY DEF WellWritten
  <1>4. at \in DOMAIN data /\ (k = m /\ there => at + 1 \in DOMAIN data)
    <2> HIDE DEF there
    <2> QED
      BY <1>1, <1>3 DEF Place
  <1>5. /\ k # m => data[at] = Field(type, v)
        /\ k = m /\ there => data[at] = Field("u8", 1) /\ data[at + 1] = Field("u8", v)
        /\ k = m /\ ~there => data[at] = Field("u8", 0)
    BY <1>2 DEF InPlace
  <1>6. /\ \A t, w : Field(t, w).width = Width[t] /\ Field(t, w).value = w
        /\ Width["u8"] = 1 /\ Width["bool"] = 1
    BY DEF Field, Width
  <1> HIDE DEF there, at, v, type
  <1>7. CASE k # m
    <2>1. data[at].width = Width[type] /\ data[at].value = v /\ type # "option"
      BY <1>1, <1>5, <1>6, <1>7
    <2>2. type = "bool" => data[at].width = 1 /\ data[at].value \in 0 .. 1
      BY <1>1, <1>6, <2>1
    <2>3. Readable(type, data, at) /\ Value(type, data, at) = v
      BY <1>4, <2>1, <2>2 DEF Readable, Value
    <2> QED
      BY <2>3 DEF at, there, v, type
  <1>8. CASE k = m /\ there
    <2>1. /\ data[at].width = 1 /\ data[at].value = 1 /\ type = "option"
          /\ data[at + 1].width = 1 /\ data[at + 1].value = v
      BY <1>1, <1>5, <1>6, <1>8
    <2>2. v \in 0 .. 1
      BY <1>1, <1>8
    <2>3. Readable(type, data, at) /\ Value(type, data, at) = v
      BY <1>4, <1>8, <2>1, <2>2 DEF Readable, Value
    <2> QED
      BY <2>3 DEF at, there, v, type
  <1>9. CASE k = m /\ ~there
    <2>1. data[at].width = 1 /\ data[at].value = 0 /\ type = "option"
      BY <1>1, <1>5, <1>6, <1>9
    <2>2. v = -1
      BY <1>1, <1>9
    <2>3. Readable(type, data, at) /\ Value(type, data, at) = v
      BY <1>4, <2>1, <2>2 DEF Readable, Value
    <2> QED
      BY <2>3 DEF at, there, v, type
  <1> QED
    BY <1>1, <1>7, <1>8, <1>9

\* The reader knows the first fields of a layout.
ReadsFirst(reads, layout, m) ==
    /\ IsLayout(reads, m)
    /\ Len(reads) <= Len(layout)
    /\ \A k \in 1 .. Len(reads) : reads[k] = layout[k]

\* The reader finds every field where it was written.
LEMMA PlacesAreRight ==
    ASSUME NEW tag, NEW layout, NEW values, NEW m, IsLayout(layout, m),
           HaveTypes(layout, values), NEW data,
           WellWritten(data, tag, layout, values, m, Len(layout)),
           NEW reads, ReadsFirst(reads, layout, m),
           NEW i \in 1 .. Len(reads)
    PROVE  Places(reads, data)[i] = Place(OptionThere(layout, values, m), m, i)
  <1> DEFINE there == OptionThere(layout, values, m)
             options == {k \in DOMAIN reads : reads[k][2] = "option"}
             before == {k \in options : k < i /\ data[k + 1].value = 1}
  <1>1. /\ DOMAIN reads = 1 .. Len(reads) /\ Len(reads) \in Nat /\ m \in Nat \ {0}
        /\ Len(layout) \in Nat
        /\ \A k \in 1 .. Len(reads) : reads[k][2] = "option" <=> k = m
        /\ there \in BOOLEAN /\ Len(reads) <= Len(layout)
    BY DEF IsLayout, OptionThere, ReadsFirst
  <1>2. Places(reads, data)[i] = 1 + i + Cardinality(before)
    BY <1>1 DEF Places
  <1>3. ASSUME m < i
        PROVE  there <=> data[m + 1].value = 1
    <2>1. m \in 1 .. Len(layout)
      BY <1>1, <1>3
    <2>2. InPlace(data, layout, values, there, m, m)
      BY <2>1 DEF WellWritten
    <2>3. Place(there, m, m) = m + 1
      BY <1>1 DEF Place
    <2>4. Field("u8", 1).value = 1 /\ Field("u8", 0).value = 0
      BY DEF Field
    <2> HIDE DEF there
    <2> QED
      BY <2>2, <2>3, <2>4 DEF InPlace
  <1> HIDE DEF there
  <1>4. before = IF there /\ m < i THEN {m} ELSE {}
    <2>1. ASSUME NEW k \in before
          PROVE  k = m /\ m < i /\ there
      BY <1>1, <1>3
    <2>2. ASSUME there, m < i
          PROVE  m \in before
      BY <1>1, <1>3, <2>2
    <2> HIDE DEF before
    <2> QED
      BY <2>1, <2>2
  <1>5. Cardinality({m}) = 1 /\ Cardinality({}) = 0
    BY FS_Singleton, FS_EmptySet
  <1> HIDE DEF before
  <1> QED
    BY <1>1, <1>2, <1>4, <1>5 DEF Place, there

\* The names of the fields that are read, and what reading them should give.
NamesIn(reads) == {f[1] : f \in ToSet(reads)}
AsWritten(values, reads) ==
    [ok |-> TRUE, values |-> [n \in NamesIn(reads) |-> values[n]]]

\* A reader that knows the first fields of a layout reads them as they are.
LEMMA ReadsWellWritten ==
    ASSUME NEW tag, NEW layout, NEW values, NEW m, IsLayout(layout, m),
           HaveTypes(layout, values), NEW data,
           WellWritten(data, tag, layout, values, m, Len(layout)),
           NEW reads, ReadsFirst(reads, layout, m)
    PROVE  Decode(tag, reads, data)
              = AsWritten(values, reads)
  <1> DEFINE there == OptionThere(layout, values, m)
             at == Places(reads, data)
             names == {f[1] : f \in ToSet(reads)}
             index == [n \in names |-> CHOOSE i \in DOMAIN reads : reads[i][1] = n]
  <1>1. WellWritten(data, tag, layout, values, m, Len(layout))
    OBVIOUS
  <1>2. /\ DOMAIN reads = 1 .. Len(reads) /\ Len(reads) \in Nat /\ m \in Nat \ {0}
        /\ Len(layout) \in Nat /\ there \in BOOLEAN
        /\ Len(reads) <= Len(layout)
        /\ \A k \in 1 .. Len(reads) : reads[k] = layout[k]
        /\ \A j, k \in 1 .. Len(reads) : reads[j][1] = reads[k][1] => j = k
    BY DEF IsLayout, OptionThere, ReadsFirst
  <1>3. data[1] = Field("tag", tag)
    BY <1>1 DEF WellWritten
  <1>4. Len(data) > Len(reads)
    <2>1. Len(data) = Place(there, m, Len(layout) + 1) - 1
      BY <1>1 DEF WellWritten
    <2> HIDE DEF there
    <2> QED
      BY <1>2, <2>1 DEF Place
  <1>5. ASSUME NEW i \in DOMAIN reads
        PROVE  /\ Readable(reads[i][2], data, at[i])
               /\ Value(reads[i][2], data, at[i]) = values[reads[i][1]]
    <2>1. i \in 1 .. Len(reads) /\ i \in 1 .. Len(layout) /\ reads[i] = layout[i]
      BY <1>2
    <2>2. at[i] = Place(there, m, i)
      <3>1. Places(reads, data)[i] = Place(OptionThere(layout, values, m), m, i)
        BY <1>1, <2>1, PlacesAreRight
      <3> QED
        BY <3>1
    <2>3. /\ Readable(layout[i][2], data, Place(there, m, i))
          /\ Value(layout[i][2], data, Place(there, m, i)) = values[layout[i][1]]
      BY <1>1, <2>1, ReadsInPlace
    <2> QED
      BY <2>1, <2>2, <2>3
  <1>6. ASSUME NEW n \in names
        PROVE  index[n] \in DOMAIN reads /\ reads[index[n]][1] = n
    <2>1. \E i \in DOMAIN reads : reads[i][1] = n
      BY DEF ToSet
    <2> QED
      BY <2>1
  <1>7. [n \in DOMAIN index |-> Value(reads[index[n]][2], data, at[index[n]])]
            = [n \in names |-> values[n]]
    <2>1. DOMAIN index = names
      OBVIOUS
    <2> HIDE DEF index, names, at
    <2>2. \A n \in names : Value(reads[index[n]][2], data, at[index[n]]) = values[n]
      BY <1>5, <1>6
    <2> QED
      BY <2>1, <2>2
  <1>8. Decode(tag, reads, data)
           = [ok |-> TRUE,
              values |-> [n \in DOMAIN index |-> Value(reads[index[n]][2], data, at[index[n]])]]
    <2>1. /\ data[1] = Field("tag", tag) /\ Len(data) > Len(reads)
          /\ \A i \in DOMAIN reads : Readable(reads[i][2], data, at[i])
      BY <1>3, <1>4, <1>5
    <2> QED
      BY <2>1, Zenon DEF Decode
  <1> QED
    BY <1>7, <1>8 DEF AsWritten, NamesIn

\* Whatever is laid out is read back: for every layout with at most one option,
\* and a reader that knows its first fields.
THEOREM ReadsWhatWasWritten ==
    ASSUME NEW tag, NEW layout, NEW values, NEW m, IsLayout(layout, m),
           HaveTypes(layout, values),
           NEW reads, ReadsFirst(reads, layout, m)
    PROVE  Decode(tag, reads, Encode(tag, layout, values))
              = AsWritten(values, reads)
  <1>1. WellWritten(Encode(tag, layout, values), tag, layout, values, m, Len(layout))
    BY EncodesInPlace
  <1> QED
    BY <1>1, ReadsWellWritten

-----------------------------------------------------------------------------
(* The accounts and the instructions of the program                          *)

\* The n fields of a layout have names with different numbers, and known types.
Numbered(layout, m, number, n) ==
    /\ n \in Nat /\ Len(layout) = n /\ DOMAIN layout = 1 .. n
    /\ \A k \in 1 .. n : /\ layout[k][2] \in DOMAIN Width \cup {"option"}
                         /\ layout[k][2] = "option" <=> k = m
                         /\ number[layout[k][1]] = k

\* Such a layout is one as above.
LEMMA LayoutOf ==
    ASSUME NEW layout, NEW m \in Nat \ {0}, NEW number, NEW n, Numbered(layout, m, number, n)
    PROVE  IsLayout(layout, m)
  <1>1. \A j, k \in 1 .. n : layout[j][1] = layout[k][1] => j = k
    BY DEF Numbered
  <1> QED
    BY <1>1 DEF IsLayout, Numbered

\* The layouts of the accounts are ones with an option, and one without.
LEMMA AccountLayouts ==
    /\ IsLayout(PoolStruct, 11) /\ Len(PoolStruct) = 18
    /\ ReadsFirst(PoolReads, PoolStruct, 11) /\ Len(PoolReads) = 17
    /\ IsLayout(PositionStruct, 99) /\ Len(PositionStruct) = 7
    /\ ReadsFirst(PositionReads, PositionStruct, 99) /\ Len(PositionReads) = 6
  <1> DEFINE poolNumber ==
               [creator |-> 1, fixtureId |-> 2, poolId |-> 3, mint |-> 4, commitment |-> 5,
                version |-> 6, cutoff |-> 7, refundAfter |-> 8, createdAt |-> 9, state |-> 10,
                winningSide |-> 11, yes |-> 12, no |-> 13, remainingPool |-> 14,
                remainingWinning |-> 15, settledSequence |-> 16, demoMode |-> 17, bump |-> 18]
             positionNumber ==
               [pool |-> 1, owner |-> 2, side |-> 3, amount |-> 4, claimed |-> 5,
                refunded |-> 6, bump |-> 7]
  <1>1. DOMAIN PoolStruct = 1 .. 18 /\ Len(PoolStruct) = 18 /\ 18 \in Nat
    BY DEF PoolStruct
  <1>2. \A k \in 1 .. 18 : /\ PoolStruct[k][2] \in DOMAIN Width \cup {"option"}
                           /\ PoolStruct[k][2] = "option" <=> k = 11
    BY DEF PoolStruct, Width
  <1>3. \A k \in 1 .. 18 : poolNumber[PoolStruct[k][1]] = k
    BY DEF PoolStruct
  <1>4. IsLayout(PoolStruct, 11)
    <2> HIDE DEF poolNumber
    <2>1. 11 \in Nat \ {0}
      OBVIOUS
    <2>2. Numbered(PoolStruct, 11, poolNumber, 18)
      BY <1>1, <1>2, <1>3 DEF Numbered
    <2> QED
      BY <2>1, <2>2, LayoutOf
  <1>5. DOMAIN PoolReads = 1 .. 17 /\ Len(PoolReads) = 17 /\ 17 \in Nat
    BY DEF PoolReads
  <1>6. \A k \in 1 .. 17 : PoolReads[k] = PoolStruct[k]
    <2> HIDE DEF poolNumber, positionNumber
    <2>1. /\ PoolReads[1] = PoolStruct[1] /\ PoolReads[2] = PoolStruct[2]
          /\ PoolReads[3] = PoolStruct[3] /\ PoolReads[4] = PoolStruct[4]
          /\ PoolReads[5] = PoolStruct[5] /\ PoolReads[6] = PoolStruct[6]
          /\ PoolReads[7] = PoolStruct[7] /\ PoolReads[8] = PoolStruct[8]
          /\ PoolReads[9] = PoolStruct[9] /\ PoolReads[10] = PoolStruct[10]
          /\ PoolReads[11] = PoolStruct[11] /\ PoolReads[12] = PoolStruct[12]
          /\ PoolReads[13] = PoolStruct[13] /\ PoolReads[14] = PoolStruct[14]
          /\ PoolReads[15] = PoolStruct[15] /\ PoolReads[16] = PoolStruct[16]
          /\ PoolReads[17] = PoolStruct[17]
      BY DEF PoolReads, PoolStruct
    <2> QED
      BY <2>1
  <1>7. ReadsFirst(PoolReads, PoolStruct, 11)
    <2>1. \A k \in 1 .. 17 : k \in 1 .. 18
      OBVIOUS
    <2>2. \A k \in 1 .. 17 : /\ PoolReads[k][2] \in DOMAIN Width \cup {"option"}
                             /\ PoolReads[k][2] = "option" <=> k = 11
      BY <1>2, <1>6, <2>1
    <2>3. \A k \in 1 .. 17 : poolNumber[PoolReads[k][1]] = k
      BY <1>3, <1>6, <2>1
    <2> HIDE DEF poolNumber
    <2>4. 11 \in Nat \ {0}
      OBVIOUS
    <2>5. IsLayout(PoolReads, 11)
      <3>1. Numbered(PoolReads, 11, poolNumber, 17)
        BY <1>5, <2>2, <2>3 DEF Numbered
      <3> QED
        BY <2>4, <3>1, LayoutOf
    <2> QED
      BY <1>1, <1>5, <1>6, <2>5 DEF ReadsFirst
  <1>8. DOMAIN PositionStruct = 1 .. 7 /\ Len(PositionStruct) = 7 /\ 7 \in Nat
    BY DEF PositionStruct
  <1>9. \A k \in 1 .. 7 : /\ PositionStruct[k][2] \in DOMAIN Width
                          /\ PositionStruct[k][2] # "option"
                          /\ positionNumber[PositionStruct[k][1]] = k
    BY DEF PositionStruct, Width
  <1>10. IsLayout(PositionStruct, 99)
    <2> HIDE DEF positionNumber
    <2>1. 99 \in Nat \ {0} /\ \A k \in 1 .. 7 : k # 99
      OBVIOUS
    <2>2. Numbered(PositionStruct, 99, positionNumber, 7)
      BY <1>8, <1>9, <2>1 DEF Numbered
    <2> QED
      BY <2>1, <2>2, LayoutOf
  <1>11. /\ DOMAIN PositionReads = 1 .. 6 /\ Len(PositionReads) = 6 /\ 6 \in Nat
         /\ \A k \in 1 .. 6 : PositionReads[k] = PositionStruct[k]
    <2>1. PositionReads = [k \in 1 .. 6 |-> PositionStruct[k]]
      BY DEF PositionReads
    <2>2. PositionReads \in Seq({PositionStruct[k] : k \in 1 .. 6}) /\ Len(PositionReads) = 6
      BY <2>1
    <2> QED
      BY <2>1, <2>2
  <1>12. ReadsFirst(PositionReads, PositionStruct, 99)
    <2>1. 99 \in Nat \ {0} /\ \A k \in 1 .. 6 : k # 99 /\ k \in 1 .. 7
      OBVIOUS
    <2>2. \A k \in 1 .. 6 : /\ PositionReads[k][2] \in DOMAIN Width \cup {"option"}
                            /\ PositionReads[k][2] = "option" <=> k = 99
                            /\ positionNumber[PositionReads[k][1]] = k
      BY <1>9, <1>11, <2>1
    <2> HIDE DEF positionNumber
    <2>3. IsLayout(PositionReads, 99)
      <3>1. Numbered(PositionReads, 99, positionNumber, 6)
        BY <1>11, <2>2 DEF Numbered
      <3> QED
        BY <2>1, <3>1, LayoutOf
    <2> QED
      BY <1>8, <1>11, <2>3 DEF ReadsFirst
  <1> QED
    BY <1>1, <1>4, <1>5, <1>7, <1>8, <1>10, <1>11, <1>12

\* The names of the fields the page uses.
LEMMA NamesRead ==
    /\ {"creator", "fixtureId", "poolId", "mint", "commitment", "version", "cutoff", "state",
        "winningSide", "yes", "no", "remainingPool", "remainingWinning", "demoMode"}
          \subseteq NamesIn(PoolReads)
    /\ NamesIn(PositionReads) = {"pool", "owner", "side", "amount", "claimed", "refunded"}
  <1>1. \A k \in DOMAIN PoolReads : PoolReads[k][1] \in NamesIn(PoolReads)
    BY DEF NamesIn, ToSet
  <1>2. 1 .. 17 = DOMAIN PoolReads
    BY AccountLayouts DEF ReadsFirst, IsLayout
  <1>3. /\ PoolReads[1][1] = "creator" /\ PoolReads[2][1] = "fixtureId"
        /\ PoolReads[3][1] = "poolId" /\ PoolReads[4][1] = "mint"
        /\ PoolReads[5][1] = "commitment" /\ PoolReads[6][1] = "version"
        /\ PoolReads[7][1] = "cutoff"
        /\ PoolReads[10][1] = "state" /\ PoolReads[11][1] = "winningSide"
        /\ PoolReads[12][1] = "yes" /\ PoolReads[13][1] = "no"
        /\ PoolReads[14][1] = "remainingPool" /\ PoolReads[15][1] = "remainingWinning"
        /\ PoolReads[17][1] = "demoMode"
    BY DEF PoolReads
  <1>4. {1, 2, 3, 4, 5, 6, 7, 10, 11, 12, 13, 14, 15, 17} \subseteq DOMAIN PoolReads
    BY <1>2
  <1>5. /\ DOMAIN PositionReads = 1 .. 6
        /\ \A k \in 1 .. 6 : PositionReads[k] = PositionStruct[k]
    BY AccountLayouts DEF ReadsFirst, IsLayout
  <1>6. /\ PositionStruct[1][1] = "pool" /\ PositionStruct[2][1] = "owner"
        /\ PositionStruct[3][1] = "side" /\ PositionStruct[4][1] = "amount"
        /\ PositionStruct[5][1] = "claimed" /\ PositionStruct[6][1] = "refunded"
    BY DEF PositionStruct
  <1>7. NamesIn(PositionReads) = {PositionStruct[k][1] : k \in 1 .. 6}
    BY <1>5 DEF NamesIn, ToSet
  <1>8. 1 .. 6 = {1, 2, 3, 4, 5, 6}
    OBVIOUS
  <1>9. NamesIn(PositionReads) = {"pool", "owner", "side", "amount", "claimed", "refunded"}
    BY <1>6, <1>7, <1>8
  <1>10. \A k \in {1, 2, 3, 4, 5, 6, 7, 10, 11, 12, 13, 14, 15, 17} :
            PoolReads[k][1] \in NamesIn(PoolReads)
    BY <1>1, <1>4
  <1>11. {"creator", "fixtureId", "poolId", "mint", "commitment", "version", "cutoff"}
            \subseteq NamesIn(PoolReads)
    BY <1>3, <1>10
  <1>12. {"state", "winningSide", "yes", "no", "remainingPool", "remainingWinning", "demoMode"}
            \subseteq NamesIn(PoolReads)
    BY <1>3, <1>10
  <1> QED
    BY <1>9, <1>11, <1>12

\* What the program writes of a pool, by the name of the field.
PoolFields(terms, p) ==
    [creator |-> terms.creator, fixtureId |-> terms.fixtureId,
     poolId |-> terms.poolId, mint |-> terms.mint, commitment |-> terms.commitment,
     version |-> terms.version, cutoff |-> p.cutoff, refundAfter |-> p.refundAfter,
     createdAt |-> 0,
     state |-> (CHOOSE i \in DOMAIN ProgramStates : ProgramStates[i] = p.state) - 1,
     winningSide |-> SideNumber(p.winningSide), yes |-> p.sideAmount["Yes"],
     no |-> p.sideAmount["No"], remainingPool |-> p.remainingPool,
     remainingWinning |-> p.remainingWinning,
     settledSequence |-> p.settledSequence, demoMode |-> Bit(p.demoMode),
     bump |-> 255]

\* They are read as they were written.
LEMMA PoolFieldsAreRead ==
    ASSUME NEW p \in PoolAccounts
    PROVE  Decode("Pool", PoolReads, PoolData(Terms, p))
              = AsWritten(PoolFields(Terms, p), PoolReads)
  <1> DEFINE values == PoolFields(Terms, p)
  <1>1. PoolData(Terms, p) = Encode("Pool", PoolStruct, values)
    BY Zenon DEF PoolData, PoolFields
  <1>2. HaveTypes(PoolStruct, values)
    <2>1. \A k \in 1 .. 18 : /\ PoolStruct[k][2] = "bool" => k = 17
                             /\ PoolStruct[k][2] = "option" => k = 11
      BY DEF PoolStruct
    <2>2. PoolStruct[17][1] = "demoMode" /\ PoolStruct[11][1] = "winningSide"
      BY DEF PoolStruct
    <2>3. values["demoMode"] \in 0 .. 1
      <3>1. values["demoMode"] = Bit(p.demoMode)
        BY DEF PoolFields
      <3> QED
        BY <3>1 DEF Bit
    <2>4. values["winningSide"] \in {-1, 0, 1}
      <3>1. values["winningSide"] = SideNumber(p.winningSide)
        BY DEF PoolFields
      <3>2. p.winningSide \in {"Yes", "No", "None"}
        BY DEF PoolAccounts, Sides, None
      <3>3. /\ SideNumber("Yes") = 0 /\ SideNumber("No") = 1
            /\ SideNumber("None") = -1
        BY DEF SideNumber
      <3> QED
        BY <3>1, <3>2, <3>3
    <2> HIDE DEF values
    <2>5. \A k \in 1 .. 18 : HasType(PoolStruct[k][2], values[PoolStruct[k][1]])
      BY <2>1, <2>2, <2>3, <2>4 DEF HasType
    <2> QED
      BY <2>5, AccountLayouts DEF HaveTypes
  <1> HIDE DEF values
  <1>3. Decode("Pool", PoolReads, Encode("Pool", PoolStruct, values))
           = AsWritten(values, PoolReads)
    BY <1>2, AccountLayouts, ReadsWhatWasWritten
  <1> QED
    BY <1>1, <1>3 DEF values

\* A pool that is shown is shown as it is, whatever its state.
LEMMA PoolIsRead ==
    ASSUME NEW p \in PoolAccounts, p.state # "Absent",
           DecodePool(Address, PoolData(Terms, p)).ok
    PROVE  LET d == DecodePool(Address, PoolData(Terms, p)) IN
           /\ d.state = p.state
           /\ d.yes = p.sideAmount["Yes"] /\ d.no = p.sideAmount["No"]
           /\ d.remainingPool = p.remainingPool
           /\ d.remainingWinning = p.remainingWinning
           /\ d.address = Address /\ d.cutoff = p.cutoff
           /\ d.fixtureId = Terms.fixtureId /\ d.mint = Terms.mint
           /\ d.commitment = Terms.commitment /\ d.version = Terms.version
  <1> DEFINE fields == PoolFields(Terms, p)
             read == Decode("Pool", PoolReads, PoolData(Terms, p))
             v == read.values
             d == DecodePool(Address, PoolData(Terms, p))
  <1>1. read.values = [n \in NamesIn(PoolReads) |-> fields[n]] /\ read.ok = TRUE
    BY PoolFieldsAreRead DEF AsWritten
  <1>2. /\ d.state = ClientStates[v.state + 1]
        /\ d.yes = v.yes /\ d.no = v.no
        /\ d.remainingPool = v.remainingPool
        /\ d.remainingWinning = v.remainingWinning
        /\ d.address = Address /\ d.cutoff = v.cutoff
        /\ d.fixtureId = v.fixtureId /\ d.mint = v.mint
        /\ d.commitment = v.commitment /\ d.version = v.version
    <2>1. d.ok
      OBVIOUS
    <2> HIDE DEF read, d
    <2>2. CASE read.ok /\ v.state + 1 \in DOMAIN ClientStates
               /\ PoolAddress(v.creator, v.poolId) = Address
      BY <2>2 DEF DecodePool, d, read
    <2>3. CASE ~(read.ok /\ v.state + 1 \in DOMAIN ClientStates
                 /\ PoolAddress(v.creator, v.poolId) = Address)
      <3>1. d = [ok |-> FALSE]
        BY <2>3 DEF DecodePool, d, read
      <3> QED
        BY <2>1, <3>1
    <2> QED
      BY <2>2, <2>3
  <1>3. /\ v.state = fields["state"] /\ v.yes = fields["yes"] /\ v.no = fields["no"]
        /\ v.remainingPool = fields["remainingPool"]
        /\ v.remainingWinning = fields["remainingWinning"]
        /\ v.cutoff = fields["cutoff"]
        /\ v.fixtureId = fields["fixtureId"] /\ v.mint = fields["mint"]
        /\ v.commitment = fields["commitment"] /\ v.version = fields["version"]
    <2> HIDE DEF fields, read
    <2> QED
      BY <1>1, NamesRead
  <1>4. ClientStates[fields["state"] + 1] = p.state
    <2> DEFINE i == CHOOSE j \in DOMAIN ProgramStates : ProgramStates[j] = p.state
    <2>1. p.state \in {"Open", "Locked", "SettledYes", "SettledNo", "Cancelled", "Closed"}
      BY DEF PoolAccounts, PoolStates, Unresolved, Settled
    <2>2. \E j \in DOMAIN ProgramStates : ProgramStates[j] = p.state
      <3>1. /\ DOMAIN ProgramStates = 1 .. 6
            /\ ProgramStates[1] = "Open" /\ ProgramStates[2] = "Locked"
            /\ ProgramStates[3] = "SettledYes" /\ ProgramStates[4] = "SettledNo"
            /\ ProgramStates[5] = "Cancelled" /\ ProgramStates[6] = "Closed"
        BY DEF ProgramStates
      <3>2. {1, 2, 3, 4, 5, 6} \subseteq 1 .. 6
        OBVIOUS
      <3> QED
        BY <2>1, <3>1, <3>2
    <2>3. i \in DOMAIN ProgramStates /\ ProgramStates[i] = p.state
      BY <2>2
    <2>4. fields["state"] = i - 1
      BY DEF PoolFields
    <2> HIDE DEF i, fields
    <2>5. DOMAIN ProgramStates = 1 .. 6
      BY DEF ProgramStates
    <2>6. (i - 1) + 1 = i
      BY <2>3, <2>5
    <2>7. ClientStates = ProgramStates
      BY DEF ClientStates, ProgramStates
    <2> QED
      BY <2>3, <2>4, <2>6, <2>7
  <1>5. /\ fields["yes"] = p.sideAmount["Yes"] /\ fields["no"] = p.sideAmount["No"]
        /\ fields["remainingPool"] = p.remainingPool
        /\ fields["remainingWinning"] = p.remainingWinning
        /\ fields["cutoff"] = p.cutoff
        /\ fields["fixtureId"] = Terms.fixtureId /\ fields["mint"] = Terms.mint
        /\ fields["commitment"] = Terms.commitment /\ fields["version"] = Terms.version
    BY DEF PoolFields
  <1> HIDE DEF fields, d, read
  <1> QED
    BY <1>2, <1>3, <1>4, <1>5 DEF d

\* What the program writes of a position, by the name of the field.
PositionFields(owner, q) ==
    [pool |-> Address, owner |-> owner, side |-> SideNumber(q.side),
     amount |-> q.amount, claimed |-> Bit(q.claimed),
     refunded |-> Bit(q.refunded), bump |-> 255]

\* A position is read as it is.
LEMMA PositionIsRead ==
    ASSUME NEW owner, NEW q \in PositionAccounts, q.side # "None"
    PROVE  LET d == DecodePosition(PositionAddress(Address, owner),
                                   PositionData(Address, owner, q)) IN
           /\ d.ok = TRUE
           /\ d.side = q.side /\ d.amount = q.amount
           /\ d.claimed = q.claimed /\ d.refunded = q.refunded
  <1> DEFINE fields == PositionFields(owner, q)
             read == Decode("Position", PositionReads, PositionData(Address, owner, q))
             v == read.values
             d == DecodePosition(PositionAddress(Address, owner), PositionData(Address, owner, q))
  <1>1. /\ fields["pool"] = Address /\ fields["owner"] = owner
        /\ fields["side"] = SideNumber(q.side) /\ fields["amount"] = q.amount
        /\ fields["claimed"] = Bit(q.claimed) /\ fields["refunded"] = Bit(q.refunded)
    BY DEF PositionFields
  <1>2. PositionData(Address, owner, q) = Encode("Position", PositionStruct, fields)
    BY Zenon DEF PositionData, PositionFields
  <1> HIDE DEF fields
  <1>3. HaveTypes(PositionStruct, fields)
    <2>1. \A k \in 1 .. 7 : /\ PositionStruct[k][2] # "option"
                            /\ PositionStruct[k][2] = "bool" => k \in {5, 6}
      BY DEF PositionStruct
    <2>2. PositionStruct[5][1] = "claimed" /\ PositionStruct[6][1] = "refunded"
      BY DEF PositionStruct
    <2>3. fields["claimed"] \in 0 .. 1 /\ fields["refunded"] \in 0 .. 1
      BY <1>1 DEF Bit
    <2>4. \A k \in 1 .. 7 : HasType(PositionStruct[k][2], fields[PositionStruct[k][1]])
      BY <2>1, <2>2, <2>3 DEF HasType
    <2> QED
      BY <2>4, AccountLayouts DEF HaveTypes
  <1>4. Decode("Position", PositionReads, Encode("Position", PositionStruct, fields))
           = AsWritten(fields, PositionReads)
    BY <1>3, AccountLayouts, ReadsWhatWasWritten
  <1>5. read.values = [n \in NamesIn(PositionReads) |-> fields[n]] /\ read.ok = TRUE
    BY <1>2, <1>4 DEF AsWritten
  <1> HIDE DEF read
  <1>6. /\ v.pool = Address /\ v.owner = owner /\ v.side = SideNumber(q.side)
        /\ v.amount = q.amount /\ v.claimed = Bit(q.claimed) /\ v.refunded = Bit(q.refunded)
    BY <1>1, <1>5, NamesRead
  <1>7. /\ q.side \in {"Yes", "No"} /\ q.claimed \in BOOLEAN /\ q.refunded \in BOOLEAN
    BY DEF PositionAccounts, Sides, None
  <1>8. /\ SideNumber("Yes") = 0 /\ SideNumber("No") = 1
        /\ SideNumbered(0) = "Yes" /\ SideNumbered(1) = "No"
    BY DEF SideNumber, SideNumbered
  <1>9. v.side \in 0 .. 1 /\ SideNumbered(v.side) = q.side
    BY <1>6, <1>7, <1>8
  <1>10. (v.claimed = 1) = q.claimed /\ (v.refunded = 1) = q.refunded
    BY <1>6, <1>7 DEF Bit
  <1>11. d = [ok |-> TRUE, address |-> PositionAddress(Address, owner),
              pool |-> v.pool, owner |-> v.owner,
              side |-> SideNumbered(v.side), amount |-> v.amount,
              claimed |-> v.claimed = 1, refunded |-> v.refunded = 1]
    <2>1. read.ok /\ v.side \in 0 .. 1
          /\ PositionAddress(v.pool, v.owner) = PositionAddress(Address, owner)
      BY <1>5, <1>6, <1>9
    <2> QED
      BY <2>1, Zenon DEF DecodePosition, read
  <1> HIDE DEF d
  <1>12. /\ d.ok = TRUE /\ d.side = q.side /\ d.amount = q.amount
         /\ d.claimed = (v.claimed = 1) /\ d.refunded = (v.refunded = 1)
    BY <1>6, <1>9, <1>11
  <1> QED
    BY <1>10, <1>12 DEF d

\* The instructions' arguments have layouts without an option.
JoinLayout == << <<"side", "u8">>, <<"amount", "u64">> >>

\* The layouts of instructions are layouts, read as they are written.
LEMMA InstructionLayouts ==
    /\ IsLayout(CreatePoolWrites, 99) /\ Len(CreatePoolWrites) = 7
    /\ ReadsFirst(CreatePoolArguments, CreatePoolWrites, 99)
    /\ {"fixtureId", "commitment", "version", "cutoff", "refundAfter", "demoMode"}
          \subseteq NamesIn(CreatePoolArguments)
    /\ IsLayout(JoinLayout, 99) /\ Len(JoinLayout) = 2
    /\ ReadsFirst(JoinLayout, JoinLayout, 99)
    /\ NamesIn(JoinLayout) = {"side", "amount"}
  <1> DEFINE createNumber ==
               [poolId |-> 1, fixtureId |-> 2, commitment |-> 3, version |-> 4,
                cutoff |-> 5, refundAfter |-> 6, demoMode |-> 7]
             joinNumber == [side |-> 1, amount |-> 2]
  <1>1. /\ DOMAIN CreatePoolWrites = 1 .. 7 /\ Len(CreatePoolWrites) = 7 /\ 7 \in Nat
        /\ \A k \in 1 .. 7 : /\ CreatePoolWrites[k][2] \in DOMAIN Width
                             /\ CreatePoolWrites[k][2] # "option"
                             /\ createNumber[CreatePoolWrites[k][1]] = k
    BY DEF CreatePoolWrites, Width
  <1>2. CreatePoolArguments = CreatePoolWrites
    BY DEF CreatePoolArguments, CreatePoolWrites
  <1>3. /\ CreatePoolWrites[2][1] = "fixtureId" /\ CreatePoolWrites[3][1] = "commitment"
        /\ CreatePoolWrites[4][1] = "version"
        /\ CreatePoolWrites[5][1] = "cutoff" /\ CreatePoolWrites[6][1] = "refundAfter"
        /\ CreatePoolWrites[7][1] = "demoMode"
    BY DEF CreatePoolWrites
  <1>4. IsLayout(CreatePoolWrites, 99)
    <2> HIDE DEF createNumber
    <2>1. 99 \in Nat \ {0} /\ \A k \in 1 .. 7 : k # 99
      OBVIOUS
    <2>2. Numbered(CreatePoolWrites, 99, createNumber, 7)
      BY <1>1, <2>1 DEF Numbered
    <2> QED
      BY <2>1, <2>2, LayoutOf
  <1>5. {"fixtureId", "commitment", "version", "cutoff", "refundAfter", "demoMode"}
           \subseteq NamesIn(CreatePoolArguments)
    <2>1. \A k \in DOMAIN CreatePoolArguments :
             CreatePoolArguments[k][1] \in NamesIn(CreatePoolArguments)
      BY DEF NamesIn, ToSet
    <2>2. {2, 3, 4, 5, 6, 7} \subseteq DOMAIN CreatePoolArguments
      BY <1>1, <1>2
    <2> HIDE DEF createNumber
    <2> QED
      BY <1>2, <1>3, <2>1, <2>2
  <1>6. /\ DOMAIN JoinLayout = 1 .. 2 /\ Len(JoinLayout) = 2 /\ 2 \in Nat
        /\ \A k \in 1 .. 2 : /\ JoinLayout[k][2] \in DOMAIN Width
                             /\ JoinLayout[k][2] # "option"
                             /\ joinNumber[JoinLayout[k][1]] = k
    BY DEF JoinLayout, Width
  <1>7. IsLayout(JoinLayout, 99)
    <2> HIDE DEF joinNumber
    <2>1. 99 \in Nat \ {0} /\ \A k \in 1 .. 2 : k # 99
      OBVIOUS
    <2>2. Numbered(JoinLayout, 99, joinNumber, 2)
      BY <1>6, <2>1 DEF Numbered
    <2> QED
      BY <2>1, <2>2, LayoutOf
  <1>8. NamesIn(JoinLayout) = {"side", "amount"}
    <2>1. NamesIn(JoinLayout) = {JoinLayout[k][1] : k \in 1 .. 2}
      BY <1>6 DEF NamesIn, ToSet
    <2>2. JoinLayout[1][1] = "side" /\ JoinLayout[2][1] = "amount"
      BY DEF JoinLayout
    <2>3. 1 .. 2 = {1, 2}
      OBVIOUS
    <2> QED
      BY <2>1, <2>2, <2>3
  <1> HIDE DEF createNumber, joinNumber
  <1>9. ReadsFirst(CreatePoolArguments, CreatePoolWrites, 99)
    <2>1. IsLayout(CreatePoolArguments, 99)
      BY <1>2, <1>4
    <2>2. Len(CreatePoolArguments) <= Len(CreatePoolWrites)
      <3>1. Len(CreatePoolWrites) = 7
        BY <1>1
      <3>2. Len(CreatePoolArguments) = 7
        BY <1>2, <3>1
      <3> QED
        BY <3>1, <3>2
    <2>3. \A k \in 1 .. Len(CreatePoolArguments) : CreatePoolArguments[k] = CreatePoolWrites[k]
      BY <1>2
    <2> QED
      BY <2>1, <2>2, <2>3 DEF ReadsFirst
  <1>10. ReadsFirst(JoinLayout, JoinLayout, 99)
    BY <1>6, <1>7 DEF ReadsFirst
  <1> QED
    BY <1>1, <1>4, <1>5, <1>6, <1>7, <1>8, <1>9, <1>10

\* The n names of a list of accounts are different: each has its number.
Listed(names, number, n) ==
    /\ DOMAIN names = 1 .. n
    /\ \A k \in 1 .. n : number[names[k]] = k

\* The account of a name is the key at the name's place.
LEMMA AccountByName ==
    ASSUME NEW names, NEW number, NEW n, Listed(names, number, n), NEW keys, NEW k \in 1 .. n
    PROVE  Named(names, keys)[names[k]] = keys[k]
  <1> DEFINE place(name) == CHOOSE i \in DOMAIN names : names[i] = name
  <1>1. k \in DOMAIN names /\ names[k] \in ToSet(names)
    BY DEF Listed, ToSet
  <1>2. place(names[k]) = k
    <2>1. place(names[k]) \in DOMAIN names /\ names[place(names[k])] = names[k]
      BY <1>1
    <2> HIDE DEF place
    <2> QED
      BY <1>1, <2>1 DEF Listed
  <1> QED
    BY <1>1, <1>2 DEF Named

\* The accounts of the instructions, by name.
LEMMA AccountsInPlace ==
    /\ \A keys : LET at == Named(CreatePoolAccounts, keys) IN at.token_mint = keys[5]
    /\ \A keys : LET at == Named(JoinPoolAccounts, keys) IN
                  /\ at.owner = keys[1] /\ at.pool = keys[2] /\ at.vault = keys[3]
                  /\ at.token_mint = keys[4] /\ at.tokens = keys[5] /\ at.position = keys[6]
                  /\ at.token_program = keys[7]
    /\ \A keys : LET at == Named(PayoutAccounts, keys) IN
                  /\ at.owner = keys[1] /\ at.pool = keys[2] /\ at.position = keys[3]
                  /\ at.vault = keys[4] /\ at.token_mint = keys[5] /\ at.tokens = keys[6]
                  /\ at.token_program = keys[7]
  <1> DEFINE createNumber == [creator |-> 1, pool |-> 2, vault |-> 3, settlement_config |-> 4,
                              token_mint |-> 5, token_program |-> 6, system_program |-> 7]
             joinNumber == [owner |-> 1, pool |-> 2, vault |-> 3, token_mint |-> 4,
                            tokens |-> 5, position |-> 6, token_program |-> 7,
                            system_program |-> 8]
             payoutNumber == [owner |-> 1, pool |-> 2, position |-> 3, vault |-> 4,
                              token_mint |-> 5, tokens |-> 6, token_program |-> 7]
  <1>1. Listed(CreatePoolAccounts, createNumber, 7) /\ CreatePoolAccounts[5] = "token_mint"
    BY DEF Listed, CreatePoolAccounts
  <1>2. /\ Listed(JoinPoolAccounts, joinNumber, 8)
        /\ JoinPoolAccounts[1] = "owner" /\ JoinPoolAccounts[2] = "pool"
        /\ JoinPoolAccounts[3] = "vault" /\ JoinPoolAccounts[4] = "token_mint"
        /\ JoinPoolAccounts[5] = "tokens" /\ JoinPoolAccounts[6] = "position"
        /\ JoinPoolAccounts[7] = "token_program"
    BY DEF Listed, JoinPoolAccounts
  <1>3. /\ Listed(PayoutAccounts, payoutNumber, 7)
        /\ PayoutAccounts[1] = "owner" /\ PayoutAccounts[2] = "pool"
        /\ PayoutAccounts[3] = "position" /\ PayoutAccounts[4] = "vault"
        /\ PayoutAccounts[5] = "token_mint" /\ PayoutAccounts[6] = "tokens"
        /\ PayoutAccounts[7] = "token_program"
    BY DEF Listed, PayoutAccounts
  <1>4. \A n \in {7, 8} : {1, 2, 3, 4, 5, 6, 7} \subseteq 1 .. n
    OBVIOUS
  <1> HIDE DEF createNumber, joinNumber, payoutNumber
  <1>5. ASSUME NEW keys, NEW k \in {1, 2, 3, 4, 5, 6, 7}
        PROVE  /\ Named(CreatePoolAccounts, keys)[CreatePoolAccounts[k]] = keys[k]
               /\ Named(JoinPoolAccounts, keys)[JoinPoolAccounts[k]] = keys[k]
               /\ Named(PayoutAccounts, keys)[PayoutAccounts[k]] = keys[k]
    <2>1. k \in 1 .. 7 /\ k \in 1 .. 8
      BY <1>4
    <2> QED
      BY <1>1, <1>2, <1>3, <2>1, AccountByName
  <1>6. ASSUME NEW keys
        PROVE  Named(CreatePoolAccounts, keys).token_mint = keys[5]
    BY <1>1, <1>5
  <1>7. ASSUME NEW keys
        PROVE  LET at == Named(JoinPoolAccounts, keys) IN
               /\ at.owner = keys[1] /\ at.pool = keys[2] /\ at.vault = keys[3]
               /\ at.token_mint = keys[4] /\ at.tokens = keys[5] /\ at.position = keys[6]
               /\ at.token_program = keys[7]
    <2> DEFINE at == Named(JoinPoolAccounts, keys)
    <2>1. \A k \in {1, 2, 3, 4, 5, 6, 7} : at[JoinPoolAccounts[k]] = keys[k]
      BY <1>5
    <2> HIDE DEF at
    <2> QED
      BY <1>2, <2>1 DEF at
  <1>8. ASSUME NEW keys
        PROVE  LET at == Named(PayoutAccounts, keys) IN
               /\ at.owner = keys[1] /\ at.pool = keys[2] /\ at.position = keys[3]
               /\ at.vault = keys[4] /\ at.token_mint = keys[5] /\ at.tokens = keys[6]
               /\ at.token_program = keys[7]
    <2> DEFINE at == Named(PayoutAccounts, keys)
    <2>1. \A k \in {1, 2, 3, 4, 5, 6, 7} : at[PayoutAccounts[k]] = keys[k]
      BY <1>5
    <2> HIDE DEF at
    <2> QED
      BY <1>3, <2>1 DEF at
  <1> QED
    BY <1>6, <1>7, <1>8

\* The program creates the pool with the terms the page asked for.
LEMMA TermsAreAsked ==
    ASSUME Terms.ok
    PROVE  /\ Terms.cutoff = 1 /\ Terms.refundAfter = 1 + Grace /\ Terms.demoMode = 0
           /\ Terms.mint = Asked.mint /\ Terms.fixtureId = Asked.fixtureId
           /\ Terms.commitment = Asked.commitment /\ Terms.version = Asked.version
  <1> DEFINE fields == [Asked EXCEPT !.demoMode = 0]
             instruction == CreatePoolInstruction(Asked)
             args == Decode("create_pool", CreatePoolArguments, instruction.data)
             v == args.values
             at == Named(CreatePoolAccounts, instruction.keys)
             accepted == /\ args.ok /\ at.pool = PoolAddress(at.creator, v.poolId)
                         /\ at.vault = VaultAddress(at.pool)
                         /\ at.settlement_config = ConfigAddress(at.pool)
                         /\ at.token_program = TokenProgram
                         /\ at.system_program = SystemProgram
  <1>1. /\ fields["cutoff"] = 1 /\ fields["refundAfter"] = 1 + Grace /\ fields["demoMode"] = 0
        /\ fields["fixtureId"] = Asked.fixtureId /\ fields["commitment"] = Asked.commitment
        /\ fields["version"] = Asked.version
    BY DEF Asked
  <1>2. instruction.data = Encode("create_pool", CreatePoolWrites, fields)
    BY DEF CreatePoolInstruction
  <1>7. at.token_mint = Asked.mint
    <2>1. instruction.keys[5] = Asked.mint
      BY DEF CreatePoolInstruction
    <2> HIDE DEF instruction
    <2> QED
      BY <2>1, AccountsInPlace
  <1> HIDE DEF fields, instruction
  <1>3. HaveTypes(CreatePoolWrites, fields)
    <2>1. \A k \in 1 .. 7 : /\ CreatePoolWrites[k][2] # "option"
                            /\ CreatePoolWrites[k][2] = "bool" => k = 7
      BY DEF CreatePoolWrites
    <2>2. CreatePoolWrites[7][1] = "demoMode"
      BY DEF CreatePoolWrites
    <2>3. \A k \in 1 .. 7 : HasType(CreatePoolWrites[k][2], fields[CreatePoolWrites[k][1]])
      BY <1>1, <2>1, <2>2 DEF HasType
    <2> QED
      BY <2>3, InstructionLayouts DEF HaveTypes
  <1>4. args = AsWritten(fields, CreatePoolArguments)
    BY <1>2, <1>3, InstructionLayouts, ReadsWhatWasWritten
  <1>5. /\ v.cutoff = 1 /\ v.refundAfter = 1 + Grace /\ v.demoMode = 0
        /\ v.fixtureId = Asked.fixtureId /\ v.commitment = Asked.commitment
        /\ v.version = Asked.version
    BY <1>1, <1>4, InstructionLayouts DEF AsWritten
  <1>6. Terms = IF accepted
                THEN [ok |-> TRUE, creator |-> at.creator, mint |-> at.token_mint,
                      poolId |-> v.poolId, fixtureId |-> v.fixtureId,
                      commitment |-> v.commitment, version |-> v.version,
                      cutoff |-> v.cutoff, refundAfter |-> v.refundAfter,
                      demoMode |-> v.demoMode]
                ELSE [ok |-> FALSE]
    BY Zenon DEF Terms, CreatedTerms, instruction
  <1> HIDE DEF accepted, args, at
  <1> QED
    BY <1>5, <1>6, <1>7

\* The program reads the side and the amount of a deposit as the page wrote them.
LEMMA DepositIsRead ==
    ASSUME NEW to, NEW mint, NEW owner, NEW side \in Sides, NEW amount
    PROVE  LET args == JoinArguments(JoinPoolInstruction(to, mint, owner, side, amount)) IN
           args.ok /\ SideNumbered(args.values.side) = side /\ args.values.amount = amount
  <1> DEFINE fields == [side |-> SideNumber(side), amount |-> amount]
             data == <<Field("tag", "join_pool"), Field("u8", SideNumber(side)),
                       Field("u64", amount)>>
             args == JoinArguments(JoinPoolInstruction(to, mint, owner, side, amount))
  <1>1. args = Decode("join_pool", JoinLayout, data)
    BY DEF JoinArguments, JoinLayout, JoinPoolInstruction
  <1>2. fields["side"] = SideNumber(side) /\ fields["amount"] = amount
    OBVIOUS
  <1> HIDE DEF fields
  <1>3. /\ Len(JoinLayout) = 2
        /\ JoinLayout[1] = <<"side", "u8">> /\ JoinLayout[2] = <<"amount", "u64">>
    BY DEF JoinLayout
  <1>4. HaveTypes(JoinLayout, fields)
    BY <1>3 DEF HaveTypes, HasType
  <1>5. WellWritten(data, "join_pool", JoinLayout, fields, 99, 2)
    <2> DEFINE S == FieldsOf("join_pool", JoinLayout, fields)
    <2>1. "u8" \in DOMAIN Width /\ "u64" \in DOMAIN Width
      BY DEF Width
    <2>2. 1 \in 1 .. Len(JoinLayout) /\ 2 \in 1 .. Len(JoinLayout)
      BY <1>3
    <2>3. JoinLayout[1][1] = "side" /\ JoinLayout[2][1] = "amount"
          /\ JoinLayout[1][2] = "u8" /\ JoinLayout[2][2] = "u64"
      BY <1>3
    <2>4. /\ Field("tag", "join_pool") \in S
          /\ Field("u8", fields["side"]) \in S /\ Field("u64", fields["amount"]) \in S
      BY <2>1, <2>2, <2>3 DEF FieldsOf
    <2> HIDE DEF S
    <2>5. data = <<Field("tag", "join_pool"), Field("u8", fields["side"]),
                   Field("u64", fields["amount"])>>
      BY <1>2
    <2>6. /\ data \in Seq(S) /\ Len(data) = 3
          /\ data[1] = Field("tag", "join_pool")
          /\ data[2] = Field("u8", fields["side"])
          /\ data[3] = Field("u64", fields["amount"])
      BY <2>4, <2>5
    <2> HIDE DEF data
    <2>7. OptionThere(JoinLayout, fields, 99) = FALSE
      BY <1>3 DEF OptionThere
    <2> DEFINE there == OptionThere(JoinLayout, fields, 99)
    <2>8. /\ Place(there, 99, 1) = 2 /\ Place(there, 99, 2) = 3 /\ Place(there, 99, 3) = 4
      BY <2>7 DEF Place
    <2> HIDE DEF there
    <2>9. \A k \in 1 .. 2 : InPlace(data, JoinLayout, fields, there, 99, k)
      <3>1. data[Place(there, 99, 1)] = Field(JoinLayout[1][2], fields[JoinLayout[1][1]])
        BY <2>3, <2>6, <2>8
      <3>2. data[Place(there, 99, 2)] = Field(JoinLayout[2][2], fields[JoinLayout[2][1]])
        BY <2>3, <2>6, <2>8
      <3>3. 1 # 99 /\ 2 # 99
        OBVIOUS
      <3>4. InPlace(data, JoinLayout, fields, there, 99, 1)
        BY Zenon, <3>1, <3>3 DEF InPlace
      <3>5. InPlace(data, JoinLayout, fields, there, 99, 2)
        BY Zenon, <3>2, <3>3 DEF InPlace
      <3>6. \A k \in 1 .. 2 : k = 1 \/ k = 2
        OBVIOUS
      <3> QED
        BY <3>4, <3>5, <3>6
    <2>10. data \in Seq(FieldsOf("join_pool", JoinLayout, fields))
      BY <2>6 DEF S
    <2>11. Len(data) = Place(there, 99, 2 + 1) - 1
      BY <2>6, <2>8
    <2> QED
      BY <2>6, <2>9, <2>10, <2>11 DEF WellWritten, there
  <1> HIDE DEF data, args
  <1>6. args = AsWritten(fields, JoinLayout)
    <2>1. PICK m : m = 99
      OBVIOUS
    <2>2. IsLayout(JoinLayout, m) /\ ReadsFirst(JoinLayout, JoinLayout, m)
      BY <2>1, InstructionLayouts
    <2>3. WellWritten(data, "join_pool", JoinLayout, fields, m, Len(JoinLayout))
      BY <1>5, <2>1, InstructionLayouts
    <2>4. PICK tag : tag = "join_pool"
      OBVIOUS
    <2>5. WellWritten(data, tag, JoinLayout, fields, m, Len(JoinLayout))
      BY <2>3, <2>4
    <2>6. Decode(tag, JoinLayout, data) = AsWritten(fields, JoinLayout)
      BY ONLY <1>4, <2>2, <2>5, ReadsWellWritten
    <2> QED
      BY <1>1, <2>4, <2>6
  <1>7. args.ok /\ args.values.side = SideNumber(side) /\ args.values.amount = amount
    BY <1>2, <1>6, InstructionLayouts DEF AsWritten
  <1>8. SideNumbered(SideNumber(side)) = side
    <2>1. side = "Yes" \/ side = "No"
      BY DEF Sides
    <2>2. /\ SideNumber("Yes") = 0 /\ SideNumber("No") = 1
          /\ SideNumbered(0) = "Yes" /\ SideNumbered(1) = "No"
      BY DEF SideNumber, SideNumbered
    <2> QED
      BY <2>1, <2>2
  <1> QED
    BY <1>7, <1>8 DEF args

-----------------------------------------------------------------------------
(* What a step of the chain leaves as it is                                  *)

\* A step is a deposit, a claim or a refund, or it moves no stake and does not
\* touch a resolved pool.
LEMMA ChainStepKinds ==
    ASSUME TypeOK, pool.state # "Absent", [Next]_vars
    PROVE  \/ \E o \in Owners, side \in Sides, amount \in Amounts : JoinPool(o, side, amount)
           \/ \E o \in Owners : Claim(o)
           \/ \E o \in Owners : Refund(o)
           \/ /\ UNCHANGED position
              /\ pool'.sideAmount = pool.sideAmount /\ pool'.state # "Absent"
              /\ Resolved(pool) => pool' = pool
  <1> USE DEF TypeOK, PoolAccounts
  <1> DEFINE Quiet == /\ UNCHANGED position
                      /\ pool'.sideAmount = pool.sideAmount /\ pool'.state # "Absent"
                      /\ Resolved(pool) => pool' = pool
  <1>1. ~ \E cutoff, refundAfter \in Timestamps, demoMode \in BOOLEAN :
             CreatePool(cutoff, refundAfter, demoMode)
    BY DEF CreatePool
  <1>2. ASSUME LockPool PROVE Quiet
    BY <1>2 DEF LockPool, Resolved, Unresolved
  <1>3. ASSUME NEW side \in Sides, NEW sequence \in Sequences,
               RecordDemoOutcome(side, sequence) \/ SettlePool(side, sequence)
        PROVE  Quiet
    <2>1. /\ UNCHANGED position /\ pool.state = "Locked"
          /\ pool' = OutcomeRecorded(pool, side, sequence)
      BY <1>3 DEF RecordDemoOutcome, SettlePool, AcceptsOutcome
    <2> QED
      BY <2>1 DEF OutcomeRecorded, OutcomeState, SettledFor, Resolved, Unresolved
  <1>4. ASSUME NEW authority \in Callers, CancelPool(authority)
        PROVE  Quiet
    BY <1>4 DEF CancelPool, AcceptsCancel, Resolved
  <1>5. ASSUME Tick \/ (\E gift \in Gifts : DirectTransfer(gift)) \/ UNCHANGED vars
        PROVE  Quiet
    BY <1>5 DEF Tick, DirectTransfer, vars
  <1> HIDE DEF Quiet
  <1> QED
    BY <1>1, <1>2, <1>3, <1>4, <1>5 DEF Next, Quiet

\* Stakes only grow, and what was paid stays paid.
Grown(q, r) ==
    /\ q.side # None => r.side = q.side
    /\ r.amount >= q.amount
    /\ q.claimed => r.claimed
    /\ q.refunded => r.refunded

\* Positions only grow.
LEMMA PositionsGrow ==
    ASSUME IInv, pool.state # "Absent", [Next]_vars, NEW x \in Owners
    PROVE  Grown(position[x], position'[x])
  <1> USE DEF IInv
  <1>0. /\ TypeOK /\ position[x].amount \in Nat
        /\ DOMAIN position = Owners
    BY NumbersAssumption DEF Coherent, TypeOK, PositionAccounts, Amounts
  <1>1. ASSUME NEW o \in Owners, NEW side \in Sides, NEW amount \in Amounts,
               JoinPool(o, side, amount)
        PROVE  Grown(position[x], position'[x])
    <2>1. /\ position' = [position EXCEPT ![o].side = side, ![o].amount = @ + amount]
          /\ position[o].side \in {None, side} /\ amount \in Nat
      BY <1>1, NumbersAssumption DEF JoinPool, JoinAccepted, Amounts
    <2> QED
      BY <1>0, <2>1 DEF Grown, TypeOK, PositionAccounts
  <1>2. ASSUME NEW o \in Owners, Claim(o)
        PROVE  Grown(position[x], position'[x])
    <2>1. position' = [position EXCEPT ![o].claimed = TRUE]
      BY <1>2 DEF Claim, ClaimAccepted
    <2> QED
      BY <1>0, <2>1 DEF Grown, TypeOK, PositionAccounts
  <1>3. ASSUME NEW o \in Owners, Refund(o)
        PROVE  Grown(position[x], position'[x])
    <2>1. position' = [position EXCEPT ![o].refunded = TRUE]
      BY <1>3 DEF Refund, RefundAccepted
    <2> QED
      BY <1>0, <2>1 DEF Grown, TypeOK, PositionAccounts
  <1>4. ASSUME UNCHANGED position
        PROVE  Grown(position[x], position'[x])
    BY <1>0, <1>4 DEF Grown
  <1> QED
    BY <1>0, <1>1, <1>2, <1>3, <1>4, ChainStepKinds

\* So does the pot.
LEMMA PotGrows ==
    ASSUME IInv, pool.state # "Absent", [Next]_vars
    PROVE  Pot(pool') >= Pot(pool) /\ Pot(pool) \in Nat /\ pool'.state # "Absent"
  <1> USE DEF IInv
  <1>0. /\ TypeOK /\ Pot(pool) \in Nat
        /\ \A side \in Sides : pool.sideAmount[side] \in Nat
        /\ DOMAIN pool.sideAmount = Sides
    BY NumbersAssumption DEF Coherent, TypeOK, PoolAccounts, Amounts, Pot, Sides
  <1>1. ASSUME NEW o \in Owners, NEW side \in Sides, NEW amount \in Amounts,
               JoinPool(o, side, amount)
        PROVE  Pot(pool') >= Pot(pool) /\ pool'.state # "Absent"
    <2> DEFINE sides == [pool.sideAmount EXCEPT ![side] = @ + amount]
               remaining == pool.remainingPool + amount
    <2>1. /\ pool' = [pool EXCEPT !.sideAmount = sides, !.remainingPool = remaining]
          /\ amount \in Nat
      BY <1>1, NumbersAssumption DEF JoinPool, JoinAccepted, Amounts
    <2>2. sides["Yes"] >= pool.sideAmount["Yes"] /\ sides["No"] >= pool.sideAmount["No"]
          /\ sides["Yes"] \in Nat /\ sides["No"] \in Nat
      BY <1>0, <2>1 DEF Sides
    <2> HIDE DEF sides, remaining
    <2>3. pool'.sideAmount = sides /\ pool'.state = pool.state
      BY <2>1 DEF Coherent, TypeOK, PoolAccounts
    <2> QED
      BY <1>0, <2>2, <2>3 DEF Pot, Sides
  <1>2. ASSUME NEW o \in Owners, Claim(o)
        PROVE  Pot(pool') >= Pot(pool) /\ pool'.state # "Absent"
    <2>1. pool'.sideAmount = pool.sideAmount /\ pool'.state \in {"Closed", pool.state}
      BY <1>2, ClaimChanges
    <2> QED
      BY <1>0, <2>1 DEF Pot
  <1>3. ASSUME NEW o \in Owners, Refund(o)
        PROVE  Pot(pool') >= Pot(pool) /\ pool'.state # "Absent"
    <2>1. pool'.sideAmount = pool.sideAmount /\ pool'.state \in {"Cancelled", "Closed"}
      BY <1>3, RefundChanges
    <2> QED
      BY <1>0, <2>1 DEF Pot
  <1>4. ASSUME pool'.sideAmount = pool.sideAmount, pool'.state # "Absent"
        PROVE  Pot(pool') >= Pot(pool) /\ pool'.state # "Absent"
    BY <1>0, <1>4 DEF Pot
  <1> QED
    BY <1>0, <1>1, <1>2, <1>3, <1>4, ChainStepKinds

\* The books stay coherent, and a resolution is never undone.
LEMMA ChainKeeps ==
    ASSUME IInv, pool.state # "Absent", [Next]_vars
    PROVE  /\ IInv' /\ pool'.state # "Absent"
           /\ Resolved(pool) => Resolved(pool')
  <1>1. IInv'
    BY InvInduction, RateInduction DEF IInv
  <1>2. Resolved(pool) => Resolved(pool')
    <2>1. CASE Next
      BY <2>1, FinalStep DEF IInv, Coherent, Resolved, Unresolved
    <2>2. CASE UNCHANGED vars
      BY <2>2 DEF vars
    <2> QED
      BY <2>1, <2>2
  <1> QED
    BY <1>1, <1>2, PotGrows

\* A resolved pool only pays out: if it holds as much as before, it is unchanged.
LEMMA ResolvedOnlyPays ==
    ASSUME IInv, [Next]_vars, Resolved(pool)
    PROVE  /\ pool'.remainingPool <= pool.remainingPool
           /\ pool'.remainingPool = pool.remainingPool => pool' = pool
           /\ \A o \in Owners : position'[o].amount = position[o].amount
                                /\ position'[o].side = position[o].side
           /\ (\E o \in Owners : Claim(o)) \/ (\E o \in Owners : Refund(o)) \/ pool' = pool
  <1> USE DEF IInv
  <1> DEFINE Conclusion ==
               /\ pool'.remainingPool <= pool.remainingPool
               /\ pool'.remainingPool = pool.remainingPool => pool' = pool
               /\ \A o \in Owners : position'[o].amount = position[o].amount
                                    /\ position'[o].side = position[o].side
               /\ (\E o \in Owners : Claim(o)) \/ (\E o \in Owners : Refund(o)) \/ pool' = pool
  <1>0. /\ TypeOK /\ pool.state # "Absent" /\ pool.remainingPool \in Nat
        /\ \A o \in Owners : position[o].amount \in Nat
    BY NumbersAssumption DEF Coherent, TypeOK, PoolAccounts, PositionAccounts, Amounts, Resolved
  <1>1. ASSUME NEW o \in Owners, Claim(o)
        PROVE  Conclusion
    <2> DEFINE n == Payout(pool, position[o].amount)
    <2>1. /\ pool'.remainingPool = pool.remainingPool - n
          /\ \A x \in Owners : position'[x].amount = position[x].amount
                               /\ position'[x].side = position[x].side
      BY <1>1, ClaimChanges
    <2>2. n \in Nat /\ n > 0
      <3>1. n > 0
        BY <1>1 DEF Claim, ClaimAccepted, Claimable
      <3>2. n \in Nat
        BY <1>1, ClaimIsFair
      <3> QED
        BY <3>1, <3>2
    <2> HIDE DEF n
    <2> QED
      BY <1>0, <1>1, <2>1, <2>2
  <1>2. ASSUME NEW o \in Owners, Refund(o)
        PROVE  Conclusion
    <2>1. /\ pool'.remainingPool = pool.remainingPool - position[o].amount
          /\ \A x \in Owners : position'[x].amount = position[x].amount
                               /\ position'[x].side = position[x].side
      BY <1>2, RefundChanges
    <2>2. position[o].amount > 0
      BY <1>2 DEF Refund, RefundAccepted, Refundable
    <2> QED
      BY <1>0, <1>2, <2>1, <2>2
  <1>3. ~ \E o \in Owners, side \in Sides, amount \in Amounts : JoinPool(o, side, amount)
    BY DEF JoinPool, JoinAccepted, AcceptsDeposits, Resolved, Unresolved
  <1>4. ASSUME UNCHANGED position, pool' = pool
        PROVE  Conclusion
    BY <1>0, <1>4
  <1> HIDE DEF Conclusion
  <1>5. Conclusion
    BY <1>0, <1>1, <1>2, <1>3, <1>4, ChainStepKinds
  <1> QED
    BY <1>5 DEF Conclusion

\* What could be claimed after a step could be claimed before it, for no more.
LEMMA ClaimableBefore ==
    ASSUME IInv, [Next]_vars, Resolved(pool), NEW x \in Owners,
           Claimable(pool', position'[x])
    PROVE  /\ Claimable(pool, position[x])
           /\ Payout(pool', position'[x].amount) >= Payout(pool, position[x].amount)
           /\ Payout(pool, position[x].amount) \in Nat
           /\ Payout(pool', position'[x].amount) \in Nat
  <1> USE DEF IInv
  <1> DEFINE side == position[x].side
             a == position[x].amount
  <1>0. /\ pool.state # "Absent" /\ TypeOK /\ Coherent
        /\ side \in Sides \cup {None}
    BY DEF Coherent, TypeOK, PositionAccounts, Resolved
  <1>1. /\ position'[x].side = side /\ position'[x].amount = a
        /\ Grown(position[x], position'[x])
    BY <1>0, ResolvedOnlyPays, PositionsGrow
  <1>2. /\ pool'.state \in Settled /\ pool'.state = SettledFor(side) /\ side \in Sides
        /\ ~position'[x].claimed /\ ~position'[x].refunded
    BY <1>0, <1>1 DEF Claimable
  <1>3. pool.state = SettledFor(side)
    <2>1. pool'.state \in {pool.state, "Closed"}
      <3>1. CASE Next
        BY <3>1, <1>0, FinalStep DEF Resolved
      <3>2. CASE UNCHANGED vars
        BY <3>2 DEF vars
      <3> QED
        BY <3>1, <3>2
    <2> QED
      BY <1>2, <2>1 DEF Settled
  <1>4. ~position[x].claimed /\ ~position[x].refunded
    BY <1>1, <1>2 DEF Grown
  <1>5. /\ a \in Nat /\ a > 0 /\ a <= pool.remainingWinning
        /\ Payout(pool, a) \in Nat /\ Payout(pool, a) > 0
    BY <1>0, <1>2, <1>3, <1>4, WinnersPayout
  <1>6. pool.remainingPool >= pool.remainingWinning
    BY <1>0, <1>2, <1>3 DEF Coherent, StageCoherent
  <1>7. Claimable(pool, position[x])
    BY <1>0, <1>2, <1>3, <1>4, <1>5, <1>6 DEF Claimable, None, Sides
  <1>8. Payout(pool', a) \in Nat
    <2>1. IInv' /\ position'[x].side = side /\ position'[x].amount = a
      BY <1>0, <1>1, ChainKeeps
    <2>2. pool'.remainingPool \in Nat /\ pool'.remainingWinning \in Nat
      BY <2>1, NumbersAssumption DEF Coherent, TypeOK, PoolAccounts, Amounts
    <2>3. pool'.remainingWinning >= a
      BY <1>1 DEF Claimable
    <2> QED
      BY <1>5, <2>2, <2>3, PayoutIsNat
  <1>9. Payout(pool', a) >= Payout(pool, a)
    <2>1. ASSUME NEW o \in Owners, Claim(o)
          PROVE  Payout(pool', a) >= Payout(pool, a)
      <3>1. x # o
        BY <1>2, <2>1, ClaimChanges
      <3>2. Quote(x)' >= Quote(x)
        BY <1>7, <2>1, <3>1, ClaimRaisesQuotes
      <3> QED
        BY <1>1, <3>2 DEF Quote
    <2>2. ~ \E o \in Owners : Refund(o)
      BY <1>2, <1>3 DEF Refund, RefundAccepted, Refundable, Settled
    <2>3. CASE pool' = pool
      BY <1>5, <2>3
    <2> QED
      BY <2>1, <2>2, <2>3, ResolvedOnlyPays
  <1> QED
    BY <1>1, <1>5, <1>7, <1>8, <1>9

\* A quote that stands goes on standing, whatever the chain does.
LEMMA QuoteKeeps ==
    ASSUME IInv, [Next]_vars, NEW x \in Owners, NEW quoted, NEW books,
           QuoteStands(pool, position[x], quoted, books)
    PROVE  QuoteStands(pool', position'[x], quoted, books)
  <1>1. /\ quoted \in Nat /\ books \in Nat /\ Resolved(pool)
        /\ pool.remainingPool <= books
    BY DEF QuoteStands
  <1>2. pool.state # "Absent"
    BY <1>1 DEF Resolved
  <1>3. /\ Resolved(pool') /\ pool'.remainingPool \in Nat /\ pool.remainingPool \in Nat
    <2>1. IInv' /\ Resolved(pool')
      BY <1>1, <1>2, ChainKeeps
    <2> QED
      BY <2>1, NumbersAssumption DEF IInv, Coherent, TypeOK, PoolAccounts, Amounts
  <1>4. pool'.remainingPool <= pool.remainingPool
    BY <1>1, ResolvedOnlyPays
  <1>5. ASSUME Claimable(pool', position'[x])
        PROVE  /\ quoted <= Payout(pool', position'[x].amount)
               /\ books = pool'.remainingPool => quoted = Payout(pool', position'[x].amount)
    <2> DEFINE n == Payout(pool, position[x].amount)
               m == Payout(pool', position'[x].amount)
    <2>1. /\ Claimable(pool, position[x]) /\ m >= n /\ n \in Nat /\ m \in Nat
      BY <1>1, <1>5, ClaimableBefore
    <2>2. quoted <= n /\ (books = pool.remainingPool => quoted = n)
      BY <2>1 DEF QuoteStands
    <2>3. ASSUME books = pool'.remainingPool
          PROVE  m = n /\ books = pool.remainingPool
      <3>1. pool'.remainingPool = pool.remainingPool
        BY <1>1, <1>3, <1>4, <2>3
      <3>2. pool' = pool /\ position'[x].amount = position[x].amount
        BY <1>1, <3>1, ResolvedOnlyPays
      <3> QED
        BY <2>3, <3>1, <3>2
    <2> HIDE DEF n, m
    <2>4. quoted <= m
      BY <1>1, <2>1, <2>2
    <2> QED
      BY <2>2, <2>3, <2>4 DEF m
  <1>6. pool'.remainingPool <= books
    BY <1>1, <1>3, <1>4
  <1> QED
    BY <1>1, <1>3, <1>5, <1>6 DEF QuoteStands

-----------------------------------------------------------------------------
(* What the page has seen goes on standing                                   *)

\* The page's payout is a natural number.
LEMMA CalculatedIsNat ==
    ASSUME NEW p, NEW amount \in Nat, p.remainingPool \in Nat, p.remainingWinning \in Nat
    PROVE  CalculatePayout(p, amount) \in Nat
  <1> DEFINE R == p.remainingPool
             W == p.remainingWinning
  <1>1. CASE W <= 0 \/ amount <= 0 \/ amount > W
    BY <1>1 DEF CalculatePayout
  <1>2. CASE ~(W <= 0 \/ amount <= 0 \/ amount > W)
    <2>1. CalculatePayout(p, amount) = (R * amount) \div W
      BY <1>2 DEF CalculatePayout
    <2>2. W \in Nat \ {0} /\ R * amount \in Nat
      <3> HIDE DEF R, W
      <3>1. R \in Nat /\ W \in Nat
        BY DEF R, W
      <3> QED
        BY <1>2, <3>1, ProductIsNat
    <2> HIDE DEF R, W
    <2> QED
      BY <2>1, <2>2, DivBounds
  <1> QED
    BY <1>1, <1>2

\* For a claimable position it is the program's.
LEMMA CalculatesThePayout ==
    ASSUME NEW p, NEW amount \in Nat, amount > 0, p.remainingPool \in Nat,
           p.remainingWinning \in Nat, amount <= p.remainingWinning
    PROVE  CalculatePayout(p, amount) = Payout(p, amount)
  <1> DEFINE R == p.remainingPool
             W == p.remainingWinning
  <1>1. CalculatePayout(p, amount) = (R * amount) \div W
    BY DEF CalculatePayout
  <1>2. CASE amount # W
    BY <1>1, <1>2 DEF Payout
  <1>3. CASE amount = W
    <2> DEFINE n == (R * W) \div W
    <2>0. R \in Nat /\ W \in Nat \ {0}
      BY <1>3
    <2>1. Payout(p, amount) = R
      BY <1>3 DEF Payout
    <2> HIDE DEF R, W
    <2>2. R * W \in Nat
      BY <2>0, ProductIsNat
    <2>3. n \in Nat /\ n * W <= R * W /\ R * W < (n + 1) * W
      BY <2>0, <2>2, DivBounds
    <2> HIDE DEF n
    <2>4. n <= R
      BY <2>0, <2>3, CancelFactor
    <2>5. R <= n
      <3>1. SUFFICES ASSUME n + 1 <= R PROVE FALSE
        BY <2>0, <2>3
      <3>2. (n + 1) * W <= R * W
        BY <2>0, <2>3, <3>1, ProductMonotonic
      <3>3. (n + 1) * W \in Nat
        BY <2>0, <2>3, ProductIsNat
      <3> QED
        BY <2>2, <2>3, <3>2, <3>3
    <2>6. n = R
      BY <2>0, <2>3, <2>4, <2>5
    <2> QED
      BY <1>1, <1>3, <2>1, <2>6 DEF n
  <1> QED
    BY <1>2, <1>3

\* What the page sees now stands.
LEMMA SeenStands ==
    ASSUME TypeOK, NEW x \in Owners
    PROVE  ViewStands(pool, position[x].amount, pool, position[x])
  <1> DEFINE q == position[x]
  <1>1. /\ pool.remainingPool \in Nat /\ pool.remainingWinning \in Nat
        /\ q.amount \in Nat
    BY NumbersAssumption DEF TypeOK, PoolAccounts, PositionAccounts, Amounts
  <1>2. pool.state \in Settled \cup {"Cancelled"} => Resolved(pool)
    BY DEF Settled, Resolved, Unresolved
  <1> HIDE DEF q
  <1>3. CalculatePayout(pool, q.amount) \in Nat
    BY <1>1, CalculatedIsNat
  <1>4. ASSUME Claimable(pool, q)
        PROVE  CalculatePayout(pool, q.amount) = Payout(pool, q.amount)
    <2>1. q.amount > 0 /\ q.amount <= pool.remainingWinning
      BY <1>1, <1>4 DEF Claimable
    <2> QED
      BY <1>1, <2>1, CalculatesThePayout
  <1>5. pool.state \in Settled =>
           QuoteStands(pool, q, CalculatePayout(pool, q.amount), pool.remainingPool)
    BY <1>1, <1>2, <1>3, <1>4 DEF QuoteStands
  <1>6. ViewStands(pool, q.amount, pool, q)
    BY <1>1, <1>2, <1>5 DEF ViewStands
  <1> QED
    BY <1>6 DEF q

\* What was seen stands after the chain's next step.
LEMMA ViewKeeps ==
    ASSUME IInv, pool.state # "Absent", [Next]_vars, NEW x \in Owners, NEW seen, NEW amount,
           ViewStands(seen, amount, pool, position[x])
    PROVE  ViewStands(seen, amount, pool', position'[x])
  <1>1. Resolved(pool) => Resolved(pool')
    BY ChainKeeps
  <1>2. seen.state \in Settled =>
           QuoteStands(pool', position'[x], CalculatePayout(seen, amount), seen.remainingPool)
    BY QuoteKeeps DEF ViewStands
  <1> QED
    BY <1>1, <1>2 DEF ViewStands

\* So does a snapshot.
LEMMA SnapshotKeeps ==
    ASSUME IInv, pool.state # "Absent", [Next]_vars, NEW s,
           SnapshotStands(s, pool, position)
    PROVE  SnapshotStands(s, pool', position')
  <1> SUFFICES ASSUME s.owner \in Owners, s.position.ok
               PROVE  /\ ViewStands(s.pool, s.position.amount, pool', position'[s.owner])
                      /\ s.pool.state \in Settled \cup {"Cancelled"} =>
                            s.position.amount = position'[s.owner].amount
    BY DEF SnapshotStands
  <1>1. /\ ViewStands(s.pool, s.position.amount, pool, position[s.owner])
        /\ s.pool.state \in Settled \cup {"Cancelled"} =>
              s.position.amount = position[s.owner].amount
    BY DEF SnapshotStands
  <1>2. ViewStands(s.pool, s.position.amount, pool', position'[s.owner])
    BY <1>1, ViewKeeps
  <1>3. ASSUME s.pool.state \in Settled \cup {"Cancelled"}
        PROVE  s.position.amount = position'[s.owner].amount
    <2>1. Resolved(pool)
      BY <1>1, <1>3 DEF ViewStands
    <2> QED
      BY <1>1, <1>3, <2>1, ResolvedOnlyPays
  <1> QED
    BY <1>2, <1>3

\* So does a read that has seen the pool.
LEMMA ReadingKeeps ==
    ASSUME IInv, pool.state # "Absent", [Next]_vars, NEW r,
           ReadingStands(r, pool, position)
    PROVE  ReadingStands(r, pool', position')
  <1> SUFFICES ASSUME r.stage = "owner", NEW x \in Owners
               PROVE  ViewStands(r.pool, position'[x].amount, pool', position'[x])
    BY DEF ReadingStands
  <1>1. ViewStands(r.pool, position[x].amount, pool, position[x])
    BY DEF ReadingStands
  <1>2. ViewStands(r.pool, position[x].amount, pool', position'[x])
    BY <1>1, ViewKeeps
  <1>3. CASE Resolved(pool)
    <2>1. position'[x].amount = position[x].amount
      BY <1>3, ResolvedOnlyPays
    <2> QED
      BY <1>2, <2>1
  <1>4. CASE ~Resolved(pool)
    <2>1. r.pool.state \notin Settled \cup {"Cancelled"} /\ r.pool.remainingPool \in Nat
      BY <1>1, <1>4 DEF ViewStands
    <2> QED
      BY <2>1 DEF ViewStands
  <1> QED
    BY <1>3, <1>4

-----------------------------------------------------------------------------
(* Transactions                                                              *)

\* What a transaction brought about is not undone by the chain's next step.
LEMMA ResultKeeps ==
    ASSUME IInv, pool.state # "Absent", [Next]_vars, NEW t, NEW x \in Owners,
           ResultStands(t, pool, position[x])
    PROVE  ResultStands(t, pool', position'[x])
  <1>1. Grown(position[x], position'[x])
    BY PositionsGrow
  <1>2. Pot(pool') >= Pot(pool) /\ Pot(pool) \in Nat
    BY PotGrows
  <1>3. Resolved(pool) => Resolved(pool') /\ pool'.remainingPool <= pool.remainingPool
    BY ChainKeeps, ResolvedOnlyPays
  <1>4. /\ IInv' /\ t.staked \in Nat /\ t.pot \in Nat /\ t.rest \in Nat
    BY ChainKeeps DEF ResultStands
  <1>5. /\ position[x].amount \in Nat /\ pool.remainingPool \in Nat
        /\ position'[x].amount \in Nat /\ pool'.remainingPool \in Nat /\ Pot(pool') \in Nat
    BY <1>4, NumbersAssumption
    DEF IInv, Coherent, TypeOK, PoolAccounts, PositionAccounts, Amounts, Pot, Sides
  <1>6. position'[x].side # None /\ position'[x].amount >= t.staked
    BY <1>1, <1>4, <1>5 DEF ResultStands, Grown
  <1>7. Pot(pool') >= t.pot
    BY <1>2, <1>4, <1>5 DEF ResultStands
  <1>8. /\ t.action = "claim" => position'[x].claimed
        /\ t.action = "refund" => position'[x].refunded
    BY <1>1 DEF ResultStands, Grown
  <1>9. t.action # "join" => Resolved(pool') /\ pool'.remainingPool <= t.rest
    BY <1>3, <1>4, <1>5 DEF ResultStands
  <1> QED
    BY <1>4, <1>6, <1>7, <1>8, <1>9 DEF ResultStands

\* A transaction that the chain's next step does not execute stays as good.
LEMMA TransactionKeeps ==
    ASSUME IInv, pool.state # "Absent", [Next]_vars, NEW t,
           TransactionStands(t, pool, position)
    PROVE  TransactionStands(t, pool', position')
  <1>1. ASSUME IntentStands(t, pool, position)
        PROVE  IntentStands(t, pool', position')
    <2>1. t.owner \in Owners
      BY <1>1 DEF IntentStands
    <2>2. t.action = "claim" /\ t.own =>
             QuoteStands(pool', position'[t.owner], t.quoted, t.books)
      BY <1>1, <2>1, QuoteKeeps DEF IntentStands
    <2>3. t.action = "refund" /\ t.own =>
             Resolved(pool') /\ t.quoted = position'[t.owner].amount
      BY <1>1, <2>1, ChainKeeps, ResolvedOnlyPays DEF IntentStands
    <2> QED
      BY <1>1, <2>2, <2>3 DEF IntentStands
  <1>2. ASSUME OutcomeStands(t, pool, position)
        PROVE  OutcomeStands(t, pool', position')
    <2>1. t.owner \in Owners /\ ResultStands(t, pool, position[t.owner])
      BY <1>2 DEF OutcomeStands
    <2>2. ResultStands(t, pool', position'[t.owner])
      BY <2>1, ResultKeeps
    <2> QED
      BY <1>2, <2>2 DEF OutcomeStands
  <1> QED
    BY <1>1, <1>2 DEF TransactionStands

\* Which transactions are under way, and which have an outcome.
LEMMA StagesTell ==
    ASSUME NEW t, NEW p, NEW positions, TransactionStands(t, p, positions)
    PROVE  /\ t.page \in {"building", "signing"} \/ t.chain \in {"pending", "dropped"}
                 => IntentStands(t, p, positions)
           /\ t.chain = "landed" \/ t.page = "confirmed"
                 => OutcomeStands(t, p, positions)
  <1>1. ASSUME t \in {NoTransaction, Forgotten}
        PROVE  t.page \in {"unused", "failed"} /\ t.chain = "none"
    BY <1>1 DEF NoTransaction, Forgotten
  <1>2. ASSUME IntentStands(t, p, positions)
        PROVE  t.page \in {"building", "signing", "waiting", "failed"}
               /\ t.chain \in {"none", "pending", "dropped"}
    BY <1>2 DEF IntentStands, UnderWay
  <1>3. ASSUME OutcomeStands(t, p, positions)
        PROVE  t.page \in {"waiting", "failed", "confirmed"} /\ t.chain = "landed"
    BY <1>3 DEF OutcomeStands
  <1> QED
    BY <1>1, <1>2, <1>3 DEF TransactionStands

\* A transaction on its way goes on from stage to stage.
LEMMA IntentMoves ==
    ASSUME NEW t, NEW p, NEW positions, IntentStands(t, p, positions),
           NEW page, NEW on, <<page, on>> \in UnderWay
    PROVE  IntentStands([t EXCEPT !.page = page, !.chain = on], p, positions)
  <1> DEFINE u == [t EXCEPT !.page = page, !.chain = on]
  <1>1. t = [action |-> t.action, owner |-> t.owner, side |-> t.side, amount |-> t.amount,
             createsTokens |-> t.createsTokens, at |-> t.at, mint |-> t.mint,
             books |-> t.books, own |-> t.own, quoted |-> t.quoted,
             page |-> t.page, chain |-> t.chain]
    BY DEF IntentStands
  <1>2. /\ u = [action |-> t.action, owner |-> t.owner, side |-> t.side, amount |-> t.amount,
                createsTokens |-> t.createsTokens, at |-> t.at, mint |-> t.mint,
                books |-> t.books, own |-> t.own, quoted |-> t.quoted,
                page |-> page, chain |-> on]
    <2> DEFINE w == [t EXCEPT !.page = page]
    <2>1. w = [action |-> t.action, owner |-> t.owner, side |-> t.side, amount |-> t.amount,
               createsTokens |-> t.createsTokens, at |-> t.at, mint |-> t.mint,
               books |-> t.books, own |-> t.own, quoted |-> t.quoted,
               page |-> page, chain |-> t.chain]
      BY <1>1
    <2>2. u = [w EXCEPT !.chain = on]
      BY <1>1, <2>1
    <2> HIDE DEF w, u
    <2> QED
      BY <2>1, <2>2
  <1>3. /\ u.action = t.action /\ u.owner = t.owner /\ u.side = t.side /\ u.amount = t.amount
        /\ u.createsTokens = t.createsTokens /\ u.at = t.at /\ u.mint = t.mint
        /\ u.books = t.books /\ u.own = t.own /\ u.quoted = t.quoted
        /\ u.page = page /\ u.chain = on
    BY <1>2
  <1> HIDE DEF u
  <1>4. u = [action |-> u.action, owner |-> u.owner, side |-> u.side, amount |-> u.amount,
             createsTokens |-> u.createsTokens, at |-> u.at, mint |-> u.mint,
             books |-> u.books, own |-> u.own, quoted |-> u.quoted,
             page |-> u.page, chain |-> u.chain]
    BY <1>2, <1>3
  <1>5. IntentStands(u, p, positions)
    BY <1>3, <1>4 DEF IntentStands
  <1> QED
    BY <1>5 DEF u

\* A landed one is confirmed, or given up by the page.
LEMMA OutcomeMoves ==
    ASSUME NEW t, NEW p, NEW positions, OutcomeStands(t, p, positions),
           NEW page \in {"waiting", "failed", "confirmed"}
    PROVE  OutcomeStands([t EXCEPT !.page = page], p, positions)
  <1> DEFINE u == [t EXCEPT !.page = page]
  <1>1. t = [action |-> t.action, owner |-> t.owner, page |-> t.page, chain |-> t.chain,
             staked |-> t.staked, pot |-> t.pot, rest |-> t.rest]
    BY DEF OutcomeStands
  <1>2. u = [action |-> t.action, owner |-> t.owner, page |-> page, chain |-> t.chain,
             staked |-> t.staked, pot |-> t.pot, rest |-> t.rest]
    BY <1>1
  <1>3. /\ u.action = t.action /\ u.owner = t.owner /\ u.page = page /\ u.chain = t.chain
        /\ u.staked = t.staked /\ u.pot = t.pot /\ u.rest = t.rest
    BY <1>2
  <1> HIDE DEF u
  <1>4. u = [action |-> u.action, owner |-> u.owner, page |-> u.page, chain |-> u.chain,
             staked |-> u.staked, pot |-> u.pot, rest |-> u.rest]
    BY <1>2, <1>3
  <1>5. ResultStands(u, p, positions[u.owner])
    BY <1>3 DEF OutcomeStands, ResultStands
  <1>6. OutcomeStands(u, p, positions)
    BY <1>3, <1>4, <1>5 DEF OutcomeStands
  <1> QED
    BY <1>6 DEF u

\* The program executes what the page asked for.
LEMMA ExecutesTheIntent ==
    ASSUME NEW i \in 1 .. MaxTransactions, IntentStands(tx[i], pool, position), Executes(tx[i])
    PROVE  LET t == tx[i] IN
           \/ t.action = "join" /\ JoinPool(t.owner, t.side, t.amount)
           \/ t.action = "claim" /\ Claim(t.owner)
           \/ t.action = "refund" /\ Refund(t.owner)
  <1> DEFINE t == tx[i]
  <1>1. CASE t.action = "join"
    <2>1. t.side \in Sides
      BY <1>1 DEF IntentStands
    <2>2. InstructionOf(t)
             = JoinPoolInstruction(t.at, t.mint, WalletKey(t.owner), t.side, t.amount)
      BY <1>1 DEF InstructionOf
    <2>3. SideRead(t) = t.side /\ AmountRead(t) = t.amount
      BY <2>1, <2>2, DepositIsRead DEF SideRead, AmountRead
    <2>4. JoinPool(t.owner, SideRead(t), AmountRead(t))
      BY <1>1 DEF Executes
    <2> QED
      BY <1>1, <2>3, <2>4
  <1>2. CASE t.action # "join"
    BY <1>2 DEF Executes
  <1> QED
    BY <1>1, <1>2

\* The steps that move tokens.
TokensMove ==
    \E o \in Owners :
       \/ \E side \in Sides, amount \in Amounts : JoinPool(o, side, amount)
       \/ Claim(o)
       \/ Refund(o)

\* A transaction that is executed is one.
LEMMA LandMovesTokens ==
    ASSUME NEW i \in 1 .. MaxTransactions, IntentStands(tx[i], pool, position), Executes(tx[i])
    PROVE  TokensMove
  <1> DEFINE t == tx[i]
  <1>1. t.owner \in Owners /\ (t.action = "join" => t.side \in Sides /\ t.amount \in Amounts)
    BY NumbersAssumption DEF IntentStands, Amounts
  <1> QED
    BY <1>1, ExecutesTheIntent DEF TokensMove

\* What the owner is paid when the transaction lands.
LEMMA LandPays ==
    ASSUME IInv, NEW i \in 1 .. MaxTransactions, IntentStands(tx[i], pool, position),
           Executes(tx[i]), tx[i].own
    PROVE  LET t == tx[i] paid == wallet'[t.owner] - wallet[t.owner] IN
           /\ t.action \in {"claim", "refund"} => paid >= t.quoted
           /\ t.action = "claim" /\ t.books = pool.remainingPool => paid = t.quoted
           /\ t.action = "refund" => paid = t.quoted
  <1> USE DEF IInv
  <1> DEFINE t == tx[i]
             o == t.owner
             a == position[o].amount
             paid == wallet'[o] - wallet[o]
  <1>1. /\ o \in Owners /\ wallet[o] \in Nat /\ a \in Nat
    BY NumbersAssumption DEF IntentStands, Coherent, TypeOK, PositionAccounts, Amounts
  <1>2. CASE t.action = "claim" /\ Claim(o)
    <2> DEFINE n == Payout(pool, a)
    <2>1. wallet'[o] = wallet[o] + n /\ n \in Nat
      BY <1>1, <1>2, ClaimChanges, ClaimIsFair
    <2>2. Claimable(pool, position[o])
      BY <1>2 DEF Claim, ClaimAccepted
    <2>3. /\ t.quoted \in Nat /\ t.quoted <= n
          /\ t.books = pool.remainingPool => t.quoted = n
      BY <1>2, <2>2 DEF IntentStands, QuoteStands
    <2> HIDE DEF n
    <2>4. paid = n
      BY <1>1, <2>1
    <2> QED
      BY <1>2, <2>1, <2>3, <2>4
  <1>3. CASE t.action = "refund" /\ Refund(o)
    <2>1. wallet'[o] = wallet[o] + a /\ t.quoted = a
      BY <1>1, <1>3, RefundChanges DEF IntentStands
    <2>2. paid = a
      BY <1>1, <2>1
    <2> QED
      BY <1>1, <1>3, <2>1, <2>2
  <1>4. CASE t.action = "join"
    BY <1>4
  <1> QED
    BY <1>2, <1>3, <1>4, ExecutesTheIntent

\* What is recorded of it stands.
LEMMA LandStands ==
    ASSUME IInv, pool.state # "Absent", NEW i \in 1 .. MaxTransactions,
           IntentStands(tx[i], pool, position), tx[i].chain = "pending", Executes(tx[i])
    PROVE  OutcomeStands([action |-> tx[i].action, owner |-> tx[i].owner,
                          page |-> tx[i].page, chain |-> "landed",
                          staked |-> position'[tx[i].owner].amount,
                          pot |-> Pot(pool'), rest |-> pool'.remainingPool],
                         pool', position')
  <1> DEFINE t == tx[i]
             o == t.owner
             q == position'[o]
             u == [action |-> t.action, owner |-> o, page |-> t.page, chain |-> "landed",
                   staked |-> q.amount, pot |-> Pot(pool'), rest |-> pool'.remainingPool]
  <1>1. /\ o \in Owners /\ t.action \in {"join", "claim", "refund"}
        /\ t.page \in {"waiting", "failed"}
    BY DEF IntentStands, UnderWay
  <1>2. Next
    BY LandMovesTokens DEF TokensMove, Next
  <1>3. IInv' /\ Grown(position[o], q)
    BY <1>1, <1>2, ChainKeeps, PositionsGrow
  <1>4. q.amount \in Nat /\ Pot(pool') \in Nat /\ pool'.remainingPool \in Nat
    BY <1>1, <1>3, NumbersAssumption
    DEF IInv, Coherent, TypeOK, PoolAccounts, PositionAccounts, Amounts, Pot, Sides
  <1>5. /\ q.side # None
        /\ t.action = "claim" => q.claimed
        /\ t.action = "refund" => q.refunded
        /\ t.action # "join" => Resolved(pool)
    <2>1. CASE t.action = "join" /\ JoinPool(o, t.side, t.amount)
      <3>1. q.side = t.side
        BY <1>1, <2>1 DEF JoinPool, JoinAccepted, IInv, Coherent, TypeOK, PositionAccounts
      <3>2. t.side \in Sides
        BY <2>1 DEF IntentStands
      <3> QED
        BY <2>1, <3>1, <3>2 DEF Sides, None
    <2>2. CASE t.action = "claim" /\ Claim(o)
      <3>1. position[o].side # None /\ Resolved(pool)
        BY <2>2 DEF Claim, ClaimAccepted, Claimable, Settled, Resolved, Unresolved
      <3>2. q.claimed
        BY <1>1, <2>2, ClaimChanges DEF IInv
      <3> QED
        BY <1>3, <2>2, <3>1, <3>2 DEF Grown
    <2>3. CASE t.action = "refund" /\ Refund(o)
      <3>1. position[o].side # None /\ Resolved(pool)
        <4>1. position[o].amount > 0 /\ pool.state = "Cancelled"
          BY <2>3 DEF Refund, RefundAccepted, Refundable
        <4> QED
          BY <1>1, <4>1 DEF IInv, Coherent, PositionsCoherent, Resolved, Unresolved
      <3>2. q.refunded
        BY <1>1, <2>3, RefundChanges DEF IInv
      <3> QED
        BY <1>3, <2>3, <3>1, <3>2 DEF Grown
    <2> QED
      BY <2>1, <2>2, <2>3, ExecutesTheIntent
  <1>6. t.action # "join" => Resolved(pool')
    BY <1>2, <1>5, ChainKeeps
  <1>7. /\ u.action = t.action /\ u.owner = o /\ u.page = t.page /\ u.chain = "landed"
        /\ u.staked = q.amount /\ u.pot = Pot(pool') /\ u.rest = pool'.remainingPool
    OBVIOUS
  <1>8. u = [action |-> u.action, owner |-> u.owner, page |-> u.page, chain |-> u.chain,
             staked |-> u.staked, pot |-> u.pot, rest |-> u.rest]
    OBVIOUS
  <1> HIDE DEF u, q, o, t
  <1>9. ResultStands(u, pool', q)
    BY <1>4, <1>5, <1>6, <1>7 DEF ResultStands
  <1>10. OutcomeStands(u, pool', position')
    BY <1>1, <1>7, <1>8, <1>9 DEF OutcomeStands, q
  <1> QED
    BY <1>10 DEF u, q, o, t

-----------------------------------------------------------------------------
(* The steps of the page                                                     *)

\* A step of the page moves tokens on the chain, moves none, or leaves the chain
\* alone.
LEMMA PageStepOnChain ==
    ASSUME PageInv, [PageNext]_pageVars
    PROVE  TokensMove \/ (Next /\ UNCHANGED <<wallet, vault>>) \/ UNCHANGED vars
  <1>1. ASSUME NEW i \in 1 .. MaxTransactions, Land(i)
        PROVE  TokensMove
    <2>1. tx[i].chain = "pending" /\ Executes(tx[i])
      BY <1>1 DEF Land
    <2>2. IntentStands(tx[i], pool, position)
      BY <2>1, StagesTell DEF PageInv
    <2> QED
      BY <2>1, <2>2, LandMovesTokens
  <1>2. ASSUME Elsewhere
        PROVE  TokensMove \/ (Next /\ UNCHANGED <<wallet, vault>>)
    <2>0. Others \subseteq Owners /\ 1 .. MaxU64 \subseteq Amounts
      BY AccountsAssumption, NumbersAssumption DEF Amounts
    <2>1. CASE \E o \in Others, side \in Sides, amount \in 1 .. MaxU64 : JoinPool(o, side, amount)
      BY <2>0, <2>1 DEF TokensMove
    <2>2. CASE LockPool
      BY <2>2 DEF Next, LockPool
    <2>3. CASE \E side \in Sides, sequence \in Sequences : SettlePool(side, sequence)
      BY <2>3 DEF Next, SettlePool
    <2>4. CASE \E authority \in Others \cup {Creator} : CancelPool(authority)
      <3>1. \E authority \in Callers : CancelPool(authority)
        BY <2>4, AccountsAssumption DEF Callers
      <3> QED
        BY <3>1 DEF Next, CancelPool
    <2>5. CASE \E o \in Others : Claim(o) \/ Refund(o)
      BY <2>0, <2>5 DEF TokensMove
    <2>6. CASE Tick
      BY <2>6 DEF Next, Tick
    <2> QED
      BY <1>2, <2>1, <2>2, <2>3, <2>4, <2>5, <2>6 DEF Elsewhere
  <1>3. ASSUME UNCHANGED chain
        PROVE  UNCHANGED vars
    BY <1>3 DEF chain
  <1>4. ASSUME StartReading \/ ReadPool \/ ReadOwner \/ ReadFails \/ Refresh
        PROVE  UNCHANGED chain
    BY <1>4 DEF StartReading, ReadPool, ReadOwner, ReadFails, Refresh
  <1>5. ASSUME NEW to, SwitchAccount(to)
        PROVE  UNCHANGED chain
    BY <1>5 DEF SwitchAccount
  <1>6. ASSUME NEW i, NEW side, NEW amount, Join(i, side, amount)
        PROVE  UNCHANGED chain
    BY <1>6 DEF Join, Begins
  <1>7. ASSUME NEW i, NEW action, ClaimOrRefund(i, action)
        PROVE  UNCHANGED chain
    BY <1>7 DEF ClaimOrRefund, Begins
  <1>8. ASSUME NEW i, AskWallet(i) \/ Submit(i) \/ Drop(i) \/ Confirm(i) \/ Fail(i)
        PROVE  UNCHANGED chain
    BY <1>8 DEF AskWallet, Submit, Drop, Confirm, Fail
  <1>9. ASSUME UNCHANGED pageVars
        PROVE  UNCHANGED chain
    BY <1>9 DEF pageVars
  <1> QED
    BY <1>1, <1>2, <1>3, <1>4, <1>5, <1>6, <1>7, <1>8, <1>9 DEF PageNext

\* Such a step is one of the program's.
LEMMA PageStepOfChain ==
    ASSUME PageInv, [PageNext]_pageVars
    PROVE  [Next]_vars
  BY PageStepOnChain DEF TokensMove, Next

\* Every transaction stands after the step, and none is newly confirmed.
TransactionsStand ==
    /\ tx' = [j \in 1 .. MaxTransactions |-> tx'[j]]
    /\ \A j \in 1 .. MaxTransactions : TransactionStands(tx'[j], pool', position')
NoneConfirmed ==
    \A j \in 1 .. MaxTransactions : tx'[j].page = "confirmed" => tx'[j] = tx[j]

\* A step that changes one transaction.
LEMMA OneMoves ==
    ASSUME PageInv, [Next]_vars, NEW i \in 1 .. MaxTransactions, NEW u,
           tx' = [tx EXCEPT ![i] = u], TransactionStands(u, pool', position')
    PROVE  /\ TransactionsStand
           /\ u.page # "confirmed" => NoneConfirmed
  <1>1. tx = [j \in 1 .. MaxTransactions |-> tx[j]]
    BY DEF PageInv, PageTypeOK
  <1>2. \A j \in 1 .. MaxTransactions : TransactionStands(tx[j], pool', position')
    BY TransactionKeeps DEF PageInv
  <1>3. tx' = [j \in 1 .. MaxTransactions |-> tx'[j]] /\ tx'[i] = u
    BY <1>1
  <1>4. \A j \in 1 .. MaxTransactions : j # i => tx'[j] = tx[j]
    BY <1>1
  <1> QED
    BY <1>2, <1>3, <1>4 DEF TransactionsStand, NoneConfirmed

\* A step that leaves them alone.
LEMMA NoneMoves ==
    ASSUME PageInv, [Next]_vars, tx' = tx
    PROVE  TransactionsStand /\ NoneConfirmed
  <1>1. \A j \in 1 .. MaxTransactions : TransactionStands(tx[j], pool', position')
    BY TransactionKeeps DEF PageInv
  <1> QED
    BY <1>1 DEF TransactionsStand, NoneConfirmed, PageInv, PageTypeOK

\* A click begins a transaction whose quote stands.
LEMMA ClickStands ==
    ASSUME PageInv, [Next]_vars, NEW i \in 1 .. MaxTransactions,
           NEW action \in {"join", "claim", "refund"}, NEW side, NEW amount,
           Begins(i, action, side, amount),
           action = "join" => side \in Sides /\ amount \in 1 .. MaxU64,
           action = "claim" => ClaimOffered(shown),
           action = "refund" => RefundOffered(shown)
    PROVE  TransactionsStand /\ NoneConfirmed
  <1> DEFINE own == shown.owner = account
             u == [action |-> action, owner |-> account, side |-> side, amount |-> amount,
                   createsTokens |-> ~shown.tokenAccountExists,
                   at |-> shown.pool.address, mint |-> shown.pool.mint,
                   books |-> shown.pool.remainingPool, own |-> own,
                   quoted |-> Quoted(action, shown),
                   page |-> "building", chain |-> "none"]
  <1>1. tx' = [tx EXCEPT ![i] = u] /\ pool' = pool /\ position' = position
    BY DEF Begins, chain, vars
  <1>2. account \in Owners
    BY AccountsAssumption DEF Begins, PageInv, PageTypeOK
  <1>3. /\ u.action = action /\ u.owner = account /\ u.side = side /\ u.amount = amount
        /\ u.books = shown.pool.remainingPool /\ u.quoted = Quoted(action, shown)
        /\ u.page = "building" /\ u.chain = "none"
        /\ u.own = own
    OBVIOUS
  <1>4. u = [action |-> u.action, owner |-> u.owner, side |-> u.side, amount |-> u.amount,
             createsTokens |-> u.createsTokens, at |-> u.at, mint |-> u.mint,
             books |-> u.books, own |-> u.own, quoted |-> u.quoted,
             page |-> u.page, chain |-> u.chain]
    OBVIOUS
  <1>5. u.own => shown.owner = account
    BY <1>3
  <1> HIDE DEF u, own
  <1>6. ASSUME shown.owner = account, shown.position.ok
        PROVE  /\ ViewStands(shown.pool, shown.position.amount, pool, position[account])
               /\ shown.pool.state \in Settled \cup {"Cancelled"} =>
                     shown.position.amount = position[account].amount
    BY <1>2, <1>6 DEF PageInv, SnapshotStands
  <1>7. ASSUME action = "claim", shown.owner = account
        PROVE  QuoteStands(pool, position[account], u.quoted, u.books)
    <2>1. shown.pool.state \in Settled /\ shown.position.ok
      BY <1>7 DEF ClaimOffered, Unpaid, Settled
    <2>2. u.quoted = CalculatePayout(shown.pool, shown.position.amount)
      BY <1>3, <1>7 DEF Quoted
    <2> QED
      BY <1>3, <1>6, <1>7, <2>1, <2>2 DEF ViewStands
  <1>8. ASSUME action = "refund", shown.owner = account
        PROVE  Resolved(pool) /\ u.quoted = position[account].amount
    <2>1. shown.pool.state = "Cancelled" /\ shown.position.ok
      BY <1>8 DEF RefundOffered, Unpaid
    <2>2. u.quoted = shown.position.amount
      BY <1>3, <1>8 DEF Quoted
    <2> QED
      BY <1>6, <1>8, <2>1, <2>2 DEF ViewStands
  <1>9. <<u.page, u.chain>> \in UnderWay
    BY <1>3 DEF UnderWay
  <1>10. IntentStands(u, pool, position)
    BY <1>2, <1>3, <1>4, <1>5, <1>7, <1>8, <1>9 DEF IntentStands
  <1> QED
    BY <1>1, <1>3, <1>10, OneMoves DEF TransactionStands

\* The wallet is asked, and signs.
LEMMA AskAndSubmitStand ==
    ASSUME PageInv, [Next]_vars, NEW i \in 1 .. MaxTransactions, AskWallet(i) \/ Submit(i)
    PROVE  TransactionsStand /\ NoneConfirmed
  <1>0. tx = [j \in 1 .. MaxTransactions |-> tx[j]]
    BY DEF PageInv, PageTypeOK
  <1>1. /\ IntentStands(tx[i], pool, position) /\ tx[i].chain = "none"
        /\ pool' = pool /\ position' = position
    <2>1. tx[i].page \in {"building", "signing"} /\ UNCHANGED chain
      BY DEF AskWallet, Submit
    <2>2. IntentStands(tx[i], pool, position)
      BY <2>1, StagesTell DEF PageInv
    <2> QED
      BY <2>1, <2>2 DEF IntentStands, UnderWay, chain, vars
  <1>2. CASE AskWallet(i)
    <2> DEFINE u == [tx[i] EXCEPT !.page = "signing", !.chain = "none"]
    <2>1. IntentStands(u, pool, position)
      BY <1>1, IntentMoves DEF UnderWay
    <2>2. u = [tx[i] EXCEPT !.page = "signing"] /\ u.page = "signing"
      BY <1>1 DEF IntentStands
    <2>3. tx' = [tx EXCEPT ![i] = u]
      BY <1>0, <1>2, <2>2 DEF AskWallet
    <2> HIDE DEF u
    <2> QED
      BY <1>1, <2>1, <2>2, <2>3, OneMoves DEF TransactionStands
  <1>3. CASE Submit(i)
    <2> DEFINE u == [tx[i] EXCEPT !.page = "waiting", !.chain = "pending"]
    <2>1. IntentStands(u, pool, position)
      BY <1>1, IntentMoves DEF UnderWay
    <2>2. u.page = "waiting"
      BY <1>1 DEF IntentStands
    <2>3. tx' = [tx EXCEPT ![i] = u]
      BY <1>0, <1>3 DEF Submit
    <2> HIDE DEF u
    <2> QED
      BY <1>1, <2>1, <2>2, <2>3, OneMoves DEF TransactionStands
  <1> QED
    BY <1>2, <1>3

\* It lands.
LEMMA LandingStands ==
    ASSUME PageInv, [Next]_vars, NEW i \in 1 .. MaxTransactions, Land(i)
    PROVE  TransactionsStand /\ NoneConfirmed
  <1> DEFINE u == [action |-> tx[i].action, owner |-> tx[i].owner,
                   page |-> tx[i].page, chain |-> "landed",
                   staked |-> position'[tx[i].owner].amount,
                   pot |-> Pot(pool'), rest |-> pool'.remainingPool]
  <1>0. tx = [j \in 1 .. MaxTransactions |-> tx[j]]
    BY DEF PageInv, PageTypeOK
  <1>1. tx[i].chain = "pending" /\ Executes(tx[i])
    BY DEF Land
  <1>2. IntentStands(tx[i], pool, position)
    BY <1>1, StagesTell DEF PageInv
  <1>3. OutcomeStands(u, pool', position')
    BY <1>1, <1>2, LandStands DEF PageInv
  <1>4. tx' = [tx EXCEPT ![i] = u]
    BY <1>0 DEF Land
  <1>5. u.page # "confirmed"
    BY <1>1, <1>2 DEF IntentStands, UnderWay
  <1> HIDE DEF u
  <1> QED
    BY <1>3, <1>4, <1>5, OneMoves DEF TransactionStands

\* It is dropped.
LEMMA DropStands ==
    ASSUME PageInv, [Next]_vars, NEW i \in 1 .. MaxTransactions, Drop(i)
    PROVE  TransactionsStand /\ NoneConfirmed
  <1> DEFINE u == IF tx[i].page = "failed" THEN Forgotten
                  ELSE [tx[i] EXCEPT !.chain = "dropped"]
             w == [tx[i] EXCEPT !.page = "waiting", !.chain = "dropped"]
  <1>0. tx = [j \in 1 .. MaxTransactions |-> tx[j]]
    BY DEF PageInv, PageTypeOK
  <1>1. tx[i].chain = "pending" /\ tx' = [tx EXCEPT ![i] = u]
        /\ pool' = pool /\ position' = position
    BY <1>0 DEF Drop, chain, vars
  <1>2. IntentStands(tx[i], pool, position)
    BY <1>1, StagesTell DEF PageInv
  <1>3. CASE tx[i].page = "failed"
    <2>1. u = Forgotten /\ u.page = "failed"
      BY <1>3 DEF Forgotten
    <2> HIDE DEF u
    <2> QED
      BY <1>1, <2>1, OneMoves DEF TransactionStands
  <1>4. CASE tx[i].page # "failed"
    <2>1. tx[i].page = "waiting"
      BY <1>1, <1>2, <1>4 DEF IntentStands, UnderWay
    <2>2. IntentStands(w, pool, position)
      BY <1>2, IntentMoves DEF UnderWay
    <2>3. u = w /\ w.page = "waiting"
      BY <1>2, <1>4, <2>1 DEF IntentStands
    <2> HIDE DEF u, w
    <2> QED
      BY <1>1, <2>2, <2>3, OneMoves DEF TransactionStands
  <1> QED
    BY <1>3, <1>4

\* The page sees it confirmed.
LEMMA ConfirmStands ==
    ASSUME PageInv, [Next]_vars, NEW i \in 1 .. MaxTransactions, Confirm(i)
    PROVE  TransactionsStand
  <1> DEFINE u == [tx[i] EXCEPT !.page = "confirmed"]
  <1>0. tx = [j \in 1 .. MaxTransactions |-> tx[j]]
    BY DEF PageInv, PageTypeOK
  <1>1. tx[i].chain = "landed" /\ tx' = [tx EXCEPT ![i] = u]
        /\ pool' = pool /\ position' = position
    BY <1>0 DEF Confirm, chain, vars
  <1>2. OutcomeStands(tx[i], pool, position)
    BY <1>1, StagesTell DEF PageInv
  <1>3. OutcomeStands(u, pool, position)
    BY <1>2, OutcomeMoves
  <1> HIDE DEF u
  <1> QED
    BY <1>1, <1>3, OneMoves DEF TransactionStands

\* The page gives it up.
LEMMA FailStands ==
    ASSUME PageInv, [Next]_vars, NEW i \in 1 .. MaxTransactions, Fail(i)
    PROVE  TransactionsStand /\ NoneConfirmed
  <1> DEFINE u == IF tx[i].chain \in {"pending", "landed"}
                  THEN [tx[i] EXCEPT !.page = "failed"] ELSE Forgotten
             w == [tx[i] EXCEPT !.page = "failed", !.chain = "pending"]
  <1>0. tx = [j \in 1 .. MaxTransactions |-> tx[j]]
    BY DEF PageInv, PageTypeOK
  <1>1. tx' = [tx EXCEPT ![i] = u] /\ pool' = pool /\ position' = position
    BY <1>0 DEF Fail, chain, vars
  <1>2. CASE tx[i].chain \notin {"pending", "landed"}
    <2>1. u = Forgotten /\ u.page = "failed"
      BY <1>2 DEF Forgotten
    <2> HIDE DEF u
    <2> QED
      BY <1>1, <2>1, OneMoves DEF TransactionStands
  <1>3. CASE tx[i].chain = "pending"
    <2>1. IntentStands(tx[i], pool, position)
      BY <1>3, StagesTell DEF PageInv
    <2>2. IntentStands(w, pool, position)
      BY <2>1, IntentMoves DEF UnderWay
    <2>3. u = w /\ w.page = "failed"
      BY <1>3, <2>1 DEF IntentStands
    <2> HIDE DEF u, w
    <2> QED
      BY <1>1, <2>2, <2>3, OneMoves DEF TransactionStands
  <1>4. CASE tx[i].chain = "landed"
    <2>1. OutcomeStands(tx[i], pool, position)
      BY <1>4, StagesTell DEF PageInv
    <2>2. u = [tx[i] EXCEPT !.page = "failed"]
      BY <1>4
    <2>3. OutcomeStands(u, pool, position)
      <3>1. OutcomeStands([tx[i] EXCEPT !.page = "failed"], pool, position)
        BY <2>1, OutcomeMoves
      <3> HIDE DEF u
      <3> QED
        BY <2>2, <3>1
    <2>4. u.page = "failed"
      BY <2>1, <2>2 DEF OutcomeStands
    <2> HIDE DEF u
    <2> QED
      BY <1>1, <2>3, <2>4, OneMoves DEF TransactionStands
  <1> QED
    BY <1>2, <1>3, <1>4

\* What a step does to the transactions and to what the page has read.
LEMMA PageStepKinds ==
    ASSUME PageInv, [PageNext]_pageVars
    PROVE  /\ TransactionsStand
           /\ \/ StartReading \/ ReadPool \/ ReadOwner \/ ReadFails \/ Refresh
              \/ \E to \in Accounts : SwitchAccount(to)
              \/ \E i \in 1 .. MaxTransactions : Confirm(i)
              \/ UNCHANGED <<account, snapshots>> /\ NoneConfirmed
  <1>0. [Next]_vars
    BY PageStepOfChain
  <1>1. ASSUME StartReading \/ ReadPool \/ ReadOwner \/ ReadFails \/ Refresh
        PROVE  TransactionsStand
    <2>1. tx' = tx
      BY <1>1 DEF StartReading, ReadPool, ReadOwner, ReadFails, Refresh, sends
    <2> QED
      BY <1>0, <2>1, NoneMoves
  <1>2. ASSUME NEW to \in Accounts, SwitchAccount(to)
        PROVE  TransactionsStand
    <2>1. tx' = tx
      BY <1>2 DEF SwitchAccount, sends
    <2> QED
      BY <1>0, <2>1, NoneMoves
  <1>3. ASSUME NEW i \in 1 .. MaxTransactions, NEW side \in Sides, NEW amount \in 1 .. MaxU64,
               Join(i, side, amount)
        PROVE  TransactionsStand /\ NoneConfirmed /\ UNCHANGED <<account, snapshots>>
    <2>1. Begins(i, "join", side, amount)
      BY <1>3 DEF Join
    <2>2. TransactionsStand /\ NoneConfirmed
      BY <1>0, <2>1, ClickStands
    <2> QED
      BY <2>1, <2>2 DEF Begins
  <1>4. ASSUME NEW i \in 1 .. MaxTransactions, NEW action \in {"claim", "refund"},
               ClaimOrRefund(i, action)
        PROVE  TransactionsStand /\ NoneConfirmed /\ UNCHANGED <<account, snapshots>>
    <2>1. /\ Begins(i, action, None, 0)
          /\ action = "claim" => ClaimOffered(shown)
          /\ action = "refund" => RefundOffered(shown)
          /\ action \in {"join", "claim", "refund"} /\ action # "join"
      BY <1>4 DEF ClaimOrRefund
    <2>2. TransactionsStand /\ NoneConfirmed
      BY <1>0, <2>1, ClickStands
    <2> QED
      BY <2>1, <2>2 DEF Begins
  <1>5. ASSUME NEW i \in 1 .. MaxTransactions,
               AskWallet(i) \/ Submit(i) \/ Land(i) \/ Drop(i) \/ Fail(i)
        PROVE  TransactionsStand /\ NoneConfirmed /\ UNCHANGED <<account, snapshots>>
    <2>1. TransactionsStand /\ NoneConfirmed
      BY <1>0, <1>5, AskAndSubmitStand, LandingStands, DropStands, FailStands
    <2>2. UNCHANGED <<account, snapshots>>
      BY <1>5 DEF AskWallet, Submit, Land, Drop, Fail
    <2> QED
      BY <2>1, <2>2
  <1>6. ASSUME NEW i \in 1 .. MaxTransactions, Confirm(i)
        PROVE  TransactionsStand
    BY <1>0, <1>6, ConfirmStands
  <1>7. ASSUME Elsewhere \/ UNCHANGED pageVars
        PROVE  TransactionsStand /\ NoneConfirmed /\ UNCHANGED <<account, snapshots>>
    <2>1. tx' = tx /\ UNCHANGED <<account, snapshots>>
      BY <1>7 DEF Elsewhere, pageVars, sends
    <2> QED
      BY <1>0, <2>1, NoneMoves
  <1> QED
    BY <1>1, <1>2, <1>3, <1>4, <1>5, <1>6, <1>7 DEF PageNext

\* What the page shows once it has read: the pool as it was read, and the
\* owner's position as it is.
LEMMA OwnerIsRead ==
    ASSUME PageInv, ReadOwner
    PROVE  /\ reading' = NotReading /\ reading.stage = "owner"
           /\ \/ shown' = NoSnapshot /\ loadState' = "error"
              \/ /\ shown'.owner = reading.owner
                 /\ shown'.pool.state = reading.pool.state
                 /\ shown'.pool.yes = reading.pool.sideAmount["Yes"]
                 /\ shown'.pool.no = reading.pool.sideAmount["No"]
                 /\ shown'.pool.remainingPool = reading.pool.remainingPool
                 /\ shown'.pool.remainingWinning = reading.pool.remainingWinning
                 /\ reading.owner \in Owners /\ position[reading.owner].side # None
                       => /\ shown'.position.ok = TRUE
                          /\ shown'.position.amount = position[reading.owner].amount
                          /\ shown'.position.claimed = position[reading.owner].claimed
                          /\ shown'.position.refunded = position[reading.owner].refunded
                 /\ reading.owner \in Owners /\ position[reading.owner].side = None
                       => shown'.position.ok = FALSE
  <1> DEFINE o == reading.owner
             p == reading.pool
             q == position[o]
             d == DecodePool(Address, PoolData(Terms, p))
             result == IF o = NoAccount THEN Unconnected(p) ELSE Snapshot(o, p, q)
  <1>1. /\ p \in PoolAccounts /\ p.state # "Absent"
        /\ o \in Owners \cup {NoAccount} /\ NoAccount \notin Owners
    BY AccountsAssumption DEF ReadOwner, PageInv, PageTypeOK, ReadingStands
  <1>2. result.pool = d /\ result.owner = o
    BY DEF Unconnected, Snapshot
  <1>3. ASSUME o \in Owners, q.side # None
        PROVE  /\ result.position.ok = TRUE /\ result.position.amount = q.amount
               /\ result.position.claimed = q.claimed /\ result.position.refunded = q.refunded
    <2> DEFINE e == DecodePosition(PositionAddress(Address, WalletKey(o)),
                                   PositionData(Address, WalletKey(o), q))
    <2>1. q \in PositionAccounts
      BY <1>3 DEF PageInv, IInv, Coherent, TypeOK
    <2>2. q.side # "None"
      BY <1>3 DEF None
    <2> HIDE DEF q
    <2>3. e.ok = TRUE /\ e.amount = q.amount /\ e.claimed = q.claimed /\ e.refunded = q.refunded
      BY <2>1, <2>2, PositionIsRead
    <2>4. result.position = e
      BY <1>1, <1>3, <2>2 DEF Snapshot
    <2> HIDE DEF e, result
    <2> QED
      BY <2>3, <2>4
  <1>4. ASSUME o \in Owners, q.side = None
        PROVE  result.position.ok = FALSE
    <2>1. result.position = NoAccountThere
      BY <1>1, <1>4 DEF Snapshot, None
    <2> HIDE DEF result
    <2> QED
      BY <2>1 DEF NoAccountThere
  <1>5. /\ reading' = NotReading /\ reading.stage = "owner"
        /\ \/ shown' = NoSnapshot /\ loadState' = "error"
           \/ shown' = result /\ result.pool.ok
    BY DEF ReadOwner
  <1>6. ASSUME d.ok
        PROVE  /\ d.state = p.state
               /\ d.yes = p.sideAmount["Yes"] /\ d.no = p.sideAmount["No"]
               /\ d.remainingPool = p.remainingPool
               /\ d.remainingWinning = p.remainingWinning
    <2> HIDE DEF p
    <2> QED
      BY <1>1, <1>6, PoolIsRead
  <1> HIDE DEF d, result, p, q
  <1>7. CASE shown' = NoSnapshot /\ loadState' = "error"
    BY <1>5, <1>7
  <1>8. CASE shown' = result /\ result.pool.ok
    <2>1. shown'.pool = d /\ d.ok
      BY <1>2, <1>8
    <2> QED
      BY <1>2, <1>3, <1>4, <1>5, <1>6, <1>8, <2>1 DEF p, q
  <1> QED
    BY <1>5, <1>7, <1>8

\* Types are kept.
LEMMA PageTypeStep ==
    ASSUME PageInv, [PageNext]_pageVars
    PROVE  PageTypeOK'
  <1>0. PageTypeOK /\ NoAccount \notin Owners
    BY AccountsAssumption DEF PageInv
  <1>1. tx' = [i \in 1 .. MaxTransactions |-> tx'[i]]
    BY PageStepKinds DEF TransactionsStand
  <1>2. NoSnapshot.owner = NoAccount /\ NotReading.owner = NoAccount /\ NotReading.stage = "none"
        /\ NotReading = [stage |-> NotReading.stage, owner |-> NotReading.owner,
                         pool |-> NotReading.pool]
    BY DEF NoSnapshot, NotReading
  <1>3. CASE StartReading
    <2>1. account \in Owners \cup {NoAccount}
      BY <1>0, AccountsAssumption DEF PageTypeOK
    <2> QED
      BY <1>0, <1>1, <1>3, <2>1 DEF StartReading, PageTypeOK
  <1>4. CASE ReadPool
    BY <1>0, <1>1, <1>4 DEF ReadPool, PageTypeOK, sends
  <1>5. CASE ReadOwner
    <2>1. /\ reading' = NotReading /\ account' = account /\ due' = due
          /\ shown'.owner \in Owners \cup {NoAccount}
      <3>1. shown' = NoSnapshot \/ shown'.owner = reading.owner
        BY <1>5, OwnerIsRead
      <3>2. account' = account /\ due' = due
        BY <1>5 DEF ReadOwner
      <3>3. reading' = NotReading
        BY <1>5, OwnerIsRead
      <3> QED
        BY <1>0, <1>2, <3>1, <3>2, <3>3 DEF PageTypeOK
    <2> QED
      BY <1>0, <1>1, <1>2, <2>1 DEF PageTypeOK
  <1>6. CASE ReadFails
    BY <1>0, <1>1, <1>2, <1>6 DEF ReadFails, PageTypeOK
  <1>7. CASE Refresh
    BY <1>0, <1>1, <1>7 DEF Refresh, Refreshed, PageTypeOK
  <1>8. ASSUME NEW to \in Accounts, SwitchAccount(to)
        PROVE  PageTypeOK'
    BY <1>0, <1>1, <1>8 DEF SwitchAccount, PageTypeOK
  <1>9. ASSUME NEW i, Confirm(i)
        PROVE  PageTypeOK'
    BY <1>0, <1>1, <1>9 DEF Confirm, Refreshed, PageTypeOK
  <1>10. CASE UNCHANGED <<account, snapshots>>
    BY <1>0, <1>1, <1>10 DEF snapshots, PageTypeOK
  <1> QED
    BY <1>3, <1>4, <1>5, <1>6, <1>7, <1>8, <1>9, <1>10, PageStepKinds

\* The snapshot shown still tells what its owner will be paid.
LEMMA SnapshotStep ==
    ASSUME PageInv, [PageNext]_pageVars
    PROVE  SnapshotStands(shown', pool', position')
  <1>0. [Next]_vars
    BY PageStepOfChain
  <1>1. CASE shown' = shown
    BY <1>0, <1>1, SnapshotKeeps DEF PageInv
  <1>2. CASE shown' = NoSnapshot
    BY <1>2, AccountsAssumption DEF SnapshotStands, NoSnapshot
  <1>3. ASSUME ReadOwner, shown' # NoSnapshot
        PROVE  SnapshotStands(shown', pool', position')
    <2> DEFINE o == reading.owner
    <2>1. pool' = pool /\ position' = position
      BY <1>3 DEF ReadOwner, chain, vars
    <2>2. SUFFICES ASSUME shown'.owner \in Owners, shown'.position.ok
                   PROVE  /\ ViewStands(shown'.pool, shown'.position.amount,
                                        pool, position[shown'.owner])
                          /\ shown'.position.amount = position[shown'.owner].amount
      BY <2>1 DEF SnapshotStands
    <2>3. /\ reading.stage = "owner" /\ shown'.owner = o /\ o \in Owners
          /\ shown'.pool.state = reading.pool.state
          /\ shown'.pool.remainingPool = reading.pool.remainingPool
          /\ shown'.pool.remainingWinning = reading.pool.remainingWinning
          /\ shown'.position.amount = position[o].amount
      <3>1. /\ reading.stage = "owner" /\ shown'.owner = o
            /\ shown'.pool.state = reading.pool.state
            /\ shown'.pool.remainingPool = reading.pool.remainingPool
            /\ shown'.pool.remainingWinning = reading.pool.remainingWinning
        BY <1>3, OwnerIsRead
      <3>2. position[o].side # None
        BY <1>3, <2>2, <3>1, OwnerIsRead
      <3> QED
        BY <1>3, <2>2, <3>1, <3>2, OwnerIsRead
    <2>4. ViewStands(reading.pool, position[o].amount, pool, position[o])
      BY <2>3 DEF PageInv, ReadingStands
    <2>5. CalculatePayout(shown'.pool, position[o].amount)
             = CalculatePayout(reading.pool, position[o].amount)
      BY <2>3 DEF CalculatePayout
    <2>6. ViewStands(shown'.pool, position[o].amount, pool, position[o])
      BY <2>3, <2>4, <2>5 DEF ViewStands
    <2> QED
      BY <2>3, <2>6
  <1>4. ASSUME StartReading \/ ReadPool \/ Refresh
        PROVE  shown' = shown
    BY <1>4 DEF StartReading, ReadPool, Refresh
  <1>5. ASSUME ReadFails
        PROVE  shown' = NoSnapshot
    BY <1>5 DEF ReadFails
  <1>6. ASSUME NEW to, SwitchAccount(to)
        PROVE  shown' = shown
    BY <1>6 DEF SwitchAccount
  <1>7. ASSUME NEW i, Confirm(i)
        PROVE  shown' = shown
    BY <1>7 DEF Confirm
  <1>8. ASSUME UNCHANGED <<account, snapshots>>
        PROVE  shown' = shown
    BY <1>8 DEF snapshots
  <1> QED
    BY <1>1, <1>2, <1>3, <1>4, <1>5, <1>6, <1>7, <1>8, PageStepKinds

\* So does the pool that was read.
LEMMA ReadingStep ==
    ASSUME PageInv, [PageNext]_pageVars
    PROVE  ReadingStands(reading', pool', position')
  <1>0. [Next]_vars
    BY PageStepOfChain
  <1>1. CASE reading' = reading
    BY <1>0, <1>1, ReadingKeeps DEF PageInv
  <1>2. CASE reading'.stage # "owner"
    BY <1>2 DEF ReadingStands
  <1>3. ASSUME ReadPool
        PROVE  ReadingStands(reading', pool', position')
    <2>1. pool' = pool /\ position' = position
      BY <1>3 DEF ReadPool, chain, vars
    <2>2. reading'.pool = pool
      BY <1>3 DEF ReadPool, PageInv, PageTypeOK
    <2>3. TypeOK /\ pool.state # "Absent"
      BY DEF PageInv, IInv, Coherent
    <2>4. \A o \in Owners : ViewStands(pool, position[o].amount, pool, position[o])
      BY <2>3, SeenStands
    <2>5. pool \in PoolAccounts
      BY <2>3 DEF TypeOK
    <2> QED
      BY <2>1, <2>2, <2>3, <2>4, <2>5 DEF ReadingStands
  <1>4. ASSUME StartReading
        PROVE  reading'.stage # "owner"
    BY <1>4 DEF StartReading
  <1>5. ASSUME ReadOwner \/ ReadFails
        PROVE  reading'.stage # "owner"
    BY <1>5 DEF ReadOwner, ReadFails, NotReading
  <1>6. ASSUME Refresh
        PROVE  reading' = reading
    BY <1>6 DEF Refresh
  <1>7. ASSUME NEW to, SwitchAccount(to)
        PROVE  reading' = reading
    BY <1>7 DEF SwitchAccount
  <1>8. ASSUME NEW i, Confirm(i)
        PROVE  reading' = reading
    BY <1>8 DEF Confirm
  <1>9. ASSUME UNCHANGED <<account, snapshots>>
        PROVE  reading' = reading
    BY <1>9 DEF snapshots
  <1> QED
    BY <1>1, <1>2, <1>3, <1>4, <1>5, <1>6, <1>7, <1>8, <1>9, PageStepKinds

\* What the pool and the owner's position say now includes every outcome.
LEMMA NowShows ==
    ASSUME PageInv, NEW i \in 1 .. MaxTransactions, tx[i].page = "confirmed"
    PROVE  /\ tx[i].owner \in Owners
           /\ ResultStands(tx[i], pool, position[tx[i].owner])
  <1>1. OutcomeStands(tx[i], pool, position)
    BY StagesTell DEF PageInv
  <1> QED
    BY <1>1 DEF OutcomeStands

\* A page that is not going to read again shows everything it has confirmed.
LEMMA FreshStep ==
    ASSUME PageInv, [PageNext]_pageVars
    PROVE  Fresh'
  <1>0. Fresh /\ PageTypeOK
    BY DEF PageInv
  <1>1. CASE StartReading
    BY <1>1 DEF StartReading, Fresh
  <1>2. ASSUME due' = TRUE
        PROVE  Fresh'
    BY <1>2 DEF Fresh
  <1>3. CASE ReadPool
    <2>1. /\ reading'.pool = pool /\ reading'.stage = "owner" /\ tx' = tx /\ pool' = pool
      BY <1>0, <1>3 DEF ReadPool, PageTypeOK, sends, chain, vars
    <2>2. ASSUME NEW i \in 1 .. MaxTransactions, tx[i].page = "confirmed"
          PROVE  PoolShows(pool.sideAmount["Yes"], pool.sideAmount["No"],
                           pool.remainingPool, tx[i])
      BY <2>2, NowShows DEF ResultStands, PoolShows, Pot
    <2> QED
      BY <2>1, <2>2 DEF Fresh
  <1>4. CASE ReadOwner
    <2>1. /\ tx' = tx /\ due' = due /\ reading' = NotReading /\ reading.stage = "owner"
          /\ NotReading.stage = "none"
      BY <1>4, OwnerIsRead DEF ReadOwner, sends, NotReading
    <2>2. ASSUME ~due, NEW i \in 1 .. MaxTransactions, tx[i].page = "confirmed",
                 loadState' = "ready", shown'.owner = tx[i].owner
          PROVE  SnapshotShows(shown', tx[i])
      <3> DEFINE o == reading.owner
      <3>1. /\ shown'.owner = o
            /\ shown'.pool.yes = reading.pool.sideAmount["Yes"]
            /\ shown'.pool.no = reading.pool.sideAmount["No"]
            /\ shown'.pool.remainingPool = reading.pool.remainingPool
        BY <1>4, <2>2, OwnerIsRead
      <3>2. o \in Owners /\ ResultStands(tx[i], pool, position[o])
        BY <2>2, <3>1, NowShows
      <3>3. position[o].side # None
        BY <3>2 DEF ResultStands
      <3>4. /\ shown'.position.ok = TRUE
            /\ shown'.position.amount = position[o].amount
            /\ shown'.position.claimed = position[o].claimed
            /\ shown'.position.refunded = position[o].refunded
        BY <1>4, <2>2, <3>2, <3>3, OwnerIsRead
      <3>5. PoolShows(reading.pool.sideAmount["Yes"], reading.pool.sideAmount["No"],
                      reading.pool.remainingPool, tx[i])
        BY <1>0, <2>1, <2>2 DEF Fresh
      <3> QED
        BY <3>1, <3>2, <3>4, <3>5 DEF SnapshotShows, ResultStands
    <2> QED
      BY <2>1, <2>2 DEF Fresh
  <1>5. CASE ReadFails
    BY <1>5 DEF ReadFails, NotReading, Fresh
  <1>6. ASSUME Refresh
        PROVE  due' = TRUE
    BY <1>6 DEF Refresh, Refreshed
  <1>7. ASSUME NEW to, SwitchAccount(to)
        PROVE  due' = TRUE
    BY <1>7 DEF SwitchAccount
  <1>8. ASSUME NEW i, Confirm(i)
        PROVE  due' = TRUE
    BY <1>8 DEF Confirm, Refreshed
  <1>9. CASE UNCHANGED <<account, snapshots>> /\ NoneConfirmed
    <2>1. /\ shown' = shown /\ loadState' = loadState /\ due' = due /\ reading' = reading
          /\ \A i \in 1 .. MaxTransactions : tx'[i].page = "confirmed" => tx'[i] = tx[i]
      BY <1>9 DEF snapshots, NoneConfirmed
    <2> QED
      BY <1>0, <2>1 DEF Fresh
  <1> QED
    BY <1>1, <1>2, <1>3, <1>4, <1>5, <1>6, <1>7, <1>8, <1>9, PageStepKinds

-----------------------------------------------------------------------------
(* The page as it is opened                                                  *)

\* The position accounts of an opening.
Opened(stakes) ==
    [o \in Owners |-> [NoPosition EXCEPT !.side = stakes[o].side,
                                         !.amount = stakes[o].amount]]

\* What is staked on some sides is what their backers have staked.
LEMMA StakedOnSides ==
    ASSUME NEW stakes \in Openings, NEW sides
    PROVE  StakedOn(stakes, sides)
              = StakedBy(Opened(stakes), {o \in Owners : Opened(stakes)[o].side \in sides})
  <1> DEFINE f == Opened(stakes)
             S == {o \in Owners : f[o].side \in sides}
  <1>1. \A o \in Owners : f[o].side = stakes[o].side /\ f[o].amount = stakes[o].amount
    BY DEF Opened, NoPosition
  <1> HIDE DEF f
  <1>2. {u \in Owners \X (1 .. MaxU64) :
            stakes[u[1]].side \in sides /\ u[2] <= stakes[u[1]].amount}
          = {u \in S \X (1 .. MaxU64) : u[2] <= f[u[1]].amount}
    BY <1>1
  <1> QED
    BY <1>2 DEF StakedOn, StakedBy, StakeUnits, f

\* An opening's counters are those of its positions.
LEMMA OpeningBalances ==
    ASSUME NEW stakes \in Openings
    PROVE  /\ Opened(stakes) \in Positions
           /\ \A side \in Sides :
                 StakedOn(stakes, {side})
                    = StakedBy(Opened(stakes), {o \in Owners : Opened(stakes)[o].side = side})
           /\ StakedOn(stakes, {"Yes"}) \in Amounts /\ StakedOn(stakes, {"No"}) \in Amounts
           /\ StakedOn(stakes, Sides) \in Amounts
           /\ StakedOn(stakes, Sides) = StakedOn(stakes, {"Yes"}) + StakedOn(stakes, {"No"})
  <1> DEFINE f == Opened(stakes)
             S(side) == {o \in Owners : f[o].side = side}
             all == {o \in Owners : f[o].side \in Sides}
  <1>1. stakes \in [Owners -> [side : Sides \cup {None}, amount : Amounts]]
    BY OpeningsAssumption
  <1>2. f \in Positions
    BY <1>1 DEF Opened, NoPosition, Positions, PositionAccounts
  <1>3. \A side : StakedOn(stakes, {side}) = StakedBy(f, S(side))
    <2> SUFFICES ASSUME NEW side
                 PROVE  StakedOn(stakes, {side}) = StakedBy(f, S(side))
      OBVIOUS
    <2>1. StakedOn(stakes, {side}) = StakedBy(f, {o \in Owners : f[o].side \in {side}})
      BY StakedOnSides
    <2>2. {o \in Owners : f[o].side \in {side}} = S(side)
      OBVIOUS
    <2> QED
      BY <2>1, <2>2
  <1>4. StakedOn(stakes, Sides) = StakedBy(f, all)
    BY StakedOnSides
  <1> HIDE DEF f
  <1>5. /\ S("Yes") \in SUBSET Owners /\ S("No") \in SUBSET Owners
        /\ S("Yes") \cap S("No") = {} /\ all = S("Yes") \cup S("No")
    BY DEF Sides
  <1>6. StakedBy(f, all) = StakedBy(f, S("Yes")) + StakedBy(f, S("No"))
    BY <1>2, <1>5, StakedByUnion
  <1>7. StakedBy(f, S("Yes")) \in Nat /\ StakedBy(f, S("No")) \in Nat
    BY <1>2, <1>5, StakedIsNat
  <1>8. StakedOn(stakes, Sides) <= MaxU64 /\ MaxU64 \in Nat
    BY OpeningsAssumption, NumbersAssumption
  <1>9. /\ StakedOn(stakes, {"Yes"}) \in Nat /\ StakedOn(stakes, {"No"}) \in Nat
        /\ StakedOn(stakes, Sides) = StakedOn(stakes, {"Yes"}) + StakedOn(stakes, {"No"})
    BY <1>3, <1>4, <1>6, <1>7
  <1>10. /\ StakedOn(stakes, {"Yes"}) \in Amounts /\ StakedOn(stakes, {"No"}) \in Amounts
         /\ StakedOn(stakes, Sides) \in Amounts
    BY <1>8, <1>9 DEF Amounts
  <1> QED
    BY <1>2, <1>3, <1>9, <1>10 DEF f

\* The pool that the page opens on is coherent.
LEMMA OpeningIsCoherent ==
    ASSUME PageInit
    PROVE  Coherent /\ pool.state = "Open"
  <1>1. PICK stakes \in Openings :
            /\ pool = [state |-> "Open", cutoff |-> Terms.cutoff,
                       refundAfter |-> Terms.refundAfter, demoMode |-> Terms.demoMode = 1,
                       winningSide |-> None,
                       sideAmount |-> [side \in Sides |-> StakedOn(stakes, {side})],
                       remainingPool |-> StakedOn(stakes, Sides),
                       remainingWinning |-> 0, settledSequence |-> 0]
            /\ position = Opened(stakes)
            /\ vault = StakedOn(stakes, Sides)
    BY DEF PageInit, Opened
  <1> DEFINE yes == StakedOn(stakes, {"Yes"})
             no == StakedOn(stakes, {"No"})
             total == StakedOn(stakes, Sides)
             sides == [side \in Sides |-> StakedOn(stakes, {side})]
  <1>2. Terms.cutoff = 1 /\ Terms.refundAfter = 1 + Grace
    BY TermsAreAsked DEF PageInit
  <1>3. /\ position \in Positions /\ yes \in Amounts /\ no \in Amounts /\ total \in Amounts
        /\ total = yes + no
        /\ \A side \in Sides : sides[side] = StakeOf(Backers(side))
    BY <1>1, OpeningBalances DEF StakeOf, Backers
  <1>4. /\ sides \in [Sides -> Amounts] /\ sides["Yes"] = yes /\ sides["No"] = no
    BY <1>3 DEF Sides
  <1> HIDE DEF yes, no, total, sides
  <1>5. /\ pool = [state |-> "Open", cutoff |-> 1, refundAfter |-> 1 + Grace,
                   demoMode |-> Terms.demoMode = 1, winningSide |-> None,
                   sideAmount |-> sides, remainingPool |-> total,
                   remainingWinning |-> 0, settledSequence |-> 0]
        /\ vault = total
    BY <1>1, <1>2 DEF sides, total
  <1>6. /\ pool.state = "Open" /\ pool.sideAmount = sides /\ pool.remainingPool = total
        /\ pool.winningSide = None
    BY <1>5
  <1>7. \A o \in Owners : /\ ~position[o].claimed /\ ~position[o].refunded
                          /\ position[o].side = None <=> position[o].amount = 0
    BY <1>1, OpeningsAssumption DEF Opened, NoPosition
  <1>8. TypeOK
    <2>1. pool \in PoolAccounts
      <3>1. 1 \in Timestamps /\ 1 + Grace \in Timestamps
        BY NumbersAssumption, DeadlinesAssumption DEF Timestamps
      <3>2. 0 \in Amounts /\ 0 \in Nat /\ None \in Sides \cup {None}
            /\ "Open" \in PoolStates
        BY NumbersAssumption DEF Amounts, PoolStates, Unresolved
      <3>3. (Terms.demoMode = 1) \in BOOLEAN
        OBVIOUS
      <3> QED
        BY <1>3, <1>4, <1>5, <3>1, <3>2, <3>3 DEF PoolAccounts
    <2>2. vault \in Nat
      BY <1>3, <1>5, NumbersAssumption DEF Amounts
    <2>3. /\ record \in [winningSide : Sides \cup {None}, sequence : Nat]
          /\ wallet \in [Owners -> Nat] /\ clock \in Timestamps
      <3>1. record = NoRecord /\ wallet = Endowment /\ clock = 0
        BY DEF PageInit
      <3>2. record \in [winningSide : Sides \cup {None}, sequence : Nat]
        BY <3>1 DEF NoRecord
      <3>3. wallet \in [Owners -> Nat]
        BY <3>1, NumbersAssumption
      <3>4. clock \in Timestamps
        BY <3>1, NumbersAssumption DEF Timestamps
      <3> QED
        BY <3>2, <3>3, <3>4
    <2> QED
      BY <1>3, <2>1, <2>2, <2>3 DEF TypeOK, Positions
  <1>9. BooksBalance
    BY <1>3, <1>4, <1>6 DEF BooksBalance, Pot, SettledFor
  <1>10. PositionsCoherent
    BY <1>7 DEF PositionsCoherent
  <1>11. StageCoherent
    <2>1. Claimed = {} /\ Unrefunded = Owners
      BY <1>7 DEF Claimed, Unrefunded
    <2> QED
      BY <1>3, <1>4, <1>6, <2>1 DEF StageCoherent, Pot, SettledFor
  <1>12. ClosedLeavesNobodyUnpaid
    BY <1>6 DEF ClosedLeavesNobodyUnpaid
  <1>13. VaultCovers(pool)
    BY <1>3, <1>5, <1>6, NumbersAssumption DEF VaultCovers, Amounts
  <1> QED
    BY <1>6, <1>8, <1>9, <1>10, <1>11, <1>12, <1>13 DEF Coherent

\* The invariant holds when the page is opened.
LEMMA PageInitInv == PageInit => PageInv
  <1> SUFFICES ASSUME PageInit PROVE PageInv
    OBVIOUS
  <1>1. IInv /\ pool.state # "Absent"
    BY OpeningIsCoherent DEF IInv, SharesKeepRate, SettledFor
  <1>2. /\ account \in Accounts /\ shown = NoSnapshot /\ due = TRUE /\ reading = NotReading
        /\ tx = [i \in 1 .. MaxTransactions |-> NoTransaction]
    BY DEF PageInit
  <1>3. PageTypeOK
    <2>1. /\ NoSnapshot.owner = NoAccount /\ NotReading.owner = NoAccount
          /\ NotReading.stage = "none"
          /\ NotReading = [stage |-> NotReading.stage, owner |-> NotReading.owner,
                           pool |-> NotReading.pool]
      BY DEF NoSnapshot, NotReading
    <2> QED
      BY <1>2, <2>1 DEF PageTypeOK
  <1>4. SnapshotStands(shown, pool, position)
    BY <1>2, AccountsAssumption DEF SnapshotStands, NoSnapshot
  <1>5. ReadingStands(reading, pool, position)
    BY <1>2 DEF ReadingStands, NotReading
  <1>6. \A i \in 1 .. MaxTransactions : TransactionStands(tx[i], pool, position)
    BY <1>2 DEF TransactionStands
  <1>7. Fresh
    BY <1>2 DEF Fresh
  <1> QED
    BY <1>1, <1>3, <1>4, <1>5, <1>6, <1>7 DEF PageInv

\* Every step of the page keeps it.
LEMMA PageInvInduction == PageInv /\ [PageNext]_pageVars => PageInv'
  <1> SUFFICES ASSUME PageInv, [PageNext]_pageVars PROVE PageInv'
    OBVIOUS
  <1>1. (IInv /\ pool.state # "Absent")'
    BY PageStepOfChain, ChainKeeps DEF PageInv
  <1>2. \A i \in 1 .. MaxTransactions : TransactionStands(tx'[i], pool', position')
    BY PageStepKinds DEF TransactionsStand
  <1> QED
    BY <1>1, <1>2, PageTypeStep, SnapshotStep, ReadingStep, FreshStep DEF PageInv

\* A transaction lands by being executed.
LEMMA LandsByItself ==
    ASSUME PageInv, PageNext, NEW i \in 1 .. MaxTransactions,
           tx[i].chain = "pending", tx'[i].chain = "landed"
    PROVE  Executes(tx[i])
  <1>0. tx = [j \in 1 .. MaxTransactions |-> tx[j]]
    BY DEF PageInv, PageTypeOK
  <1>1. tx' # tx
    OBVIOUS
  <1>2. ~(StartReading \/ ReadPool \/ ReadOwner \/ ReadFails \/ Refresh \/ Elsewhere)
    BY <1>1 DEF StartReading, ReadPool, ReadOwner, ReadFails, Refresh, Elsewhere, sends
  <1>3. ~ \E to \in Accounts : SwitchAccount(to)
    BY <1>1 DEF SwitchAccount, sends
  <1>4. PICK k \in 1 .. MaxTransactions :
           \/ \E side \in Sides, amount \in 1 .. MaxU64 : Join(k, side, amount)
           \/ \E action \in {"claim", "refund"} : ClaimOrRefund(k, action)
           \/ AskWallet(k) \/ Submit(k) \/ Land(k) \/ Drop(k) \/ Confirm(k) \/ Fail(k)
    BY <1>2, <1>3 DEF PageNext
  <1>5. ASSUME NEW action, NEW side, NEW amount, Begins(k, action, side, amount)
        PROVE  tx'[i].chain # "landed"
    <2>1. tx'[k].chain = "none" /\ (k # i => tx'[i] = tx[i])
      BY <1>0, <1>5 DEF Begins
    <2> QED
      BY <2>1
  <1>6. \A side, amount : ~Join(k, side, amount)
    BY <1>5 DEF Join
  <1>7. \A action : ~ClaimOrRefund(k, action)
    BY <1>5 DEF ClaimOrRefund
  <1>8. ASSUME AskWallet(k) \/ Submit(k) \/ Drop(k) \/ Confirm(k) \/ Fail(k)
        PROVE  FALSE
    <2>1. CASE k # i
      <3>1. tx'[i] = tx[i]
        BY <1>0, <1>8, <2>1 DEF AskWallet, Submit, Drop, Confirm, Fail
      <3> QED
        BY <3>1
    <2>2. CASE k = i
      <3>1. IntentStands(tx[i], pool, position)
        BY StagesTell DEF PageInv
      <3>2. tx[i].page \in {"waiting", "failed"}
        BY <3>1 DEF IntentStands, UnderWay
      <3>3. Drop(i) \/ Fail(i)
        BY <1>8, <2>2, <3>2 DEF AskWallet, Submit, Confirm
      <3>4. \/ tx'[i] = Forgotten
            \/ tx'[i] = [tx[i] EXCEPT !.chain = "dropped"]
            \/ tx'[i] = [tx[i] EXCEPT !.page = "failed"]
        BY <1>0, <3>3 DEF Drop, Fail
      <3>5. tx'[i].chain \in {"none", "dropped", "pending"}
        BY <3>1, <3>4 DEF IntentStands, Forgotten
      <3> QED
        BY <3>5
    <2> QED
      BY <2>1, <2>2
  <1>9. Land(k)
    BY <1>4, <1>6, <1>7, <1>8
  <1>10. k = i
    BY <1>0, <1>9 DEF Land
  <1> QED
    BY <1>9, <1>10 DEF Land

-----------------------------------------------------------------------------
(* The supply of the mint                                                    *)

\* Balances, counted like stakes.
Purses(balances) == [o \in Owners |-> [NoPosition EXCEPT !.amount = balances[o]]]

\* The units in the token accounts are as many as if they were staked.
LEMMA HeldAreStakes ==
    ASSUME NEW w \in [Owners -> Amounts]
    PROVE  /\ Purses(w) \in Positions
           /\ \A o \in Owners : Purses(w)[o].amount = w[o]
           /\ UnitsHeld(w) = StakedBy(Purses(w), Owners)
  <1>1. \A o \in Owners : Purses(w)[o].amount = w[o]
    BY DEF Purses, NoPosition
  <1>2. Purses(w) \in Positions
    BY DEF Purses, NoPosition, Positions, PositionAccounts
  <1>3. {u \in Owners \X (1 .. MaxU64) : u[2] <= w[u[1]]}
           = {u \in Owners \X (1 .. MaxU64) : u[2] <= Purses(w)[u[1]].amount}
    BY <1>1
  <1> QED
    BY <1>1, <1>2, <1>3 DEF UnitsHeld, StakedBy, StakeUnits

\* One token account is part of them.
LEMMA HeldByOne ==
    ASSUME NEW w \in [Owners -> Amounts], NEW o \in Owners
    PROVE  \E rest \in Nat :
              /\ UnitsHeld(w) = rest + w[o]
              /\ \A v \in [Owners -> Amounts] :
                    (\A x \in Owners \ {o} : v[x] = w[x]) => UnitsHeld(v) = rest + v[o]
  <1> DEFINE others == Owners \ {o}
             rest == StakedBy(Purses(w), others)
  <1>1. others \in SUBSET Owners /\ Owners \in SUBSET Owners
    OBVIOUS
  <1>2. rest \in Nat
    BY <1>1, HeldAreStakes, StakedIsNat
  <1>3. ASSUME NEW v \in [Owners -> Amounts], \A x \in Owners \ {o} : v[x] = w[x]
        PROVE  UnitsHeld(v) = rest + v[o]
    <2>1. /\ Purses(v) \in Positions /\ Purses(w) \in Positions
          /\ \A x \in Owners : Purses(v)[x].amount = v[x] /\ Purses(w)[x].amount = w[x]
      BY HeldAreStakes
    <2>2. StakedBy(Purses(v), others) = rest
      BY <1>1, <1>3, <2>1, StakedSame
    <2>3. StakedBy(Purses(v), Owners) = StakedBy(Purses(v), others) + v[o]
      BY <1>1, <2>1, StakedWithout
    <2> QED
      BY <2>2, <2>3, HeldAreStakes
  <1>4. UnitsHeld(w) = rest + w[o]
    BY <1>3
  <1> HIDE DEF rest
  <1> QED
    BY <1>2, <1>3, <1>4

\* Tokens that move between an account and the vault stay within the supply.
LEMMA SupplyMoves ==
    ASSUME WithinSupply, vault \in Nat, NEW o \in Owners, NEW n \in Nat,
           \/ n <= wallet[o] /\ wallet' = [wallet EXCEPT ![o] = @ - n] /\ vault' = vault + n
           \/ n <= vault /\ wallet' = [wallet EXCEPT ![o] = @ + n] /\ vault' = vault - n
    PROVE  WithinSupply'
  <1>1. wallet \in [Owners -> Amounts] /\ UnitsHeld(wallet) + vault <= MaxU64 /\ MaxU64 \in Nat
    BY NumbersAssumption DEF WithinSupply
  <1>2. PICK rest \in Nat :
           /\ UnitsHeld(wallet) = rest + wallet[o]
           /\ \A v \in [Owners -> Amounts] :
                 (\A x \in Owners \ {o} : v[x] = wallet[x]) => UnitsHeld(v) = rest + v[o]
    BY <1>1, HeldByOne
  <1>3. wallet[o] \in Nat /\ wallet[o] <= MaxU64
    BY <1>1 DEF Amounts
  <1>4. /\ wallet'[o] \in Nat
        /\ wallet'[o] + vault' = wallet[o] + vault /\ vault' \in Nat
        /\ \A x \in Owners \ {o} : wallet'[x] = wallet[x]
        /\ wallet' = [x \in Owners |-> wallet'[x]]
    <2>1. CASE n <= wallet[o] /\ wallet' = [wallet EXCEPT ![o] = @ - n] /\ vault' = vault + n
      <3>1. wallet'[o] = wallet[o] - n
        BY <1>1, <2>1
      <3>2. wallet'[o] \in Nat /\ wallet'[o] + vault' = wallet[o] + vault /\ vault' \in Nat
        BY <1>3, <2>1, <3>1
      <3> QED
        BY <1>1, <2>1, <3>2
    <2>2. CASE n <= vault /\ wallet' = [wallet EXCEPT ![o] = @ + n] /\ vault' = vault - n
      <3>1. wallet'[o] = wallet[o] + n
        BY <1>1, <2>2
      <3>2. wallet'[o] \in Nat /\ wallet'[o] + vault' = wallet[o] + vault /\ vault' \in Nat
        BY <1>3, <2>2, <3>1
      <3> QED
        BY <1>1, <2>2, <3>2
    <2> QED
      BY <2>1, <2>2
  <1>5. rest + wallet'[o] + vault' <= MaxU64
    BY <1>1, <1>2, <1>3, <1>4
  <1>6. wallet'[o] \in Amounts
    BY <1>1, <1>4, <1>5 DEF Amounts
  <1>7. wallet' \in [Owners -> Amounts]
    BY <1>1, <1>4, <1>6
  <1>8. UnitsHeld(wallet') = rest + wallet'[o]
    BY <1>2, <1>4, <1>7
  <1>9. UnitsHeld(wallet)' = UnitsHeld(wallet')
    BY DEF UnitsHeld
  <1> QED
    BY <1>5, <1>7, <1>8, <1>9 DEF WithinSupply

\* Every step of the page stays within it.
LEMMA SupplyStep ==
    ASSUME PageInv, WithinSupply, [PageNext]_pageVars
    PROVE  WithinSupply'
  <1>1. Coherent /\ SharesKeepRate
    BY DEF PageInv, IInv
  <1>2. vault \in Nat /\ Amounts \subseteq Nat /\ position \in [Owners -> PositionAccounts]
    BY <1>1, NumbersAssumption DEF Coherent, TypeOK, Amounts
  <1>3. ASSUME NEW o \in Owners, NEW side \in Sides, NEW amount \in Amounts,
               JoinPool(o, side, amount)
        PROVE  WithinSupply'
    <2>1. /\ amount <= wallet[o] /\ wallet' = [wallet EXCEPT ![o] = @ - amount]
          /\ vault' = vault + amount
      BY <1>2, <1>3 DEF JoinPool, JoinAccepted, WithinSupply
    <2> QED
      BY <1>2, <2>1, SupplyMoves
  <1>4. ASSUME NEW o \in Owners, Claim(o)
        PROVE  WithinSupply'
    <2> DEFINE n == Payout(pool, position[o].amount)
    <2>1. n \in Nat
      BY <1>1, <1>4, ClaimIsFair
    <2>2. vault >= n /\ wallet' = [wallet EXCEPT ![o] = @ + n] /\ vault' = vault - n
      BY <1>4 DEF Claim, ClaimAccepted
    <2> HIDE DEF n
    <2> QED
      BY <1>2, <2>1, <2>2, SupplyMoves
  <1>5. ASSUME NEW o \in Owners, Refund(o)
        PROVE  WithinSupply'
    <2> DEFINE n == position[o].amount
    <2>1. n \in Nat
      BY <1>2 DEF PositionAccounts
    <2>2. vault >= n /\ wallet' = [wallet EXCEPT ![o] = @ + n] /\ vault' = vault - n
      BY <1>5 DEF Refund, RefundAccepted
    <2> HIDE DEF n
    <2> QED
      BY <1>2, <2>1, <2>2, SupplyMoves
  <1>6. ASSUME UNCHANGED <<wallet, vault>>
        PROVE  WithinSupply'
    BY <1>6 DEF WithinSupply, UnitsHeld
  <1> QED
    BY <1>3, <1>4, <1>5, <1>6, PageStepOnChain DEF TokensMove, vars

\* A deposit out of a token account fits wherever it is added.
LEMMA DepositFits ==
    ASSUME Coherent, WithinSupply, pool.state = "Open", NEW o \in Owners, NEW side \in Sides,
           NEW amount \in 1 .. wallet[o]
    PROVE  /\ wallet[o] >= amount /\ amount > 0 /\ amount \in Nat
           /\ vault + amount <= MaxU64
           /\ pool.sideAmount[side] + amount <= MaxU64
           /\ pool.remainingPool + amount <= MaxU64
           /\ position[o].amount + amount <= MaxU64
  <1>1. wallet \in [Owners -> Amounts] /\ UnitsHeld(wallet) + vault <= MaxU64 /\ MaxU64 \in Nat
    BY NumbersAssumption DEF WithinSupply
  <1>2. PICK rest \in Nat : UnitsHeld(wallet) = rest + wallet[o]
    BY <1>1, HeldByOne
  <1>3. /\ wallet[o] \in Nat /\ vault \in Nat /\ pool.remainingPool \in Nat
        /\ pool.sideAmount["Yes"] \in Nat /\ pool.sideAmount["No"] \in Nat
        /\ position[o].amount \in Nat /\ position \in Positions
    BY <1>1 DEF Coherent, TypeOK, PoolAccounts, PositionAccounts, Positions, Amounts, Sides
  <1>4. wallet[o] >= amount /\ amount > 0 /\ amount \in Nat
    BY <1>3
  <1>5. vault + amount <= MaxU64
    BY <1>1, <1>2, <1>3, <1>4
  <1>6. pool.remainingPool <= vault
    BY DEF Coherent, VaultCovers
  <1>7. pool.remainingPool = pool.sideAmount["Yes"] + pool.sideAmount["No"]
    BY DEF Coherent, StageCoherent, Unresolved, Pot
  <1>8. pool.sideAmount[side] <= pool.remainingPool /\ pool.sideAmount[side] \in Nat
    BY <1>3, <1>7 DEF Sides
  <1>9. position[o].amount <= pool.remainingPool
    <2>1. StakedBy(position, Owners) = pool.remainingPool
      BY <1>7, PotIsAllStakes DEF Coherent, StakeOf, Pot
    <2>2. Owners \ {o} \in SUBSET Owners /\ Owners \in SUBSET Owners
      OBVIOUS
    <2>3. StakedBy(position, Owners) = StakedBy(position, Owners \ {o}) + position[o].amount
      BY <1>3, <2>2, StakedWithout
    <2>4. StakedBy(position, Owners \ {o}) \in Nat
      BY <1>3, <2>2, StakedIsNat
    <2> QED
      BY <1>3, <2>1, <2>3, <2>4
  <1> QED
    BY <1>1, <1>3, <1>4, <1>5, <1>6, <1>8, <1>9

-----------------------------------------------------------------------------
(* What the page offers                                                      *)

\* The accounts of the instructions that the page builds are those the program
\* asks for.
LEMMA AccountsAreAccepted ==
    ASSUME NEW owner, NEW action, NEW side, NEW amount
    PROVE  /\ AccountsAccepted(JoinPoolAccounts,
                               JoinPoolInstruction(Address, Asked.mint, owner, side, amount), Asked)
           /\ AccountsAccepted(PayoutAccounts,
                               PayoutInstruction(action, Address, Asked.mint, owner), Asked)
  <1> DEFINE mint == Asked.mint
             join == JoinPoolInstruction(Address, mint, owner, side, amount).keys
             payout == PayoutInstruction(action, Address, mint, owner).keys
             placed == Named(JoinPoolAccounts, join)
             paid == Named(PayoutAccounts, payout)
  <1>1. /\ Len(join) = 8 /\ join[1] = owner /\ join[2] = Address
        /\ join[3] = VaultAddress(Address) /\ join[4] = mint
        /\ join[5] = TokenAddress(mint, owner) /\ join[6] = PositionAddress(Address, owner)
        /\ join[7] = TokenProgram
    BY DEF JoinPoolInstruction
  <1>2. /\ Len(payout) = 7 /\ payout[1] = owner /\ payout[2] = Address
        /\ payout[3] = PositionAddress(Address, owner) /\ payout[4] = VaultAddress(Address)
        /\ payout[5] = mint /\ payout[6] = TokenAddress(mint, owner)
        /\ payout[7] = TokenProgram
    BY DEF PayoutInstruction
  <1>3. Len(JoinPoolAccounts) = 8 /\ Len(PayoutAccounts) = 7
    BY DEF JoinPoolAccounts, PayoutAccounts
  <1>4. Address = PoolAddress(Asked.creator, Asked.poolId)
    BY DEF Address
  <1> HIDE DEF mint, join, payout
  <1>5. /\ placed.owner = owner /\ placed.pool = Address /\ placed.vault = VaultAddress(Address)
        /\ placed.token_mint = mint /\ placed.tokens = TokenAddress(mint, owner)
        /\ placed.position = PositionAddress(Address, owner)
        /\ placed.token_program = TokenProgram
    BY <1>1, AccountsInPlace
  <1>6. /\ paid.owner = owner /\ paid.pool = Address /\ paid.vault = VaultAddress(Address)
        /\ paid.token_mint = mint /\ paid.tokens = TokenAddress(mint, owner)
        /\ paid.position = PositionAddress(Address, owner)
        /\ paid.token_program = TokenProgram
    BY <1>2, AccountsInPlace
  <1> HIDE DEF placed, paid
  <1>7. AccountsAccepted(JoinPoolAccounts,
                         JoinPoolInstruction(Address, mint, owner, side, amount), Asked)
    BY <1>1, <1>3, <1>4, <1>5 DEF AccountsAccepted, placed, join, mint
  <1>8. AccountsAccepted(PayoutAccounts, PayoutInstruction(action, Address, mint, owner), Asked)
    BY <1>2, <1>3, <1>4, <1>6 DEF AccountsAccepted, paid, payout, mint
  <1> QED
    BY <1>7, <1>8 DEF mint

\* The program accepts what the page would send when the pool does.
LEMMA SentIsAccepted ==
    ASSUME NEW action, NEW side, NEW amount,
           shown.pool.address = Address, shown.pool.mint = Asked.mint,
           shown.tokenAccountExists = (account \in tokenAccounts)
    PROVE  LET accepted == Accepts(WouldSend(action, side, amount)) IN
           /\ action = "claim" => (accepted <=> ClaimAccepted(account))
           /\ action = "refund" => (accepted <=> RefundAccepted(account))
           /\ action = "join" /\ side \in Sides
                 => (accepted <=> JoinAccepted(account, side, amount))
  <1> DEFINE t == WouldSend(action, side, amount)
             i == InstructionOf(t)
             key == WalletKey(account)
  <1>1. /\ t.action = action /\ t.owner = account /\ t.side = side /\ t.amount = amount
        /\ t.at = Address /\ t.mint = Asked.mint
        /\ t.createsTokens \/ t.owner \in tokenAccounts
    BY DEF WouldSend
  <1> HIDE DEF t
  <1>2. /\ action = "join" => i = JoinPoolInstruction(Address, Asked.mint, key, side, amount)
        /\ action # "join" => i = PayoutInstruction(action, Address, Asked.mint, key)
    BY <1>1 DEF InstructionOf
  <1>3. /\ action = "join" => AccountsAccepted(JoinPoolAccounts, i, Asked)
        /\ action # "join" => AccountsAccepted(PayoutAccounts, i, Asked)
    BY <1>2, AccountsAreAccepted
  <1>4. CASE action = "claim"
    BY <1>1, <1>3, <1>4 DEF Accepts, t
  <1>5. CASE action = "refund"
    BY <1>1, <1>3, <1>5 DEF Accepts, t
  <1>6. CASE action = "join" /\ side \in Sides
    <2>1. JoinArguments(i).ok /\ SideRead(t) = side /\ AmountRead(t) = amount
      BY <1>2, <1>6, DepositIsRead DEF SideRead, AmountRead
    <2> QED
      BY <1>1, <1>3, <1>6, <2>1 DEF Accepts, t
  <1> QED
    BY <1>4, <1>5, <1>6

\* A snapshot that is up to date tells what the pool and the position are.
LEMMA UpToDateTells ==
    ASSUME PageInv, OfferInv, UpToDate
    PROVE  LET q == position[account] IN
           /\ account \in Owners /\ q \in PositionAccounts
           /\ shown.pool.state = pool.state /\ shown.pool.cutoff = pool.cutoff
           /\ shown.pool.address = Address /\ shown.pool.mint = Asked.mint
           /\ MetadataVerified(shown.pool)
           /\ shown.tokenAccountExists = (account \in tokenAccounts)
           /\ shown.balance = wallet[account]
           /\ shown.position.ok <=> q.side # "None"
           /\ q.side # "None" => /\ shown.position.side = q.side
                                 /\ shown.position.claimed = q.claimed
                                 /\ shown.position.refunded = q.refunded
  <1> DEFINE q == position[account]
             key == WalletKey(account)
             decoded == DecodePosition(PositionAddress(Address, key), PositionData(Address, key, q))
             p == DecodePool(Address, PoolData(Terms, pool))
  <1>1. /\ shown # NoSnapshot /\ account # NoAccount /\ shown.owner = account
        /\ shown.asOf = <<pool, q>>
        /\ shown.tokenAccountExists = (account \in tokenAccounts)
        /\ shown.balance = wallet[account]
    BY DEF UpToDate, Rendered
  <1>2. account \in Owners
    BY <1>1, AccountsAssumption DEF PageInv, PageTypeOK
  <1>3. /\ pool \in PoolAccounts /\ pool.state # "Absent" /\ q \in PositionAccounts
    BY <1>2 DEF PageInv, IInv, Coherent, TypeOK
  <1>4. shown.asOf[1] = pool /\ shown.asOf[2] = q
    BY <1>1
  <1>5. /\ shown.pool = p /\ p.ok
        /\ shown.position = IF q.side = "None" THEN NoAccountThere ELSE decoded
    BY <1>1, <1>2, <1>4 DEF OfferInv, SnapshotIsRead
  <1>6. /\ p.state = pool.state /\ p.cutoff = pool.cutoff /\ p.address = Address
        /\ p.mint = Terms.mint /\ p.fixtureId = Terms.fixtureId
        /\ p.commitment = Terms.commitment /\ p.version = Terms.version
    BY <1>3, <1>5, PoolIsRead
  <1>7. /\ Terms.mint = Asked.mint /\ Terms.fixtureId = Asked.fixtureId
        /\ Terms.commitment = Asked.commitment /\ Terms.version = Asked.version
    BY TermsAreAsked DEF OfferInv
  <1>8. q.side # "None" => /\ decoded.ok = TRUE /\ decoded.side = q.side
                           /\ decoded.claimed = q.claimed /\ decoded.refunded = q.refunded
    BY <1>3, PositionIsRead
  <1>9. NoAccountThere.ok = FALSE
    BY DEF NoAccountThere
  <1> HIDE DEF q, decoded, p
  <1>10. MetadataVerified(shown.pool)
    BY <1>5, <1>6, <1>7 DEF MetadataVerified
  <1>11. /\ shown.position.ok <=> q.side # "None"
         /\ q.side # "None" => /\ shown.position.side = q.side
                               /\ shown.position.claimed = q.claimed
                               /\ shown.position.refunded = q.refunded
    BY <1>5, <1>8, <1>9
  <1> QED
    BY <1>1, <1>2, <1>3, <1>5, <1>6, <1>7, <1>10, <1>11 DEF q

\* Whoever is entitled to a payout has it offered and accepted.
LEMMA PayoutsOfferedAreAccepted ==
    ASSUME PageInv, OfferInv, UpToDate
    PROVE  /\ ClaimOffered(shown) <=> ClaimAccepted(account)
           /\ RefundOffered(shown) <=> RefundAccepted(account)
  <1> DEFINE q == position[account]
             n == Payout(pool, q.amount)
  <1>1. /\ account \in Owners /\ q \in PositionAccounts
        /\ shown.pool.state = pool.state
        /\ shown.position.ok <=> q.side # "None"
        /\ q.side # "None" => /\ shown.position.side = q.side
                              /\ shown.position.claimed = q.claimed
                              /\ shown.position.refunded = q.refunded
    BY UpToDateTells
  <1>2. Coherent
    BY DEF PageInv, IInv
  <1>3. /\ q.side = "None" <=> q.amount = 0
        /\ q.claimed => ~q.refunded /\ q.side # "None"
        /\ q.refunded => q.side # "None"
    BY <1>1, <1>2 DEF Coherent, PositionsCoherent, None
  <1>4. /\ q.side \in Sides \cup {"None"} /\ q.amount \in Nat
        /\ q.claimed \in BOOLEAN /\ q.refunded \in BOOLEAN
    BY <1>1, NumbersAssumption DEF PositionAccounts, Amounts, None
  <1>5. /\ vault \in Nat /\ pool.remainingPool \in Nat
    BY <1>2, NumbersAssumption DEF Coherent, TypeOK, PoolAccounts, Amounts
  <1> HIDE DEF n
  <1>6. ClaimOffered(shown) => ClaimAccepted(account)
    <2> SUFFICES ASSUME ClaimOffered(shown) PROVE ClaimAccepted(account)
      OBVIOUS
    <2>1. /\ pool.state \in Settled /\ pool.state = SettledFor(q.side)
          /\ q.side # None /\ ~q.claimed /\ q.side \in Sides
      BY <1>1, <1>4 DEF ClaimOffered, Unpaid, Settled, None
    <2>2. /\ Claimable(pool, q) /\ vault >= n /\ VaultCovers(pool)
          /\ pool.remainingWinning = q.amount => pool.remainingPool = n
      BY <1>1, <1>2, <2>1, EntitledPass DEF NobodyStranded, n
    <2>3. n \in Nat /\ n <= pool.remainingPool
      BY <1>1, <1>2, <2>1, WinnersPayout DEF n
    <2>4. pool.remainingPool >= n
      BY <1>5, <2>3
    <2> QED
      BY <2>2, <2>4 DEF ClaimAccepted, n
  <1>7. ClaimAccepted(account) => ClaimOffered(shown)
    <2> SUFFICES ASSUME Claimable(pool, q) PROVE ClaimOffered(shown)
      BY DEF ClaimAccepted
    <2> QED
      BY <1>1 DEF Claimable, ClaimOffered, Unpaid, Settled, None
  <1>8. RefundOffered(shown) => RefundAccepted(account)
    <2> SUFFICES ASSUME RefundOffered(shown) PROVE RefundAccepted(account)
      OBVIOUS
    <2>1. pool.state = "Cancelled" /\ q.side # None /\ ~q.refunded
      BY <1>1 DEF RefundOffered, Unpaid, None
    <2>2. Refundable(pool, q) /\ VaultCovers(pool)
      BY <1>1, <1>2, <2>1, EntitledPass DEF NobodyStranded
    <2>3. vault >= q.amount
      BY <1>4, <1>5, <2>2 DEF Refundable, VaultCovers
    <2> QED
      BY <2>2, <2>3 DEF RefundAccepted
  <1>9. RefundAccepted(account) => RefundOffered(shown)
    <2> SUFFICES ASSUME Refundable(pool, q) PROVE RefundOffered(shown)
      BY DEF RefundAccepted
    <2>1. pool.state = "Cancelled" /\ ~q.claimed /\ ~q.refunded /\ q.amount # 0
      BY <1>4 DEF Refundable
    <2> QED
      BY <1>1, <1>3, <2>1 DEF RefundOffered, Unpaid
  <1> QED
    BY <1>6, <1>7, <1>8, <1>9

\* A deposit out of the token account is offered on a side when it is accepted.
LEMMA DepositsOfferedAreAccepted ==
    ASSUME PageInv, OfferInv, UpToDate, NEW side \in Sides, NEW amount \in 1 .. wallet[account]
    PROVE  JoinOffered(shown, side, clock) <=> JoinAccepted(account, side, amount)
  <1> DEFINE q == position[account]
  <1>1. /\ account \in Owners /\ q \in PositionAccounts
        /\ shown.pool.state = pool.state /\ shown.pool.cutoff = pool.cutoff
        /\ MetadataVerified(shown.pool)
        /\ shown.position.ok <=> q.side # "None"
        /\ q.side # "None" => /\ shown.position.side = q.side
                              /\ shown.position.claimed = q.claimed
                              /\ shown.position.refunded = q.refunded
    BY UpToDateTells
  <1>2. Coherent /\ WithinSupply
    BY DEF PageInv, IInv, OfferInv
  <1>3. q.side = "None" => ~q.claimed /\ ~q.refunded
    BY <1>1, <1>2 DEF Coherent, PositionsCoherent, None
  <1>4. AcceptsDeposits(pool) => /\ wallet[account] >= amount /\ amount > 0
                                 /\ vault + amount <= MaxU64
                                 /\ pool.sideAmount[side] + amount <= MaxU64
                                 /\ pool.remainingPool + amount <= MaxU64
                                 /\ q.amount + amount <= MaxU64
    BY <1>1, <1>2, DepositFits DEF AcceptsDeposits
  <1>5. JoinOffered(shown, side, clock) <=>
           /\ AcceptsDeposits(pool)
           /\ q.side # "None" => q.side = side /\ ~q.claimed /\ ~q.refunded
    BY <1>1 DEF JoinOffered, AcceptsDeposits, Unpaid
  <1>6. JoinAccepted(account, side, amount) <=>
           /\ AcceptsDeposits(pool)
           /\ q.side \in {"None", side} /\ ~q.claimed /\ ~q.refunded
    BY <1>4 DEF JoinAccepted, None
  <1> QED
    BY <1>3, <1>5, <1>6

\* So an up-to-date page offers what the program accepts.
LEMMA OffersAreRight == PageInv /\ OfferInv => OffersWhatTheProgramAccepts
  <1> SUFFICES ASSUME PageInv, OfferInv, UpToDate
               PROVE  /\ ClaimOffered(shown) <=> Accepts(WouldSend("claim", "None", 0))
                      /\ RefundOffered(shown) <=> Accepts(WouldSend("refund", "None", 0))
                      /\ \A side \in Sides, amount \in 1 .. shown.balance :
                            JoinOffered(shown, side, clock)
                               <=> Accepts(WouldSend("join", side, amount))
    BY DEF OffersWhatTheProgramAccepts
  <1>1. /\ shown.pool.address = Address /\ shown.pool.mint = Asked.mint
        /\ shown.tokenAccountExists = (account \in tokenAccounts)
        /\ shown.balance = wallet[account]
    BY UpToDateTells
  <1>2. \A action, side, amount :
           LET accepted == Accepts(WouldSend(action, side, amount)) IN
           /\ action = "claim" => (accepted <=> ClaimAccepted(account))
           /\ action = "refund" => (accepted <=> RefundAccepted(account))
           /\ action = "join" /\ side \in Sides
                 => (accepted <=> JoinAccepted(account, side, amount))
    BY <1>1, SentIsAccepted
  <1>3. ClaimOffered(shown) <=> Accepts(WouldSend("claim", "None", 0))
    BY <1>2, PayoutsOfferedAreAccepted
  <1>4. RefundOffered(shown) <=> Accepts(WouldSend("refund", "None", 0))
    BY <1>2, PayoutsOfferedAreAccepted
  <1>5. ASSUME NEW side \in Sides, NEW amount \in 1 .. shown.balance
        PROVE  JoinOffered(shown, side, clock) <=> Accepts(WouldSend("join", side, amount))
    <2>1. JoinOffered(shown, side, clock) <=> JoinAccepted(account, side, amount)
      BY <1>1, DepositsOfferedAreAccepted
    <2> QED
      BY <1>2, <2>1
  <1> QED
    BY <1>3, <1>4, <1>5

\* What is shown has been read whole.
LEMMA SnapshotReadStep ==
    ASSUME PageInv, SnapshotIsRead, [PageNext]_pageVars
    PROVE  SnapshotIsRead'
  <1>1. CASE ReadOwner
    <2> DEFINE owner == reading.owner
               p == reading.pool
               q == position[owner]
    <2>1. CASE owner = NoAccount
      <3>1. \/ shown' = Unconnected(p) /\ Unconnected(p).pool.ok
            \/ shown' = NoSnapshot
        BY <1>1, <2>1 DEF ReadOwner
      <3>2. /\ Unconnected(p).owner \notin Owners
            /\ Unconnected(p).pool = DecodePool(Address, PoolData(Terms, p))
            /\ Unconnected(p).asOf[1] = p
        BY AccountsAssumption DEF Unconnected
      <3> QED
        BY <3>1, <3>2 DEF SnapshotIsRead
    <2>2. CASE owner # NoAccount
      <3>1. \/ shown' = Snapshot(owner, p, q) /\ Snapshot(owner, p, q).pool.ok
            \/ shown' = NoSnapshot
        BY <1>1, <2>2 DEF ReadOwner
      <3>2. /\ Snapshot(owner, p, q).owner = owner
            /\ Snapshot(owner, p, q).pool = DecodePool(Address, PoolData(Terms, p))
            /\ Snapshot(owner, p, q).position =
                  IF q.side = "None" THEN NoAccountThere
                  ELSE DecodePosition(PositionAddress(Address, WalletKey(owner)),
                                      PositionData(Address, WalletKey(owner), q))
            /\ Snapshot(owner, p, q).asOf[1] = p /\ Snapshot(owner, p, q).asOf[2] = q
        BY DEF Snapshot
      <3> QED
        BY <3>1, <3>2 DEF SnapshotIsRead
    <2> QED
      BY <2>1, <2>2
  <1>2. CASE ~ReadOwner
    <2>1. shown' = shown \/ shown' = NoSnapshot
      BY <1>2, PageStepKinds DEF StartReading, ReadPool, ReadFails, Refresh, SwitchAccount,
                                 Confirm, snapshots
    <2> QED
      BY <2>1 DEF SnapshotIsRead
  <1> QED
    BY <1>1, <1>2

\* It holds when the page is opened ...
LEMMA OfferInitInv == PageInit => OfferInv
  <1> SUFFICES ASSUME PageInit PROVE OfferInv
    OBVIOUS
  <1>1. PICK stakes \in Openings : vault = StakedOn(stakes, Sides)
    BY DEF PageInit
  <1>2. wallet = Endowment /\ shown = NoSnapshot /\ Terms.ok
    BY DEF PageInit
  <1>3. WithinSupply
    BY <1>1, <1>2, SupplyAssumption DEF WithinSupply
  <1>4. SnapshotIsRead
    BY <1>2 DEF SnapshotIsRead
  <1> QED
    BY <1>2, <1>3, <1>4 DEF OfferInv

\* ... and every step keeps it.
LEMMA OfferInvInduction == PageInv /\ OfferInv /\ [PageNext]_pageVars => OfferInv'
  <1> SUFFICES ASSUME PageInv, OfferInv, [PageNext]_pageVars PROVE OfferInv'
    OBVIOUS
  <1>1. SnapshotIsRead' /\ WithinSupply'
    BY SnapshotReadStep, SupplyStep DEF OfferInv
  <1> QED
    BY <1>1 DEF OfferInv

-----------------------------------------------------------------------------
(* Theorems                                                                  *)

\* Whatever the chain, the wallet and the user do in between, what the page has
\* read and what it has asked for stand.
THEOREM PageInvariant == PageSpec => []PageInv
  BY PageInitInv, PageInvInduction, PTL DEF PageSpec

\* An up-to-date page shows the result of every action it reported confirmed.
THEOREM PageShowsWhatItConfirmed == PageSpec => []ShowsWhatItConfirmed
  <1>1. PageInv => ShowsWhatItConfirmed
    <2> SUFFICES ASSUME PageInv, loadState = "ready", ~due, reading = NotReading,
                        shown.owner = account, NEW i \in 1 .. MaxTransactions,
                        tx[i].page = "confirmed", tx[i].owner = account
                 PROVE  LET t == tx[i] IN
                        /\ shown.position.ok
                        /\ shown.position.amount >= t.staked
                        /\ shown.pool.yes + shown.pool.no >= t.pot
                        /\ t.action = "claim" => shown.position.claimed
                        /\ t.action = "refund" => shown.position.refunded
                        /\ t.action # "join" => shown.pool.remainingPool <= t.rest
      BY DEF ShowsWhatItConfirmed
    <2>1. reading.stage = "none"
      BY DEF NotReading
    <2>2. SnapshotShows(shown, tx[i])
      BY <2>1 DEF PageInv, Fresh
    <2> QED
      BY <2>2 DEF SnapshotShows, PoolShows
  <1> QED
    BY <1>1, PageInvariant, PTL

\* A payout is never below the amount on the button, however old the snapshot
\* was, and exactly that if nobody was paid in between; a refund always is.
THEOREM PagePaysWhatItShowed == PageSpec => PaysWhatItShowed
  <1> DEFINE Paid ==
               \A i \in 1 .. MaxTransactions :
                  LET t == tx[i] paid == wallet'[t.owner] - wallet[t.owner] IN
                  t.chain = "pending" /\ tx'[i].chain = "landed" /\ t.own =>
                     /\ t.action \in {"claim", "refund"} => paid >= t.quoted
                     /\ t.action = "claim" /\ t.books = pool.remainingPool => paid = t.quoted
                     /\ t.action = "refund" => paid = t.quoted
  <1>1. PageInv /\ [PageNext]_pageVars => [Paid]_pageVars
    <2> SUFFICES ASSUME PageInv, PageNext, NEW i \in 1 .. MaxTransactions,
                        tx[i].chain = "pending", tx'[i].chain = "landed", tx[i].own
                 PROVE  LET t == tx[i] paid == wallet'[t.owner] - wallet[t.owner] IN
                        /\ t.action \in {"claim", "refund"} => paid >= t.quoted
                        /\ t.action = "claim" /\ t.books = pool.remainingPool => paid = t.quoted
                        /\ t.action = "refund" => paid = t.quoted
      OBVIOUS
    <2>1. IntentStands(tx[i], pool, position)
      BY StagesTell DEF PageInv
    <2>2. Executes(tx[i])
      BY LandsByItself
    <2> QED
      BY <2>1, <2>2, LandPays DEF PageInv
  <1>2. [Paid]_pageVars =>
           [\A i \in 1 .. MaxTransactions :
               LET t == tx[i] paid == wallet'[t.owner] - wallet[t.owner] IN
               t.chain = "pending" /\ tx'[i].chain = "landed" /\ t.own =>
                  /\ t.action \in {"claim", "refund"} => paid >= t.quoted
                  /\ t.action = "claim" /\ t.books = pool.remainingPool => paid = t.quoted
                  /\ t.action = "refund" => paid = t.quoted]_pageVars
    OBVIOUS
  <1> QED
    BY <1>1, <1>2, PageInvariant, PTL DEF PageSpec, PaysWhatItShowed

\* What the page has read stands, is read whole, and the tokens of the mint fit.
THEOREM OfferInvariant == PageSpec => []OfferInv
  BY PageInvariant, OfferInitInv, OfferInvInduction, PTL DEF PageSpec

\* As long as its snapshot is that of the chain and its clock is right, the page
\* offers a claim, a refund or a deposit exactly when the program accepts it.
THEOREM PageOffersWhatIsAccepted == PageSpec => []OffersWhatTheProgramAccepts
  BY OffersAreRight, PageInvariant, OfferInvariant, PTL
=============================================================================
