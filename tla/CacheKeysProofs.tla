-------------------------- MODULE CacheKeysProofs ---------------------------
(***************************************************************************)
(* Every layout is loaded as it was written or refused, and the blocks of  *)
(* its files are named, partitioned and dealt to the shards as they should *)
(* be: for all layouts, keys and sizes.                                    *)
(***************************************************************************)
EXTENDS CacheKeys, TLAPS

Objects == Seq(Seq(STRING \X Int))
Files ==
  [sst_id : Nat, level : Int, num_keys : Int, min_key : Int, max_key : Int]

(* The record that is being filled, when the first m fields of its object have
   been read. *)
Filling(m) ==
  LET number(name) == LastOf(layout[Len(out) + 1], m, name)
  IN  /\ Len(out) < Len(layout)
      /\ m \in 0..Len(layout[Len(out) + 1])
      /\ s \in Files /\ size_bytes \in Int
      /\ size_bytes = number("size")
      /\ s = [sst_id |-> Len(out), level |-> AsInt(number("level")), num_keys |-> 0,
              min_key |-> number("min_key"), max_key |-> number("max_key")]

(* At column c of the running object, with m of its fields read and another
   one to come. *)
InField(m, c) ==
  /\ Filling(m)
  /\ m < Len(layout[Len(out) + 1])
  /\ pos_ = <<Len(out) + 1, c>>

AtName ==
  \/ \E m \in Nat : InField(m, 4 * m + 2)
  \/ Filling(0) /\ layout[Len(out) + 1] = <<>> /\ pos_ = <<Len(out) + 1, 2>>
AtColon ==
  \E m \in Nat : InField(m, 4 * m + 3) /\ key = layout[Len(out) + 1][m + 1][1]
AtNumber ==
  \E m \in Nat : InField(m, 4 * m + 4) /\ key = layout[Len(out) + 1][m + 1][1]
AfterField ==
  \E m \in Nat \ {0} : Filling(m) /\ pos_ = <<Len(out) + 1, 4 * m + 1>>
AtFile == Len(out) < Len(layout) /\ pos_ = <<Len(out) + 1, 1>>
AfterFile == out # <<>> /\ pos_ = <<Len(out), Width(layout, Len(out))>>
AtFirst ==
  out = <<>> /\ pos_ = IF layout = <<>> THEN <<0, 2>> ELSE <<1, 1>>

Where ==
  /\ pc = "[" => out = <<>> /\ pos_ = <<0, 1>>
  /\ pc = "{ or ]" => AtFirst
  /\ pc = "{" => AtFile
  /\ pc = "name" => AtName
  /\ pc = ":" => AtColon
  /\ pc = "number" => AtNumber
  /\ pc = ", or }" => AfterField
  /\ pc = ", or ]" => AfterFile
  /\ pc = "loaded" => ~cut /\ Len(out) = Len(layout)
  /\ pc = "refused" => cut \/ \E n \in DOMAIN layout : layout[n] = <<>>

ReadSoFar ==
  /\ layout \in Layouts
  /\ cut \in BOOLEAN
  /\ out \in Seq(Files)
  /\ Len(out) <= Len(layout)
  /\ out = [n \in 1..Len(out) |-> Meant(n)]

LoaderInv == ReadSoFar /\ Where

-----------------------------------------------------------------------------
(* A cast to int is an integer, and leaves 0 as it is. *)
LEMMA AsIntType ==
  /\ \A n \in Int : AsInt(n) \in Int
  /\ AsInt(0) = 0
<1>1. PICK w \in Nat : w = IntWidth /\ w >= 1
  BY LayoutAssumption
<1>2. w \div 2 \in Nat /\ w \div 2 < w
  BY <1>1
<1>3. ASSUME NEW n \in Int
      PROVE  AsInt(n) \in Int
  <2>1. (n + w \div 2) % w \in Int
    BY <1>1, <1>2
  <2> QED
    BY <1>1, <1>2, <2>1 DEF AsInt
<1>4. AsInt(0) = 0
  <2>1. PICK h \in Nat : h = w \div 2 /\ h < w
    BY <1>2
  <2>2. (0 + h) % w = h
    BY <1>1, <2>1
  <2> QED
    BY <1>1, <2>1, <2>2 DEF AsInt
<1> QED
  BY <1>3, <1>4

(* What the last number of a name is after one more field. *)
LEMMA LastOfFields ==
  ASSUME NEW fields \in Seq(STRING \X Int), NEW name
  PROVE  /\ LastOf(fields, 0, name) = 0
         /\ \A m \in Nat : m < Len(fields) =>
              LastOf(fields, m + 1, name) =
                IF fields[m + 1][1] = name THEN fields[m + 1][2]
                ELSE LastOf(fields, m, name)
<1> DEFINE at(m) == {i \in 1..m : fields[i][1] = name}
           top(m) == CHOOSE i \in at(m) : \A j \in at(m) : j <= i
<1>0. \A m : LastOf(fields, m, name) = IF at(m) = {} THEN 0 ELSE fields[top(m)][2]
  BY Zenon DEF LastOf
<1>1. LastOf(fields, 0, name) = 0
  <2>1. at(0) = {}
    OBVIOUS
  <2> QED
    BY <1>0, <2>1, Zenon
<1>2. ASSUME NEW m \in Nat, m < Len(fields)
      PROVE  LastOf(fields, m + 1, name) =
               IF fields[m + 1][1] = name THEN fields[m + 1][2]
               ELSE LastOf(fields, m, name)
  <2>1. CASE fields[m + 1][1] = name
    <3>1. m + 1 \in at(m + 1) /\ \A j \in at(m + 1) : j <= m + 1
      BY <2>1
    <3>2. \A i \in at(m + 1) : (\A j \in at(m + 1) : j <= i) => i = m + 1
      BY <3>1
    <3>3. top(m + 1) = m + 1
      <4> DEFINE best(i) == \A j \in at(m + 1) : j <= i
      <4>1. best(m + 1) /\ \A i \in at(m + 1) : best(i) => i = m + 1
        BY <3>1, <3>2
      <4> HIDE DEF best, at
      <4>2. (CHOOSE i \in at(m + 1) : best(i)) = m + 1
        BY <4>1, <3>1
      <4> QED
        BY <4>2 DEF best, top
    <3>4. at(m + 1) # {}
      BY <3>1
    <3> HIDE DEF at, top
    <3> QED
      BY <1>0, <2>1, <3>3, <3>4, Zenon
  <2>2. CASE fields[m + 1][1] # name
    <3>1. at(m + 1) = at(m)
      BY <2>2
    <3>2. top(m + 1) = top(m)
      BY <3>1, Zenon
    <3> HIDE DEF at, top
    <3> QED
      BY <1>0, <2>2, <3>1, <3>2, Zenon
  <2> QED
    BY <2>1, <2>2
<1> QED
  BY <1>1, <1>2

(* The text at the places where the loader may be. *)
LEMMA TextOfFields ==
  ASSUME NEW objects \in Objects, NEW n \in 1..Len(objects), NEW m \in Nat,
         m < Len(objects[n])
  PROVE  LET field == objects[n][m + 1]
         IN  /\ TextAt(objects, n, 4 * m + 2)[1] = "string"
             /\ TextAt(objects, n, 4 * m + 2)[2] = field[1]
             /\ TextAt(objects, n, 4 * m + 3)[1] = ":"
             /\ TextAt(objects, n, 4 * m + 4)[1] = "number"
             /\ TextAt(objects, n, 4 * m + 4)[2] = field[2]
             /\ TextAt(objects, n, 4 * m + 5)[1] =
                  IF m + 1 = Len(objects[n]) THEN "}" ELSE ","
             /\ 4 * m + 5 < Width(objects, n)
             /\ field \in STRING \X Int
<1> DEFINE fields == objects[n]
<1>1. fields \in Seq(STRING \X Int) /\ Len(fields) \in Nat /\ fields # <<>>
  BY DEF Objects
<1>2. n # 0 /\ Width(objects, n) = 4 * Len(fields) + 2
  BY <1>1 DEF Width
<1>3. ASSUME NEW j \in 0..3
      PROVE  TextAt(objects, n, 4 * m + 2 + j) = FieldTokens(fields, m + 1)[j + 1]
  <2>1. 4 * m + 2 + j # Width(objects, n) /\ 4 * m + 2 + j # 1
    BY <1>1, <1>2
  <2>2. (4 * m + 2 + j - 2) \div 4 = m /\ (4 * m + 2 + j - 2) % 4 = j
    OBVIOUS
  <2>3. TextAt(objects, n, 4 * m + 2 + j) = ObjectToken(fields, 4 * m + 2 + j)
    BY <1>2, <2>1 DEF TextAt
  <2> HIDE DEF fields
  <2>4. ASSUME NEW c, c # 1
        PROVE  ObjectToken(fields, c) =
                 FieldTokens(fields, (c - 2) \div 4 + 1)[((c - 2) % 4) + 1]
    BY <1>1, <2>4, Zenon DEF ObjectToken
  <2> QED
    BY <2>1, <2>2, <2>3, <2>4
<1> HIDE DEF fields
<1>4. /\ FieldTokens(fields, m + 1)[1][1] = "string"
      /\ FieldTokens(fields, m + 1)[1][2] = fields[m + 1][1]
      /\ FieldTokens(fields, m + 1)[2][1] = ":"
      /\ FieldTokens(fields, m + 1)[3][1] = "number"
      /\ FieldTokens(fields, m + 1)[3][2] = fields[m + 1][2]
      /\ FieldTokens(fields, m + 1)[4][1] = IF m + 1 = Len(fields) THEN "}" ELSE ","
  BY DEF FieldTokens
<1>5. /\ TextAt(objects, n, 4 * m + 2) = FieldTokens(fields, m + 1)[1]
      /\ TextAt(objects, n, 4 * m + 3) = FieldTokens(fields, m + 1)[2]
      /\ TextAt(objects, n, 4 * m + 4) = FieldTokens(fields, m + 1)[3]
      /\ TextAt(objects, n, 4 * m + 5) = FieldTokens(fields, m + 1)[4]
  <2>1. /\ 4 * m + 2 + 0 = 4 * m + 2 /\ 4 * m + 2 + 1 = 4 * m + 3
        /\ 4 * m + 2 + 2 = 4 * m + 4 /\ 4 * m + 2 + 3 = 4 * m + 5
        /\ 0 + 1 = 1 /\ 1 + 1 = 2 /\ 2 + 1 = 3 /\ 3 + 1 = 4
        /\ 0 \in 0..3 /\ 1 \in 0..3 /\ 2 \in 0..3 /\ 3 \in 0..3
    OBVIOUS
  <2>2. TextAt(objects, n, 4 * m + 2 + 0) = FieldTokens(fields, m + 1)[0 + 1]
    BY <1>3, <2>1
  <2>3. TextAt(objects, n, 4 * m + 2 + 1) = FieldTokens(fields, m + 1)[1 + 1]
    BY <1>3, <2>1
  <2>4. TextAt(objects, n, 4 * m + 2 + 2) = FieldTokens(fields, m + 1)[2 + 1]
    BY <1>3, <2>1
  <2>5. TextAt(objects, n, 4 * m + 2 + 3) = FieldTokens(fields, m + 1)[3 + 1]
    BY <1>3, <2>1
  <2> QED
    BY <2>1, <2>2, <2>3, <2>4, <2>5, Zenon
<1>6. 4 * m + 5 < Width(objects, n) /\ fields[m + 1] \in STRING \X Int
  BY <1>1, <1>2 DEF fields
<1> QED
  BY <1>4, <1>5, <1>6, Zenon DEF fields

LEMMA TextOfBrackets ==
  ASSUME NEW objects \in Objects
  PROVE  /\ TextAt(objects, 0, 1)[1] = "[" /\ TextAt(objects, 0, 2)[1] = "]"
         /\ Width(objects, 0) = IF objects = <<>> THEN 2 ELSE 1
         /\ \A n \in 1..Len(objects) :
              /\ Width(objects, n) \in Nat /\ Width(objects, n) > 2
              /\ TextAt(objects, n, 1)[1] = "{"
              /\ TextAt(objects, n, Width(objects, n))[1] =
                   IF n = Len(objects) THEN "]" ELSE ","
              /\ objects[n] = <<>> => TextAt(objects, n, 2)[1] = "}"
<1>1. /\ <<"[">>[1] = "[" /\ <<"]">>[1] = "]" /\ <<"{">>[1] = "{"
      /\ <<"}">>[1] = "}" /\ <<",">>[1] = ","
  OBVIOUS
<1>2. /\ TextAt(objects, 0, 1) = <<"[">> /\ TextAt(objects, 0, 2) = <<"]">>
      /\ Width(objects, 0) = IF objects = <<>> THEN 2 ELSE 1
  BY DEF TextAt, Width
<1>3. ASSUME NEW n \in 1..Len(objects)
      PROVE  /\ Width(objects, n) \in Nat /\ Width(objects, n) > 2
             /\ TextAt(objects, n, 1)[1] = "{"
             /\ TextAt(objects, n, Width(objects, n))[1] =
                  IF n = Len(objects) THEN "]" ELSE ","
             /\ objects[n] = <<>> => TextAt(objects, n, 2)[1] = "}"
  <2>1. objects[n] \in Seq(STRING \X Int) /\ n # 0
    BY DEF Objects
  <2>2. Width(objects, n) \in Nat /\ Width(objects, n) > 2
    BY <2>1 DEF Width
  <2>3. 1 # Width(objects, n) /\ 2 # Width(objects, n) /\ 2 # 1
    BY <2>2
  <2>4. TextAt(objects, n, 1) = <<"{">>
    BY <2>1, <2>3, Zenon DEF TextAt, ObjectToken
  <2>5. TextAt(objects, n, Width(objects, n)) =
          IF n = Len(objects) THEN <<"]">> ELSE <<",">>
    BY <2>1, Zenon DEF TextAt
  <2>6. objects[n] = <<>> => TextAt(objects, n, 2) = <<"}">>
    BY <2>1, <2>3, Zenon DEF TextAt, ObjectToken
  <2>7. TextAt(objects, n, Width(objects, n))[1] =
          IF n = Len(objects) THEN "]" ELSE ","
    BY <1>1, <2>5, Zenon
  <2> QED
    BY <1>1, <2>2, <2>4, <2>6, <2>7, Zenon
<1>4. TextAt(objects, 0, 1)[1] = "[" /\ TextAt(objects, 0, 2)[1] = "]"
  BY <1>1, <1>2, Zenon
<1> QED
  BY <1>2, <1>3, <1>4, Zenon

-----------------------------------------------------------------------------
LEMMA Shape ==
  ASSUME NEW objects \in Objects
  PROVE  /\ Len(objects) \in Nat
         /\ objects = <<>> <=> Len(objects) = 0
         /\ \A n \in 1..Len(objects) :
              /\ objects[n] \in Seq(STRING \X Int) /\ Len(objects[n]) \in Nat
              /\ objects[n] = <<>> <=> Len(objects[n]) = 0
<1>1. Len(objects) \in Nat /\ (objects = <<>> <=> Len(objects) = 0)
  BY DEF Objects
<1>2. ASSUME NEW n \in 1..Len(objects)
      PROVE  objects[n] \in Seq(STRING \X Int)
  BY DEF Objects
<1>3. ASSUME NEW fields \in Seq(STRING \X Int)
      PROVE  Len(fields) \in Nat /\ (fields = <<>> <=> Len(fields) = 0)
  OBVIOUS
<1> QED
  BY <1>1, <1>2, <1>3

LEMMA ReadFacts ==
  ASSUME ReadSoFar
  PROVE  /\ layout \in Objects /\ Len(layout) \in Nat
         /\ out \in Seq(Files) /\ Len(out) \in Nat /\ Len(out) <= Len(layout)
<1>1. layout \in Objects
  BY LayoutAssumption DEF ReadSoFar, Objects
<1>2. out \in Seq(Files) /\ Len(out) <= Len(layout)
  BY Zenon DEF ReadSoFar
<1>3. Len(out) \in Nat
  BY <1>2
<1> QED
  BY <1>1, <1>2, <1>3, Shape

LEMMA TakeFacts ==
  ASSUME NEW at, NEW kind, NEW then, Take(at, kind, then), kind # "", ReadSoFar
  PROVE  /\ pc = at /\ pc' = then /\ UNCHANGED <<layout, cut>>
         /\ cut = FALSE
         /\ layout \in Objects
         /\ \A n, c : pos_ = <<n, c>> =>
              /\ token = TextAt(layout, n, c) /\ TextAt(layout, n, c)[1] = kind
              /\ pos_' = IF c < Width(layout, n) THEN <<n, c + 1>> ELSE <<n + 1, 1>>
<1>1. pc = at /\ pc' = then /\ layout' = layout /\ cut' = cut /\ token[1] = kind
  BY DEF Take, document
<1>2. <<"">>[1] = ""
  OBVIOUS
<1>3. ~cut /\ ~AtEnd
  BY <1>1, <1>2 DEF token
<1>4. token = TextAt(layout, pos_[1], pos_[2])
  BY <1>3 DEF token
<1>5. cut = FALSE
  BY <1>3 DEF ReadSoFar
<1>6. layout \in Objects
  BY LayoutAssumption DEF ReadSoFar, Objects
<1>7. ASSUME NEW n, NEW c, pos_ = <<n, c>>
      PROVE  /\ token = TextAt(layout, n, c) /\ TextAt(layout, n, c)[1] = kind
             /\ pos_' = IF c < Width(layout, n) THEN <<n, c + 1>> ELSE <<n + 1, 1>>
  <2>1. pos_[1] = n /\ pos_[2] = c
    BY <1>7
  <2>2. pos_' = IF pos_[2] < Width(layout, pos_[1]) THEN <<pos_[1], pos_[2] + 1>>
                ELSE <<pos_[1] + 1, 1>>
    BY Zenon DEF Take
  <2> QED
    BY <1>1, <1>4, <2>1, <2>2, Zenon
<1> QED
  BY <1>1, <1>5, <1>6, <1>7, Zenon

(* What has been read stays as it was while the array of files and the
   record that is being filled do. *)
LEMMA SameFiles ==
  ASSUME ReadSoFar, layout' = layout, cut' = cut, out' = out
  PROVE  ReadSoFar'
BY DEF ReadSoFar, Meant

LEMMA SameRecord ==
  ASSUME NEW m, Filling(m), UNCHANGED <<layout, out, s, size_bytes>>
  PROVE  Filling(m)'
BY DEF Filling

LEMMA NewRecord ==
  ASSUME NEW m, UNCHANGED <<layout, out>>,
         Len(out) < Len(layout), m \in 0..Len(layout[Len(out) + 1]),
         s' \in Files, size_bytes' \in Int,
         size_bytes' = LastOf(layout[Len(out) + 1], m, "size"),
         s' = [sst_id |-> Len(out),
               level |-> AsInt(LastOf(layout[Len(out) + 1], m, "level")),
               num_keys |-> 0,
               min_key |-> LastOf(layout[Len(out) + 1], m, "min_key"),
               max_key |-> LastOf(layout[Len(out) + 1], m, "max_key")]
  PROVE  Filling(m)'
<1>1. layout' = layout /\ out' = out
  OBVIOUS
<1> QED
  BY <1>1, Zenon DEF Filling

LEMMA OpenArrayStep == LoaderInv /\ OpenArray => LoaderInv'
<1> SUFFICES ASSUME LoaderInv, OpenArray PROVE LoaderInv'
  OBVIOUS
<1>1. ReadSoFar /\ Where /\ Take("[", "[", "{ or ]") /\ out' = out
  BY DEF LoaderInv, OpenArray
<1>2. /\ pc = "[" /\ pc' = "{ or ]" /\ UNCHANGED <<layout, cut>>
      /\ layout \in Objects
  BY <1>1, TakeFacts
<1>text. \A l, c : pos_ = <<l, c>> =>
        /\ TextAt(layout, l, c)[1] = "["
        /\ pos_' = IF c < Width(layout, l) THEN <<l, c + 1>> ELSE <<l + 1, 1>>
  BY <1>1, TakeFacts
<1>3. out = <<>> /\ pos_ = <<0, 1>>
  BY <1>1, <1>2 DEF Where
<1>4. pos_' = IF layout = <<>> THEN <<0, 2>> ELSE <<1, 1>>
  <2>1. pos_' = IF 1 < Width(layout, 0) THEN <<0, 1 + 1>> ELSE <<0 + 1, 1>>
    BY <1>3, <1>text, Zenon
  <2>2. Width(layout, 0) = IF layout = <<>> THEN 2 ELSE 1
    BY <1>2, TextOfBrackets
  <2> QED
    BY <2>1, <2>2
<1>5. AtFirst'
  BY <1>1, <1>2, <1>3, <1>4 DEF AtFirst
<1>6. Where'
  BY <1>2, <1>5 DEF Where
<1> QED
  BY <1>1, <1>2, <1>6, SameFiles DEF LoaderInv

LEMMA EmptyArrayStep == LoaderInv /\ EmptyArray => LoaderInv'
<1> SUFFICES ASSUME LoaderInv, EmptyArray PROVE LoaderInv'
  OBVIOUS
<1>1. ReadSoFar /\ Where /\ Take("{ or ]", "]", "loaded") /\ out' = out
  BY DEF LoaderInv, EmptyArray
<1>2. /\ pc = "{ or ]" /\ pc' = "loaded" /\ UNCHANGED <<layout, cut>> /\ cut = FALSE
      /\ layout \in Objects
  BY <1>1, TakeFacts
<1>text. \A l, c : pos_ = <<l, c>> =>
        /\ TextAt(layout, l, c)[1] = "]"
        /\ pos_' = IF c < Width(layout, l) THEN <<l, c + 1>> ELSE <<l + 1, 1>>
  BY <1>1, TakeFacts
<1>3. AtFirst
  BY <1>1, <1>2 DEF Where
<1>4. layout = <<>>
  <2> SUFFICES ASSUME layout # <<>> PROVE FALSE
    OBVIOUS
  <2>1. 1 \in 1..Len(layout) /\ pos_ = <<1, 1>>
    <3>1. Len(layout) \in Nat /\ Len(layout) # 0
      BY <1>2, Shape
    <3>2. pos_ = <<1, 1>>
      BY <1>3, Zenon DEF AtFirst
    <3> QED
      BY <3>1, <3>2
  <2>2. TextAt(layout, 1, 1) [1] = "{"
    BY <1>2, <2>1, TextOfBrackets
  <2>3. TextAt(layout, 1, 1)[1] = "]"
    BY <2>1, <1>text, Zenon
  <2> QED
    BY <2>2, <2>3
<1>5. Len(out') = Len(layout')
  BY <1>1, <1>2, <1>3, <1>4 DEF AtFirst
<1>6. Where'
  BY <1>2, <1>5 DEF Where
<1> QED
  BY <1>1, <1>2, <1>6, SameFiles DEF LoaderInv

LEMMA OpenFileStep == LoaderInv /\ OpenFile => LoaderInv'
<1> SUFFICES ASSUME LoaderInv, OpenFile PROVE LoaderInv'
  OBVIOUS
<1>1. /\ ReadSoFar /\ Where /\ out' = out /\ size_bytes' = 0
      /\ s' = EmptyFile(Len(out))
      /\ Take("{ or ]", "{", "name") \/ Take("{", "{", "name")
  BY DEF LoaderInv, OpenFile, NewFile
<1>2. /\ pc \in {"{ or ]", "{"} /\ pc' = "name" /\ UNCHANGED <<layout, cut>>
      /\ layout \in Objects
  BY <1>1, TakeFacts
<1>text. \A l, c : pos_ = <<l, c>> =>
        /\ TextAt(layout, l, c)[1] = "{"
        /\ pos_' = IF c < Width(layout, l) THEN <<l, c + 1>> ELSE <<l + 1, 1>>
  BY <1>1, TakeFacts
<1> DEFINE n == Len(out) + 1
<1>3. Len(out) \in Nat /\ out \in Seq(Files)
  BY <1>1, ReadFacts
<1>4. AtFile
  <2>1. CASE pc = "{ or ]"
    <3>1. AtFirst
      BY <1>1, <2>1 DEF Where
    <3>2. layout # <<>>
      <4> SUFFICES ASSUME layout = <<>> PROVE FALSE
        OBVIOUS
      <4>1. pos_ = <<0, 2>>
        BY <3>1 DEF AtFirst
      <4>2. TextAt(layout, 0, 2)[1] = "]"
        BY <1>2, TextOfBrackets
      <4>3. TextAt(layout, 0, 2)[1] = "{"
        BY <1>text, <4>1, Zenon
      <4> QED
        BY <4>2, <4>3
    <3>3. Len(out) = 0 /\ Len(layout) \in Nat /\ Len(layout) # 0
      BY <1>2, <3>1, <3>2, Shape DEF AtFirst
    <3> QED
      BY <3>1, <3>2, <3>3 DEF AtFirst, AtFile
  <2>2. CASE pc = "{"
    BY <1>1, <2>2 DEF Where
  <2> QED
    BY <1>2, <2>1, <2>2
<1>5. n \in 1..Len(layout) /\ pos_ = <<n, 1>>
  <2>1. Len(out) < Len(layout) /\ pos_ = <<n, 1>>
    BY <1>4, Zenon DEF AtFile
  <2>2. Len(layout) \in Nat
    BY <1>1, ReadFacts
  <2> QED
    BY <1>3, <2>1, <2>2
<1>6. pos_' = <<n, 2>>
  <2>1. Width(layout, n) > 2 /\ Width(layout, n) \in Nat
    BY <1>2, <1>5, TextOfBrackets
  <2>2. pos_' = IF 1 < Width(layout, n) THEN <<n, 1 + 1>> ELSE <<n + 1, 1>>
    BY <1>5, <1>text, Zenon
  <2> QED
    BY <2>1, <2>2
<1>7. layout[n] \in Seq(STRING \X Int) /\ Len(layout[n]) \in Nat
  BY <1>2, <1>5, Shape
<1>8. Filling(0)'
  <2>1. \A name : LastOf(layout[n], 0, name) = 0
    BY <1>7, LastOfFields
  <2>2. s' = [sst_id |-> Len(out), level |-> 0, num_keys |-> 0, min_key |-> 0,
              max_key |-> 0]
    BY <1>1, Zenon DEF EmptyFile
  <2>3. s' \in Files
    BY <1>3, <2>2 DEF Files
  <2>4. Len(out) < Len(layout) /\ 0 \in 0..Len(layout[n])
    BY <1>5, <1>7, <1>3
  <2>5. s' = [sst_id |-> Len(out), level |-> AsInt(LastOf(layout[n], 0, "level")),
              num_keys |-> 0, min_key |-> LastOf(layout[n], 0, "min_key"),
              max_key |-> LastOf(layout[n], 0, "max_key")]
    BY <2>1, <2>2, AsIntType, Zenon
  <2>6. size_bytes' \in Int /\ size_bytes' = LastOf(layout[n], 0, "size")
    <3>1. size_bytes' = 0
      BY <1>1, Zenon
    <3> QED
      BY <2>1, <3>1
  <2> QED
    BY <1>1, <1>2, <2>3, <2>4, <2>5, <2>6, NewRecord
<1>9. AtName'
  <2>1. CASE layout[n] = <<>>
    BY <1>1, <1>2, <1>6, <1>8, <2>1 DEF AtName
  <2>2. CASE layout[n] # <<>>
    <3>1. 0 < Len(layout[n])
      BY <1>7, <2>2
    <3>2. 4 * 0 + 2 = 2
      OBVIOUS
    <3>3. InField(0, 4 * 0 + 2)'
      BY <1>1, <1>2, <1>6, <1>8, <3>1, <3>2, Zenon DEF InField
    <3> QED
      BY <3>3 DEF AtName
  <2> QED
    BY <2>1, <2>2
<1>10. Where'
  BY <1>2, <1>9 DEF Where
<1> QED
  BY <1>1, <1>2, <1>10, SameFiles DEF LoaderInv

LEMMA ReadNameStep == LoaderInv /\ ReadName => LoaderInv'
<1> SUFFICES ASSUME LoaderInv, ReadName PROVE LoaderInv'
  OBVIOUS
<1>1. /\ ReadSoFar /\ Where /\ Take("name", "string", ":")
      /\ key' = token[2] /\ UNCHANGED <<size_bytes, s, out>>
  BY DEF LoaderInv, ReadName
<1>2. /\ pc = "name" /\ pc' = ":" /\ UNCHANGED <<layout, cut>> /\ cut = FALSE
      /\ layout \in Objects
  BY <1>1, TakeFacts
<1>text. \A l, c : pos_ = <<l, c>> =>
        /\ TextAt(layout, l, c)[1] = "string"
        /\ token = TextAt(layout, l, c)
        /\ pos_' = IF c < Width(layout, l) THEN <<l, c + 1>> ELSE <<l + 1, 1>>
  BY <1>1, TakeFacts
<1> DEFINE n == Len(out) + 1
<1>3. Len(out) \in Nat /\ Len(layout) \in Nat
  BY <1>1, ReadFacts
<1>4. PICK m \in Nat : InField(m, 4 * m + 2)
  <2>1. AtName
    BY <1>1, <1>2 DEF Where
  <2>2. ASSUME Filling(0), layout[n] = <<>>, pos_ = <<n, 2>> PROVE FALSE
    <3>1. Len(out) < Len(layout)
      BY <2>2, Zenon DEF Filling
    <3>2. n \in 1..Len(layout)
      BY <1>3, <3>1
    <3>3. TextAt(layout, n, 2)[1] = "}"
      BY <1>2, <2>2, <3>2, TextOfBrackets
    <3>4. TextAt(layout, n, 2)[1] = "string"
      BY <1>text, <2>2, Zenon
    <3> QED
      BY <3>3, <3>4
  <2> QED
    BY <2>1, <2>2, Zenon DEF AtName
<1>5. /\ n \in 1..Len(layout) /\ layout[n] \in Seq(STRING \X Int)
      /\ Filling(m) /\ m < Len(layout[n]) /\ pos_ = <<n, 4 * m + 2>>
  <2>1. Filling(m) /\ m < Len(layout[n]) /\ pos_ = <<n, 4 * m + 2>>
    BY <1>4, Zenon DEF InField
  <2>2. Len(out) < Len(layout)
    BY <2>1, Zenon DEF Filling
  <2>3. n \in 1..Len(layout)
    BY <1>3, <2>2
  <2> QED
    BY <1>2, <2>1, <2>3, Shape
<1>6. pos_' = <<n, 4 * m + 3>>
  <2>1. 4 * m + 2 < Width(layout, n) /\ 4 * m + 2 + 1 = 4 * m + 3
    <3>1. 4 * m + 5 < Width(layout, n) /\ Width(layout, n) \in Nat
      BY <1>2, <1>5, TextOfFields, TextOfBrackets
    <3> QED
      BY <3>1
  <2> QED
    BY <1>5, <1>text, <2>1, Zenon
<1>7. key' = layout[n][m + 1][1]
  <2>1. TextAt(layout, n, 4 * m + 2)[2] = layout[n][m + 1][1]
    BY <1>2, <1>5, TextOfFields
  <2>2. token = TextAt(layout, n, 4 * m + 2)
    BY <1>5, <1>text, Zenon
  <2> QED
    BY <1>1, <2>1, <2>2, Zenon
<1>8. Filling(m)'
  BY <1>1, <1>2, <1>5, SameRecord
<1>9. out' = out /\ layout' = layout
  BY <1>1, <1>2
<1>10. InField(m, 4 * m + 3)'
  BY <1>5, <1>6, <1>8, <1>9, Zenon DEF InField
<1>11. AtColon'
  BY <1>7, <1>9, <1>10, Zenon DEF AtColon
<1>12. Where'
  BY <1>2, <1>11 DEF Where
<1> QED
  BY <1>1, <1>2, <1>12, SameFiles DEF LoaderInv

LEMMA ReadColonStep == LoaderInv /\ ReadColon => LoaderInv'
<1> SUFFICES ASSUME LoaderInv, ReadColon PROVE LoaderInv'
  OBVIOUS
<1>1. /\ ReadSoFar /\ Where /\ Take(":", ":", "number")
      /\ key' = key /\ UNCHANGED <<size_bytes, s, out>>
  BY DEF LoaderInv, ReadColon
<1>2. /\ pc = ":" /\ pc' = "number" /\ UNCHANGED <<layout, cut>> /\ cut = FALSE
      /\ layout \in Objects
  BY <1>1, TakeFacts
<1>text. \A l, c : pos_ = <<l, c>> =>
        /\ TextAt(layout, l, c)[1] = ":"
        /\ token = TextAt(layout, l, c)
        /\ pos_' = IF c < Width(layout, l) THEN <<l, c + 1>> ELSE <<l + 1, 1>>
  BY <1>1, TakeFacts
<1> DEFINE n == Len(out) + 1
<1>3. Len(out) \in Nat /\ Len(layout) \in Nat
  BY <1>1, ReadFacts
<1>4. PICK m \in Nat : InField(m, 4 * m + 3) /\ key = layout[n][m + 1][1]
  BY <1>1, <1>2, Zenon DEF Where, AtColon
<1>5. /\ n \in 1..Len(layout) /\ layout[n] \in Seq(STRING \X Int)
      /\ Filling(m) /\ m < Len(layout[n]) /\ pos_ = <<n, 4 * m + 3>>
  <2>1. Filling(m) /\ m < Len(layout[n]) /\ pos_ = <<n, 4 * m + 3>>
    BY <1>4, Zenon DEF InField
  <2>2. Len(out) < Len(layout)
    BY <2>1, Zenon DEF Filling
  <2>3. n \in 1..Len(layout)
    BY <1>3, <2>2
  <2> QED
    BY <1>2, <2>1, <2>3, Shape
<1>6. pos_' = <<n, 4 * m + 4>>
  <2>1. 4 * m + 3 < Width(layout, n) /\ 4 * m + 3 + 1 = 4 * m + 4
    <3>1. 4 * m + 5 < Width(layout, n) /\ Width(layout, n) \in Nat
      BY <1>2, <1>5, TextOfFields, TextOfBrackets
    <3> QED
      BY <3>1
  <2> QED
    BY <1>5, <1>text, <2>1, Zenon
<1>8. Filling(m)'
  BY <1>1, <1>2, <1>5, SameRecord
<1>9. out' = out /\ layout' = layout /\ key' = key
  BY <1>1, <1>2
<1>10. InField(m, 4 * m + 4)'
  BY <1>5, <1>6, <1>8, <1>9, Zenon DEF InField
<1>11. AtNumber'
  BY <1>4, <1>9, <1>10, Zenon DEF AtNumber
<1>12. Where'
  BY <1>2, <1>11 DEF Where
<1> QED
  BY <1>1, <1>2, <1>12, SameFiles DEF LoaderInv

LEMMA ReadNumberStep == LoaderInv /\ ReadNumber => LoaderInv'
<1> SUFFICES ASSUME LoaderInv, ReadNumber PROVE LoaderInv'
  OBVIOUS
<1>1. /\ ReadSoFar /\ Where /\ Take("number", "number", ", or }")
      /\ size_bytes' = IF key = "size" THEN token[2] ELSE size_bytes
      /\ s' = IF key \in {"level", "min_key", "max_key"}
              THEN [s EXCEPT ![key] = Stored(key, token[2])]
              ELSE s
      /\ out' = out
  BY DEF LoaderInv, ReadNumber
<1>2. /\ pc = "number" /\ pc' = ", or }" /\ UNCHANGED <<layout, cut>> /\ cut = FALSE
      /\ layout \in Objects
  BY <1>1, TakeFacts
<1>text. \A l, c : pos_ = <<l, c>> =>
        /\ TextAt(layout, l, c)[1] = "number"
        /\ token = TextAt(layout, l, c)
        /\ pos_' = IF c < Width(layout, l) THEN <<l, c + 1>> ELSE <<l + 1, 1>>
  BY <1>1, TakeFacts
<1> DEFINE n == Len(out) + 1
<1>3. Len(out) \in Nat /\ Len(layout) \in Nat
  BY <1>1, ReadFacts
<1>4. PICK m \in Nat : InField(m, 4 * m + 4) /\ key = layout[n][m + 1][1]
  BY <1>1, <1>2, Zenon DEF Where, AtNumber
<1>5. /\ n \in 1..Len(layout) /\ layout[n] \in Seq(STRING \X Int)
      /\ Filling(m) /\ m < Len(layout[n]) /\ pos_ = <<n, 4 * m + 4>>
  <2>1. Filling(m) /\ m < Len(layout[n]) /\ pos_ = <<n, 4 * m + 4>>
    BY <1>4, Zenon DEF InField
  <2>2. Len(out) < Len(layout)
    BY <2>1, Zenon DEF Filling
  <2>3. n \in 1..Len(layout)
    BY <1>3, <2>2
  <2> QED
    BY <1>2, <2>1, <2>3, Shape
<1>6. pos_' = <<n, 4 * m + 5>>
  <2>1. 4 * m + 4 < Width(layout, n) /\ 4 * m + 4 + 1 = 4 * m + 5
    <3>1. 4 * m + 5 < Width(layout, n) /\ Width(layout, n) \in Nat
      BY <1>2, <1>5, TextOfFields, TextOfBrackets
    <3> QED
      BY <3>1
  <2> QED
    BY <1>5, <1>text, <2>1, Zenon
<1>7. token[2] = layout[n][m + 1][2] /\ token[2] \in Int
  <2>1. /\ TextAt(layout, n, 4 * m + 4)[2] = layout[n][m + 1][2]
        /\ layout[n][m + 1] \in STRING \X Int
    BY <1>2, <1>5, TextOfFields
  <2>2. token = TextAt(layout, n, 4 * m + 4)
    BY <1>5, <1>text, Zenon
  <2> QED
    BY <2>1, <2>2
<1> DEFINE v == token[2]
<1>8. \A name : LastOf(layout[n], m + 1, name) =
                 IF key = name THEN v ELSE LastOf(layout[n], m, name)
  <2>1. ASSUME NEW name
        PROVE  LastOf(layout[n], m + 1, name) =
                 IF layout[n][m + 1][1] = name THEN layout[n][m + 1][2]
                 ELSE LastOf(layout[n], m, name)
    BY <1>5, LastOfFields
  <2> QED
    BY <1>4, <1>7, <2>1, Zenon
<1>9. Filling(m + 1)'
  <2>1. /\ Len(out) < Len(layout) /\ s \in Files /\ size_bytes \in Int
        /\ size_bytes = LastOf(layout[n], m, "size")
        /\ s = [sst_id |-> Len(out), level |-> AsInt(LastOf(layout[n], m, "level")),
                num_keys |-> 0, min_key |-> LastOf(layout[n], m, "min_key"),
                max_key |-> LastOf(layout[n], m, "max_key")]
    BY <1>5, Zenon DEF Filling
  <2>2. m + 1 \in 0..Len(layout[n])
    BY <1>5
  <2>3. size_bytes' \in Int /\ size_bytes' = LastOf(layout[n], m + 1, "size")
    BY <1>1, <1>7, <1>8, <2>1
  <2>4. /\ s' \in Files
        /\ s' = [sst_id |-> Len(out), level |-> AsInt(LastOf(layout[n], m + 1, "level")),
                 num_keys |-> 0, min_key |-> LastOf(layout[n], m + 1, "min_key"),
                 max_key |-> LastOf(layout[n], m + 1, "max_key")]
    <3> HIDE DEF v
    <3>1. CASE key = "level"
      <4>1. s' = [s EXCEPT !["level"] = AsInt(v)]
        BY <1>1, <3>1 DEF v, Stored
      <4>2. AsInt(v) \in Int
        BY <1>7, AsIntType DEF v
      <4> QED
        BY <1>7, <1>8, <2>1, <3>1, <4>1, <4>2 DEF Files, v
    <3>2. CASE key = "min_key"
      <4>1. s' = [s EXCEPT !["min_key"] = v]
        BY <1>1, <3>2 DEF v, Stored
      <4> QED
        BY <1>7, <1>8, <2>1, <3>2, <4>1 DEF Files, v
    <3>3. CASE key = "max_key"
      <4>1. s' = [s EXCEPT !["max_key"] = v]
        BY <1>1, <3>3 DEF v, Stored
      <4> QED
        BY <1>7, <1>8, <2>1, <3>3, <4>1 DEF Files, v
    <3>4. CASE key \notin {"level", "min_key", "max_key"}
      <4>1. s' = s
        BY <1>1, <3>4
      <4> QED
        BY <1>8, <2>1, <3>4, <4>1
    <3> QED
      BY <3>1, <3>2, <3>3, <3>4
  <2> QED
    BY <1>1, <1>2, <2>1, <2>2, <2>3, <2>4, NewRecord
<1>10. out' = out /\ layout' = layout
  BY <1>1, <1>2
<1>11. AfterField'
  <2>1. m + 1 \in Nat \ {0} /\ 4 * (m + 1) + 1 = 4 * m + 5
    OBVIOUS
  <2> QED
    BY <1>6, <1>9, <1>10, <2>1, Zenon DEF AfterField
<1>12. Where'
  BY <1>2, <1>11 DEF Where
<1> QED
  BY <1>2, <1>10, <1>1, <1>12, SameFiles DEF LoaderInv

LEMMA NextFieldStep == LoaderInv /\ NextField => LoaderInv'
<1> SUFFICES ASSUME LoaderInv, NextField PROVE LoaderInv'
  OBVIOUS
<1>1. /\ ReadSoFar /\ Where /\ Take(", or }", ",", "name")
      /\ key' = key /\ UNCHANGED <<size_bytes, s, out>>
  BY DEF LoaderInv, NextField
<1>2. /\ pc = ", or }" /\ pc' = "name" /\ UNCHANGED <<layout, cut>> /\ cut = FALSE
      /\ layout \in Objects
  BY <1>1, TakeFacts
<1>text. \A l, c : pos_ = <<l, c>> =>
        /\ TextAt(layout, l, c)[1] = ","
        /\ token = TextAt(layout, l, c)
        /\ pos_' = IF c < Width(layout, l) THEN <<l, c + 1>> ELSE <<l + 1, 1>>
  BY <1>1, TakeFacts
<1> DEFINE n == Len(out) + 1
<1>3. Len(out) \in Nat /\ Len(layout) \in Nat
  BY <1>1, ReadFacts
<1>4. PICK m \in Nat \ {0} : Filling(m) /\ pos_ = <<n, 4 * m + 1>>
  BY <1>1, <1>2, Zenon DEF Where, AfterField
<1>5. /\ n \in 1..Len(layout) /\ layout[n] \in Seq(STRING \X Int)
      /\ m \in 1..Len(layout[n])
  <2>1. Len(out) < Len(layout) /\ m \in 0..Len(layout[n])
    BY <1>4, Zenon DEF Filling
  <2>2. n \in 1..Len(layout)
    BY <1>3, <2>1
  <2>3. layout[n] \in Seq(STRING \X Int) /\ Len(layout[n]) \in Nat
    BY <1>2, <2>2, Shape
  <2>4. m \in Nat \ {0}
    BY <1>4
  <2> QED
    BY <2>1, <2>2, <2>3, <2>4
<1>6. /\ pos_' = <<n, 4 * m + 2>>
      /\ (IF m = Len(layout[n]) THEN "}" ELSE ",") = ","
  <2>1. /\ 4 * (m - 1) + 5 < Width(layout, n) /\ Width(layout, n) \in Nat
        /\ TextAt(layout, n, 4 * (m - 1) + 5)[1] =
             IF m - 1 + 1 = Len(layout[n]) THEN "}" ELSE ","
    <3>1. m - 1 \in Nat /\ m - 1 < Len(layout[n])
      BY <1>5
    <3>2. Width(layout, n) \in Nat
      BY <1>2, <1>5, TextOfBrackets
    <3> QED
      BY <1>2, <1>5, <3>1, <3>2, TextOfFields
  <2>2. 4 * (m - 1) + 5 = 4 * m + 1 /\ m - 1 + 1 = m /\ 4 * m + 1 + 1 = 4 * m + 2
    OBVIOUS
  <2>3. 4 * m + 1 < Width(layout, n)
    BY <2>1, <2>2
  <2>4. TextAt(layout, n, 4 * m + 1)[1] = IF m = Len(layout[n]) THEN "}" ELSE ","
    BY <2>1, <2>2, Zenon
  <2> QED
    BY <1>4, <1>text, <2>2, <2>3, <2>4, Zenon
<1>7. m < Len(layout[n])
  BY <1>5, <1>6
<1>8. Filling(m)'
  BY <1>1, <1>2, <1>4, SameRecord
<1>9. out' = out /\ layout' = layout
  BY <1>1, <1>2
<1>10. InField(m, 4 * m + 2)'
  BY <1>6, <1>7, <1>8, <1>9, Zenon DEF InField
<1>11. AtName'
  <2>1. m \in Nat
    BY <1>4
  <2> QED
    BY <1>10, <2>1, Zenon DEF AtName
<1>12. Where'
  BY <1>2, <1>11 DEF Where
<1> QED
  BY <1>1, <1>2, <1>12, SameFiles DEF LoaderInv

LEMMA CloseFileStep == LoaderInv /\ CloseFile => LoaderInv'
<1> SUFFICES ASSUME LoaderInv, CloseFile PROVE LoaderInv'
  OBVIOUS
<1>1. /\ ReadSoFar /\ Where /\ Take(", or }", "}", ", or ]")
      /\ s' = [s EXCEPT !.num_keys = AtLeastOne(size_bytes \div kv)]
      /\ out' = Append(out, s')
  BY DEF LoaderInv, CloseFile
<1>2. /\ pc = ", or }" /\ pc' = ", or ]" /\ UNCHANGED <<layout, cut>> /\ cut = FALSE
      /\ layout \in Objects
  BY <1>1, TakeFacts
<1>text. \A l, c : pos_ = <<l, c>> =>
        /\ TextAt(layout, l, c)[1] = "}"
        /\ token = TextAt(layout, l, c)
        /\ pos_' = IF c < Width(layout, l) THEN <<l, c + 1>> ELSE <<l + 1, 1>>
  BY <1>1, TakeFacts
<1> DEFINE n == Len(out) + 1
<1>3. Len(out) \in Nat /\ Len(layout) \in Nat
  BY <1>1, ReadFacts
<1>4. PICK m \in Nat \ {0} : Filling(m) /\ pos_ = <<n, 4 * m + 1>>
  BY <1>1, <1>2, Zenon DEF Where, AfterField
<1>5. /\ n \in 1..Len(layout) /\ layout[n] \in Seq(STRING \X Int)
      /\ m \in 1..Len(layout[n])
  <2>1. Len(out) < Len(layout) /\ m \in 0..Len(layout[n])
    BY <1>4, Zenon DEF Filling
  <2>2. n \in 1..Len(layout)
    BY <1>3, <2>1
  <2>3. layout[n] \in Seq(STRING \X Int) /\ Len(layout[n]) \in Nat
    BY <1>2, <2>2, Shape
  <2>4. m \in Nat \ {0}
    BY <1>4
  <2> QED
    BY <2>1, <2>2, <2>3, <2>4
<1>6. /\ pos_' = <<n, 4 * m + 2>>
      /\ (IF m = Len(layout[n]) THEN "}" ELSE ",") = "}"
  <2>1. /\ 4 * (m - 1) + 5 < Width(layout, n) /\ Width(layout, n) \in Nat
        /\ TextAt(layout, n, 4 * (m - 1) + 5)[1] =
             IF m - 1 + 1 = Len(layout[n]) THEN "}" ELSE ","
    <3>1. m - 1 \in Nat /\ m - 1 < Len(layout[n])
      BY <1>5
    <3>2. Width(layout, n) \in Nat
      BY <1>2, <1>5, TextOfBrackets
    <3> QED
      BY <1>2, <1>5, <3>1, <3>2, TextOfFields
  <2>2. 4 * (m - 1) + 5 = 4 * m + 1 /\ m - 1 + 1 = m /\ 4 * m + 1 + 1 = 4 * m + 2
    OBVIOUS
  <2>3. 4 * m + 1 < Width(layout, n)
    BY <2>1, <2>2
  <2>4. TextAt(layout, n, 4 * m + 1)[1] = IF m = Len(layout[n]) THEN "}" ELSE ","
    BY <2>1, <2>2, Zenon
  <2> QED
    BY <1>4, <1>text, <2>2, <2>3, <2>4, Zenon
<1>7. m = Len(layout[n])
  BY <1>6
<1>8. /\ Len(out) < Len(layout) /\ s \in Files /\ size_bytes \in Int
      /\ size_bytes = LastOf(layout[n], m, "size")
      /\ s = [sst_id |-> Len(out), level |-> AsInt(LastOf(layout[n], m, "level")),
              num_keys |-> 0, min_key |-> LastOf(layout[n], m, "min_key"),
              max_key |-> LastOf(layout[n], m, "max_key")]
  BY <1>4, Zenon DEF Filling
<1> DEFINE keys == AtLeastOne(size_bytes \div kv)
<1>9. keys \in Int
  BY <1>8, LayoutAssumption DEF AtLeastOne
<1>10. s' = [sst_id |-> Len(out), level |-> AsInt(LastOf(layout[n], m, "level")),
             num_keys |-> keys, min_key |-> LastOf(layout[n], m, "min_key"),
             max_key |-> LastOf(layout[n], m, "max_key")]
  <2> HIDE DEF keys
  <2>1. s' = [s EXCEPT !.num_keys = keys]
    BY <1>1, Zenon DEF keys
  <2> QED
    BY <1>8, <2>1
<1>11. s' \in Files
  <2> HIDE DEF keys
  <2>1. s' = [s EXCEPT !.num_keys = keys]
    BY <1>1, Zenon DEF keys
  <2> QED
    BY <1>8, <1>9, <2>1 DEF Files
<1>12. s' = Meant(n)
  <2>1. n - 1 = Len(out)
    BY <1>3
  <2> QED
    BY <1>7, <1>8, <1>10, <2>1, Zenon DEF Meant
<1>13. /\ out' \in Seq(Files) /\ Len(out') = n /\ out'[n] = s'
       /\ \A i \in 1..Len(out) : out'[i] = out[i]
       /\ DOMAIN out' = 1..n
  <2>1. out \in Seq(Files) /\ out' = Append(out, s')
    BY <1>1, ReadFacts
  <2>2. ASSUME NEW f \in Files, NEW q \in Seq(Files)
        PROVE  /\ Append(q, f) \in Seq(Files) /\ Len(Append(q, f)) = Len(q) + 1
               /\ Append(q, f)[Len(q) + 1] = f
               /\ \A i \in 1..Len(q) : Append(q, f)[i] = q[i]
               /\ DOMAIN Append(q, f) = 1..Len(q) + 1
    OBVIOUS
  <2> QED
    BY <1>11, <2>1, <2>2, Zenon
<1>14. out' = [i \in 1..Len(out') |-> Meant(i)]
  <2>1. out = [i \in 1..Len(out) |-> Meant(i)]
    BY <1>1, Zenon DEF ReadSoFar
  <2>2. \A i \in 1..n : out'[i] = Meant(i)
    <3>1. \A i \in 1..n : i = n \/ i \in 1..Len(out)
      BY <1>3
    <3>2. \A i \in 1..Len(out) : out[i] = Meant(i)
      BY <2>1, Zenon
    <3> QED
      BY <1>12, <1>13, <3>1, <3>2, Zenon
  <2>3. out' = [i \in DOMAIN out' |-> out'[i]]
    BY <1>13
  <2> QED
    BY <1>13, <2>2, <2>3, Zenon
<1>15. ReadSoFar'
  <2>1. layout' = layout /\ cut' = cut /\ layout \in Layouts /\ cut \in BOOLEAN
    BY <1>1, <1>2 DEF ReadSoFar
  <2>2. Len(out') <= Len(layout)
    BY <1>5, <1>13
  <2>3. \A i : Meant(i)' = Meant(i)
    BY <2>1, Zenon DEF Meant
  <2> QED
    BY <1>13, <1>14, <2>1, <2>2, <2>3, Zenon DEF ReadSoFar
<1>16. AfterFile'
  <2>1. Width(layout, n) = 4 * m + 2
    BY <1>5, <1>7 DEF Width
  <2>2. out' # <<>>
    BY <1>3, <1>13
  <2> QED
    BY <1>2, <1>6, <1>13, <2>1, <2>2, Zenon DEF AfterFile
<1>17. Where'
  BY <1>2, <1>16 DEF Where
<1> QED
  BY <1>15, <1>17 DEF LoaderInv

LEMMA NextFileStep == LoaderInv /\ NextFile => LoaderInv'
<1> SUFFICES ASSUME LoaderInv, NextFile PROVE LoaderInv'
  OBVIOUS
<1>1. /\ ReadSoFar /\ Where /\ Take(", or ]", ",", "{")
      /\ UNCHANGED <<size_bytes, s, out>>
  BY DEF LoaderInv, NextFile
<1>2. /\ pc = ", or ]" /\ pc' = "{" /\ UNCHANGED <<layout, cut>> /\ cut = FALSE
      /\ layout \in Objects
  BY <1>1, TakeFacts
<1>text. \A l, c : pos_ = <<l, c>> =>
        /\ TextAt(layout, l, c)[1] = ","
        /\ pos_' = IF c < Width(layout, l) THEN <<l, c + 1>> ELSE <<l + 1, 1>>
  BY <1>1, TakeFacts
<1> DEFINE n == Len(out)
<1>3. /\ n \in Nat /\ Len(layout) \in Nat /\ n <= Len(layout)
      /\ out \in Seq(Files)
  BY <1>1, ReadFacts
<1>4. out # <<>> /\ pos_ = <<n, Width(layout, n)>>
  BY <1>1, <1>2, Zenon DEF Where, AfterFile
<1>5. n \in 1..Len(layout)
  BY <1>3, <1>4
<1>6. /\ (IF n = Len(layout) THEN "]" ELSE ",") = ","
      /\ pos_' = <<n + 1, 1>>
  <2>1. /\ TextAt(layout, n, Width(layout, n))[1] = IF n = Len(layout) THEN "]" ELSE ","
        /\ Width(layout, n) \in Nat
    BY <1>2, <1>5, TextOfBrackets
  <2>2. ~(Width(layout, n) < Width(layout, n))
    <3>1. \A w \in Nat : ~(w < w)
      OBVIOUS
    <3> QED
      BY <2>1, <3>1, Zenon
  <2> QED
    BY <1>4, <1>text, <2>1, <2>2, Zenon
<1>7. n < Len(layout)
  BY <1>3, <1>6
<1>8. AtFile'
  BY <1>1, <1>2, <1>6, <1>7, Zenon DEF AtFile
<1>9. Where'
  BY <1>2, <1>8 DEF Where
<1> QED
  BY <1>1, <1>2, <1>9, SameFiles DEF LoaderInv

LEMMA CloseArrayStep == LoaderInv /\ CloseArray => LoaderInv'
<1> SUFFICES ASSUME LoaderInv, CloseArray PROVE LoaderInv'
  OBVIOUS
<1>1. /\ ReadSoFar /\ Where /\ Take(", or ]", "]", "loaded")
      /\ UNCHANGED <<size_bytes, s, out>>
  BY DEF LoaderInv, CloseArray
<1>2. /\ pc = ", or ]" /\ pc' = "loaded" /\ UNCHANGED <<layout, cut>> /\ cut = FALSE
      /\ layout \in Objects
  BY <1>1, TakeFacts
<1>text. \A l, c : pos_ = <<l, c>> =>
        /\ TextAt(layout, l, c)[1] = "]"
        /\ pos_' = IF c < Width(layout, l) THEN <<l, c + 1>> ELSE <<l + 1, 1>>
  BY <1>1, TakeFacts
<1> DEFINE n == Len(out)
<1>3. /\ n \in Nat /\ Len(layout) \in Nat /\ n <= Len(layout)
      /\ out \in Seq(Files)
  BY <1>1, ReadFacts
<1>4. out # <<>> /\ pos_ = <<n, Width(layout, n)>>
  BY <1>1, <1>2, Zenon DEF Where, AfterFile
<1>5. n \in 1..Len(layout)
  BY <1>3, <1>4
<1>6. /\ (IF n = Len(layout) THEN "]" ELSE ",") = "]"
      /\ pos_' = <<n + 1, 1>>
  <2>1. /\ TextAt(layout, n, Width(layout, n))[1] = IF n = Len(layout) THEN "]" ELSE ","
        /\ Width(layout, n) \in Nat
    BY <1>2, <1>5, TextOfBrackets
  <2>2. ~(Width(layout, n) < Width(layout, n))
    <3>1. \A w \in Nat : ~(w < w)
      OBVIOUS
    <3> QED
      BY <2>1, <3>1, Zenon
  <2> QED
    BY <1>4, <1>text, <2>1, <2>2, Zenon
<1>7. Len(out') = Len(layout')
  BY <1>1, <1>2, <1>6
<1>8. Where'
  BY <1>2, <1>7 DEF Where
<1> QED
  BY <1>1, <1>2, <1>8, SameFiles DEF LoaderInv

(* Nothing is refused but a file that was cut short or that has an object
   without a field: everywhere else the text has the token the loader expects. *)
LEMMA ThrowStep == LoaderInv /\ Throw => LoaderInv'
<1> SUFFICES ASSUME LoaderInv, Throw PROVE LoaderInv'
  OBVIOUS
<1>1. /\ ReadSoFar /\ Where /\ pc \in DOMAIN Expected /\ token[1] \notin Expected[pc]
      /\ pc' = "refused" /\ UNCHANGED <<layout, cut, out>>
  BY DEF LoaderInv, Throw, document
<1>2. /\ layout \in Objects /\ Len(layout) \in Nat
      /\ out \in Seq(Files) /\ Len(out) \in Nat /\ Len(out) <= Len(layout)
  BY <1>1, ReadFacts
<1> DEFINE n == Len(out) + 1
<1>3. ASSUME cut = FALSE, \A i \in 1..Len(layout) : layout[i] # <<>>
      PROVE  FALSE
  <2>1. ASSUME NEW l \in 0..Len(layout), NEW c, pos_ = <<l, c>>
        PROVE  TextAt(layout, l, c)[1] \notin Expected[pc]
    <3>1. pos_[1] = l /\ pos_[2] = c
      BY <2>1
    <3>2. ~(pos_[1] > Len(layout))
      BY <1>2, <3>1
    <3>3. token = TextAt(layout, l, c)
      BY <1>3, <3>1, <3>2, Zenon DEF token, AtEnd
    <3> QED
      BY <1>1, <3>3, Zenon
  <2>2. ASSUME Len(out) < Len(layout)
        PROVE  /\ n \in 1..Len(layout) /\ n \in 0..Len(layout) /\ layout[n] # <<>>
               /\ layout[n] \in Seq(STRING \X Int) /\ Len(layout[n]) \in Nat
    <3>1. n \in 1..Len(layout) /\ n \in 0..Len(layout)
      BY <1>2, <2>2
    <3> QED
      BY <1>2, <1>3, <3>1, Shape
  <2>3. /\ Expected["["] = {"["} /\ Expected["{"] = {"{"}
        /\ Expected["name"] = {"string"} /\ Expected[":"] = {":"}
        /\ Expected["number"] = {"number"} /\ Expected["{ or ]"] = {"{", "]"}
        /\ Expected[", or }"] = {",", "}"} /\ Expected[", or ]"] = {",", "]"}
    BY DEF Expected
  <2>4. CASE pc = "["
    <3>1. pos_ = <<0, 1>>
      BY <1>1, <2>4 DEF Where
    <3>2. TextAt(layout, 0, 1)[1] = "["
      BY <1>2, TextOfBrackets
    <3>3. 0 \in 0..Len(layout)
      BY <1>2
    <3> QED
      BY <2>1, <2>3, <2>4, <3>1, <3>2, <3>3
  <2>5. CASE pc = "{ or ]"
    <3>1. AtFirst
      BY <1>1, <2>5 DEF Where
    <3>2. CASE layout = <<>>
      <4>1. pos_ = <<0, 2>>
        BY <3>1, <3>2 DEF AtFirst
      <4>2. TextAt(layout, 0, 2)[1] = "]"
        BY <1>2, TextOfBrackets
      <4>3. 0 \in 0..Len(layout)
        BY <1>2
      <4>4. TextAt(layout, 0, 2)[1] \notin Expected[pc]
        BY <2>1, <4>1, <4>3, Zenon
      <4> QED
        BY <2>3, <2>5, <4>2, <4>4, Zenon
    <3>3. CASE layout # <<>>
      <4>1. pos_ = <<1, 1>>
        BY <3>1, <3>3 DEF AtFirst
      <4>2. 1 \in 1..Len(layout) /\ 1 \in 0..Len(layout)
        BY <1>2, <3>3, Shape
      <4>3. TextAt(layout, 1, 1)[1] = "{"
        BY <1>2, <4>2, TextOfBrackets
      <4>4. TextAt(layout, 1, 1)[1] \notin Expected[pc]
        BY <2>1, <4>1, <4>2, Zenon
      <4> QED
        BY <2>3, <2>5, <4>3, <4>4, Zenon
    <3> QED
      BY <3>2, <3>3
  <2>6. CASE pc = "{"
    <3>1. Len(out) < Len(layout) /\ pos_ = <<n, 1>>
      BY <1>1, <2>6 DEF Where, AtFile
    <3>2. TextAt(layout, n, 1)[1] = "{" /\ n \in 0..Len(layout)
      BY <1>2, <2>2, <3>1, TextOfBrackets
    <3> QED
      BY <2>1, <2>3, <2>6, <3>1, <3>2
  <2>7. CASE pc = "name"
    <3>1. PICK m \in Nat : InField(m, 4 * m + 2)
      <4>1. AtName
        BY <1>1, <2>7 DEF Where
      <4>2. ~(Filling(0) /\ layout[n] = <<>>)
        <5>1. Filling(0) => Len(out) < Len(layout)
          BY Zenon DEF Filling
        <5> QED
          BY <2>2, <5>1
      <4> QED
        BY <4>1, <4>2, Zenon DEF AtName
    <3>2. Len(out) < Len(layout) /\ m < Len(layout[n]) /\ pos_ = <<n, 4 * m + 2>>
      BY <3>1, Zenon DEF InField, Filling
    <3>3. TextAt(layout, n, 4 * m + 2)[1] = "string" /\ n \in 0..Len(layout)
      BY <1>2, <2>2, <3>2, TextOfFields
    <3> QED
      BY <2>1, <2>3, <2>7, <3>2, <3>3
  <2>8. CASE pc = ":"
    <3>1. PICK m \in Nat : InField(m, 4 * m + 3) /\ key = layout[n][m + 1][1]
      BY <1>1, <2>8, Zenon DEF Where, AtColon
    <3>2. Len(out) < Len(layout) /\ m < Len(layout[n]) /\ pos_ = <<n, 4 * m + 3>>
      BY <3>1, Zenon DEF InField, Filling
    <3>3. TextAt(layout, n, 4 * m + 3)[1] = ":" /\ n \in 0..Len(layout)
      BY <1>2, <2>2, <3>2, TextOfFields
    <3> QED
      BY <2>1, <2>3, <2>8, <3>2, <3>3
  <2>9. CASE pc = "number"
    <3>1. PICK m \in Nat : InField(m, 4 * m + 4) /\ key = layout[n][m + 1][1]
      BY <1>1, <2>9, Zenon DEF Where, AtNumber
    <3>2. Len(out) < Len(layout) /\ m < Len(layout[n]) /\ pos_ = <<n, 4 * m + 4>>
      BY <3>1, Zenon DEF InField, Filling
    <3>3. TextAt(layout, n, 4 * m + 4)[1] = "number" /\ n \in 0..Len(layout)
      BY <1>2, <2>2, <3>2, TextOfFields
    <3> QED
      BY <2>1, <2>3, <2>9, <3>2, <3>3
  <2>10. CASE pc = ", or }"
    <3>1. PICK m \in Nat \ {0} : Filling(m) /\ pos_ = <<n, 4 * m + 1>>
      BY <1>1, <2>10, Zenon DEF Where, AfterField
    <3>2. Len(out) < Len(layout) /\ m \in 0..Len(layout[n])
      BY <3>1, Zenon DEF Filling
    <3>3. m - 1 \in Nat /\ m - 1 < Len(layout[n])
      <4>1. m \in Nat \ {0} /\ Len(layout[n]) \in Nat
        BY <2>2, <3>1, <3>2
      <4> QED
        BY <3>2, <4>1
    <3>4. TextAt(layout, n, 4 * (m - 1) + 5)[1] \in {",", "}"}
      <4>1. n \in 1..Len(layout)
        BY <2>2, <3>2
      <4>2. TextAt(layout, n, 4 * (m - 1) + 5)[1] =
              IF m - 1 + 1 = Len(layout[n]) THEN "}" ELSE ","
        <5>1. ASSUME NEW k \in Nat, k < Len(layout[n])
              PROVE  TextAt(layout, n, 4 * k + 5)[1] =
                       IF k + 1 = Len(layout[n]) THEN "}" ELSE ","
          <6>1. layout \in Objects
            BY <1>2
          <6> QED
            BY <4>1, <5>1, <6>1, TextOfFields
        <5> QED
          BY <3>3, <5>1, Zenon
      <4> QED
        BY <4>2, Zenon
    <3>5. 4 * (m - 1) + 5 = 4 * m + 1
      BY <3>1
    <3>6. n \in 0..Len(layout)
      BY <2>2, <3>2
    <3> QED
      BY <2>1, <2>3, <2>10, <3>1, <3>4, <3>5, <3>6, Zenon
  <2>11. CASE pc = ", or ]"
    <3>1. out # <<>> /\ pos_ = <<Len(out), Width(layout, Len(out))>>
      BY <1>1, <2>11, Zenon DEF Where, AfterFile
    <3>2. Len(out) \in 1..Len(layout) /\ Len(out) \in 0..Len(layout)
      BY <1>2, <3>1
    <3>3. TextAt(layout, Len(out), Width(layout, Len(out)))[1] \in {"]", ","}
      BY <1>2, <3>2, TextOfBrackets
    <3> QED
      BY <2>1, <2>3, <2>11, <3>1, <3>2, <3>3
  <2>12. pc \in {"[", "{", "name", ":", "number", "{ or ]", ", or }", ", or ]"}
    BY <1>1 DEF Expected
  <2> QED
    BY <2>4, <2>5, <2>6, <2>7, <2>8, <2>9, <2>10, <2>11, <2>12
<1>4. cut \/ \E i \in DOMAIN layout : layout[i] = <<>>
  <2>1. cut \in BOOLEAN /\ DOMAIN layout = 1..Len(layout)
    BY <1>1, <1>2 DEF ReadSoFar, Objects
  <2> QED
    BY <1>3, <2>1
<1>5. Where'
  BY <1>1, <1>4 DEF Where
<1> QED
  BY <1>1, <1>5, SameFiles DEF LoaderInv

LEMMA CutShortStep == LoaderInv /\ CutShort => LoaderInv'
<1> SUFFICES ASSUME LoaderInv, CutShort PROVE LoaderInv'
  OBVIOUS
<1>1. /\ ReadSoFar /\ Where /\ pc \notin {"loaded", "refused"} /\ cut' = TRUE
      /\ UNCHANGED <<layout, pos_, pc, key, size_bytes, s, out>>
  BY DEF LoaderInv, CutShort
<1>2. ReadSoFar'
  BY <1>1 DEF ReadSoFar, Meant
<1>3. Where'
  BY <1>1 DEF Where, AtFirst, AtFile, AtName, AtColon, AtNumber, AfterField,
              AfterFile, InField, Filling
<1> QED
  BY <1>2, <1>3 DEF LoaderInv

LEMMA LoaderStutters == LoaderInv /\ UNCHANGED vars => LoaderInv'
<1> SUFFICES ASSUME LoaderInv, UNCHANGED vars PROVE LoaderInv'
  OBVIOUS
<1>1. /\ ReadSoFar /\ Where
      /\ UNCHANGED <<layout, cut, pos_, pc, key, size_bytes, s, out>>
  BY DEF LoaderInv, vars, document
<1>2. ReadSoFar'
  BY <1>1, SameFiles
<1>3. Where'
  <2>1. pc' = "loaded" => ~cut' /\ Len(out') = Len(layout')
    BY <1>1, Zenon DEF Where
  <2>2. pc' = "refused" => cut' \/ \E n \in DOMAIN layout' : layout'[n] = <<>>
    BY <1>1, Zenon DEF Where
  <2>3. pc' = ":" => AtColon'
    BY <1>1 DEF Where, AtColon, InField, Filling
  <2>4. pc' = "number" => AtNumber'
    BY <1>1 DEF Where, AtNumber, InField, Filling
  <2>5. pc' = "name" => AtName'
    BY <1>1 DEF Where, AtName, InField, Filling
  <2>6. pc' = ", or }" => AfterField'
    BY <1>1 DEF Where, AfterField, Filling
  <2>7. /\ pc' = "[" => out' = <<>> /\ pos_' = <<0, 1>>
        /\ pc' = "{ or ]" => AtFirst'
        /\ pc' = "{" => AtFile'
        /\ pc' = ", or ]" => AfterFile'
    BY <1>1 DEF Where, AtFirst, AtFile, AfterFile
  <2> QED
    BY <2>1, <2>2, <2>3, <2>4, <2>5, <2>6, <2>7, Zenon DEF Where
<1> QED
  BY <1>2, <1>3 DEF LoaderInv

LEMMA LoaderStep == LoaderInv /\ [Next]_vars => LoaderInv'
BY OpenArrayStep, EmptyArrayStep, OpenFileStep, ReadNameStep, ReadColonStep,
   ReadNumberStep, NextFieldStep, CloseFileStep, NextFileStep, CloseArrayStep,
   ThrowStep, CutShortStep, LoaderStutters DEF Next, ReadToken

LEMMA LoaderInit == Init => LoaderInv
<1> SUFFICES ASSUME Init PROVE LoaderInv
  OBVIOUS
<1>1. /\ layout \in Layouts /\ cut = FALSE /\ pos_ = <<0, 1>> /\ pc = "[" /\ out = <<>>
  BY DEF Init
<1>2. layout \in Objects
  BY <1>1, LayoutAssumption DEF Objects
<1>3. Len(layout) \in Nat
  BY <1>2, Shape
<1>4. out \in Seq(Files) /\ Len(out) = 0 /\ out = [n \in 1..Len(out) |-> Meant(n)]
  BY <1>1
<1>5. ReadSoFar
  <2>1. cut \in BOOLEAN
    BY <1>1
  <2>2. Len(out) <= Len(layout)
    BY <1>3, <1>4
  <2> QED
    BY <1>1, <1>4, <2>1, <2>2, Zenon DEF ReadSoFar
<1>6. Where
  BY <1>1 DEF Where
<1> QED
  BY <1>5, <1>6 DEF LoaderInv

THEOREM LoaderInvariant == Spec => []LoaderInv
<1>1. Init => LoaderInv
  BY LoaderInit
<1>2. LoaderInv /\ [Next]_vars => LoaderInv'
  BY LoaderStep
<1> QED
  BY <1>1, <1>2, PTL DEF Spec

(* A layout is loaded as it was written, each file with its own numbers, or
   refused, and refused only when it was cut short or has an object without
   a field. *)
THEOREM LoaderCorrect == Spec => []LoaderReadsTheLayout
<1>1. LoaderInv => LoaderReadsTheLayout
  <2> SUFFICES ASSUME LoaderInv PROVE LoaderReadsTheLayout
    OBVIOUS
  <2>1. layout \in Objects /\ DOMAIN layout = 1..Len(layout)
    BY ReadFacts DEF LoaderInv, Objects
  <2>2. out = [n \in 1..Len(out) |-> Meant(n)]
    BY Zenon DEF LoaderInv, ReadSoFar
  <2>3. pc = "loaded" => ~cut /\ Len(out) = Len(layout)
    BY DEF LoaderInv, Where
  <2>4. pc = "refused" => cut \/ \E n \in DOMAIN layout : layout[n] = <<>>
    BY DEF LoaderInv, Where
  <2> QED
    BY <2>1, <2>2, <2>3, <2>4, Zenon DEF LoaderReadsTheLayout
<1> QED
  BY <1>1, LoaderInvariant, PTL

-----------------------------------------------------------------------------
LEMMA PartitionCounts ==
  ASSUME NEW keys \in Int
  PROVE  LET sizes == MetadataSizes(keys, cfg)
         IN  /\ sizes.partitioned_num_filter_partitions \in Nat \ {0}
             /\ sizes.partitioned_num_index_partitions \in Nat \ {0}
             /\ sizes.unify_num_partitions \in Nat \ {0}
<1>1. \A x \in Int : AtLeastOne(x) \in Nat \ {0}
  BY DEF AtLeastOne
<1>2. \A x \in Int, d \in Nat \ {0} : CeilDiv(x, d) \in Int
  BY DEF CeilDiv
<1> DEFINE keysPerBlock == AtLeastOne(cfg.block_size \div (cfg.key_size + cfg.value_size))
           numBlocks == AtLeastOne(CeilDiv(keys, keysPerBlock))
           entry == cfg.key_size + 8
           fullIndex == AtLeastOne((numBlocks * entry * cfg.shorten_num)
                                     \div cfg.shorten_den)
           fullFilter == AtLeastOne((keys * cfg.bloom_bits_per_key) \div 8)
           partitions(bytes) == AtLeastOne(CeilDiv(bytes, cfg.metadata_block_size))
<1>3. \A a \in Int, d \in Nat \ {0} : a \div d \in Int
  OBVIOUS
<1>4. keysPerBlock \in Nat \ {0}
  <2>1. cfg.block_size \in Int /\ cfg.key_size + cfg.value_size \in Nat \ {0}
    BY LayoutAssumption, ConfigAssumption DEF kv
  <2>2. cfg.block_size \div (cfg.key_size + cfg.value_size) \in Int
    BY <2>1, <1>3
  <2> QED
    BY <1>1, <2>2
<1>5. numBlocks \in Nat \ {0}
  BY <1>1, <1>2, <1>4
<1>6. fullIndex \in Nat \ {0}
  <2>1. entry \in Nat
    BY ConfigAssumption
  <2> HIDE DEF numBlocks, entry
  <2>2. numBlocks * entry * cfg.shorten_num \in Int
    BY <1>5, <2>1, ConfigAssumption
  <2>3. (numBlocks * entry * cfg.shorten_num) \div cfg.shorten_den \in Int
    BY <1>3, <2>2, ConfigAssumption
  <2> QED
    BY <1>1, <2>3
<1>7. fullFilter \in Nat \ {0}
  <2>1. keys * cfg.bloom_bits_per_key \in Int
    BY ConfigAssumption
  <2>2. (keys * cfg.bloom_bits_per_key) \div 8 \in Int
    BY <1>3, <2>1
  <2> QED
    BY <1>1, <2>2
<1>8. \A bytes \in Int : partitions(bytes) \in Nat \ {0}
  BY <1>1, <1>2, ConfigAssumption
<1> DEFINE sizes == MetadataSizes(keys, cfg)
<1>9. /\ sizes.partitioned_num_filter_partitions = partitions(fullFilter)
      /\ sizes.partitioned_num_index_partitions = partitions(fullIndex)
      /\ sizes.unify_num_partitions = partitions(fullIndex + fullFilter)
  BY DEF MetadataSizes
<1> HIDE DEF sizes, partitions, fullFilter, fullIndex
<1>10. /\ partitions(fullFilter) \in Nat \ {0} /\ partitions(fullIndex) \in Nat \ {0}
       /\ partitions(fullIndex + fullFilter) \in Nat \ {0}
  BY <1>6, <1>7, <1>8
<1> QED
  BY <1>9, <1>10 DEF sizes

LEMMA FileFields ==
  ASSUME NEW file \in Files
  PROVE  LET f == WithSizes(file)
         IN  /\ f.sst_id = file.sst_id
             /\ f.min_key = file.min_key /\ f.max_key = file.max_key
             /\ \A tag \in Tags : NumPartitions(f, tag) \in Nat \ {0}
<1> DEFINE sizes == MetadataSizes(file.num_keys, cfg)
           f == WithSizes(file)
<1>1. DOMAIN file = {"sst_id", "level", "num_keys", "min_key", "max_key"}
  BY DEF Files
<1>2. {"partitioned_num_filter_partitions", "partitioned_num_index_partitions",
       "unify_num_partitions"} \subseteq DOMAIN sizes
  BY DEF MetadataSizes
<1>3. \A x \in DOMAIN file : f[x] = file[x]
  BY Zenon DEF WithSizes
<1>4. \A x \in DOMAIN sizes : x \notin DOMAIN file => f[x] = sizes[x]
  BY Zenon DEF WithSizes
<1>5. file.num_keys \in Int
  BY DEF Files
<1> HIDE DEF f, sizes
<1>6. f.sst_id = file.sst_id /\ f.min_key = file.min_key /\ f.max_key = file.max_key
  BY <1>1, <1>3
<1>7. /\ f.partitioned_num_filter_partitions = sizes.partitioned_num_filter_partitions
      /\ f.partitioned_num_index_partitions = sizes.partitioned_num_index_partitions
      /\ f.unify_num_partitions = sizes.unify_num_partitions
  BY <1>1, <1>2, <1>4
<1>8. /\ sizes.partitioned_num_filter_partitions \in Nat \ {0}
      /\ sizes.partitioned_num_index_partitions \in Nat \ {0}
      /\ sizes.unify_num_partitions \in Nat \ {0}
  BY <1>5, PartitionCounts DEF sizes
<1>9. ASSUME NEW tag \in Tags
      PROVE  NumPartitions(f, tag) \in Nat \ {0}
  <2>1. CASE tag = 4
    BY <1>7, <1>8, <2>1 DEF NumPartitions, DataTag
  <2>2. CASE tag = 6
    BY <1>7, <1>8, <2>2 DEF NumPartitions, DataTag
  <2>3. CASE tag = 8
    BY <1>7, <1>8, <2>3 DEF NumPartitions, DataTag
  <2>4. CASE tag = DataTag
    BY <2>4, KeysAssumption DEF NumPartitions, DataTag
  <2>5. CASE tag \notin {4, 6, 8, DataTag}
    BY <2>5 DEF NumPartitions, DataTag
  <2> QED
    BY <2>1, <2>2, <2>3, <2>4, <2>5
<1> QED
  BY <1>6, <1>9 DEF f, sizes

LEMMA DivMonotonic ==
  ASSUME NEW a \in Int, NEW b \in Int, NEW d \in Nat \ {0}, a <= b
  PROVE  a \div d \in Int /\ b \div d \in Int /\ a \div d <= b \div d
OBVIOUS

LEMMA PartitionsInOrder ==
  ASSUME NEW f, f.min_key \in Int, f.max_key \in Int, NEW n \in Nat \ {0},
         NEW k \in f.min_key..f.max_key
  PROVE  /\ PartitionOf(f, k, n) \in 0..n - 1
         /\ \A l \in k..f.max_key : PartitionOf(f, k, n) <= PartitionOf(f, l, n)
<1> DEFINE span == f.max_key - f.min_key
           p(l) == ((l - f.min_key) * n) \div span
<1>1. CASE span <= 0
  <2>1. \A l : PartitionOf(f, l, n) = 0
    BY <1>1, Zenon DEF PartitionOf
  <2> QED
    BY <2>1
<1>2. CASE ~(span <= 0)
  <2>1. span \in Nat \ {0}
    BY <1>2
  <2>2. \A l : PartitionOf(f, l, n) = IF p(l) > n - 1 THEN n - 1 ELSE p(l)
    BY <1>2, Zenon DEF PartitionOf
  <2>3. ASSUME NEW l \in k..f.max_key
        PROVE  p(k) \in Nat /\ p(l) \in Nat /\ p(k) <= p(l)
    <3>1. k - f.min_key \in Nat /\ l - f.min_key \in Nat /\ k - f.min_key <= l - f.min_key
      OBVIOUS
    <3>2. \A a \in Nat, b \in Nat : a <= b => a * n <= b * n
      OBVIOUS
    <3>3. /\ (k - f.min_key) * n <= (l - f.min_key) * n
          /\ (k - f.min_key) * n \in Nat /\ (l - f.min_key) * n \in Nat
      BY <3>1, <3>2
    <3>4. \A a \in Nat, d \in Nat \ {0} : a \div d \in Nat
      OBVIOUS
    <3>5. \A a \in Int, b \in Int, d \in Nat \ {0} : a <= b => a \div d <= b \div d
      BY DivMonotonic
    <3> DEFINE up(i) == (i - f.min_key) * n
    <3>6. up(k) \in Nat /\ up(l) \in Nat /\ up(k) <= up(l)
      BY <3>3
    <3> HIDE DEF span, up
    <3>7. /\ up(k) \div span \in Nat /\ up(l) \div span \in Nat
          /\ up(k) \div span <= up(l) \div span
      BY <2>1, <3>4, <3>5, <3>6
    <3> QED
      BY <3>7 DEF up
  <2> HIDE DEF p, span
  <2>4. k \in k..f.max_key
    OBVIOUS
  <2> QED
    BY <2>2, <2>3, <2>4
<1> QED
  BY <1>1, <1>2

-----------------------------------------------------------------------------
(* A file of the tree is one that was loaded, and has partitions of every
   kind. *)
LEMMA LoadedFile ==
  ASSUME LoaderInv, NEW f \in SSTs
  PROVE  /\ f.sst_id \in 0..Len(out) - 1
         /\ f.min_key \in Int /\ f.max_key \in Int
         /\ \A tag \in Tags : NumPartitions(f, tag) \in Nat \ {0}
<1>1. out \in Seq(Files) /\ Len(out) \in Nat
  BY ReadFacts DEF LoaderInv
<1>2. out = [n \in 1..Len(out) |-> Meant(n)]
  BY Zenon DEF LoaderInv, ReadSoFar
<1>3. PICK n \in DOMAIN out : f = WithSizes(out[n])
  BY Zenon DEF SSTs
<1>4. n \in 1..Len(out) /\ out[n] \in Files
  BY <1>1, <1>3
<1>5. out[n].sst_id = n - 1
  <2>1. out[n] = Meant(n)
    BY <1>2, <1>4, Zenon
  <2> QED
    BY <2>1 DEF Meant
<1>6. /\ f.sst_id = out[n].sst_id
      /\ f.min_key = out[n].min_key /\ f.max_key = out[n].max_key
      /\ \A tag \in Tags : NumPartitions(f, tag) \in Nat \ {0}
  BY <1>3, <1>4, FileFields, Zenon
<1>7. out[n].min_key \in Int /\ out[n].max_key \in Int
  BY <1>4 DEF Files
<1>8. n - 1 \in 0..Len(out) - 1
  BY <1>1, <1>4
<1> QED
  BY <1>5, <1>6, <1>7, <1>8, Zenon

LEMMA PartitionOfKey ==
  ASSUME LoaderInv, NEW f \in SSTs, NEW tag \in Tags, NEW k \in KeysOf(f)
  PROVE  /\ Partition(f, k, tag) \in 0..NumPartitions(f, tag) - 1
         /\ tag # DataTag =>
              \A l \in k..f.max_key : Partition(f, k, tag) <= Partition(f, l, tag)
<1>1. /\ f.min_key \in Int /\ f.max_key \in Int
      /\ NumPartitions(f, tag) \in Nat \ {0}
  BY LoadedFile
<1>2. k \in f.min_key..f.max_key /\ k \in Nat
  BY <1>1 DEF KeysOf
<1>3. CASE tag = DataTag
  <2>1. NumPartitions(f, tag) = DataSlots /\ DataSlots \in Nat \ {0}
    BY <1>3, KeysAssumption DEF NumPartitions, DataTag
  <2>2. Partition(f, k, tag) = k % DataSlots
    BY <1>3 DEF Partition
  <2>3. k % DataSlots \in 0..DataSlots - 1
    BY <1>2, <2>1
  <2> QED
    BY <1>3, <2>1, <2>2, <2>3, Zenon
<1>4. CASE tag # DataTag
  <2> DEFINE count == NumPartitions(f, tag)
  <2>1. \A l : Partition(f, l, tag) = PartitionOf(f, l, count)
    BY <1>4, Zenon DEF Partition
  <2> HIDE DEF count
  <2>2. count \in Nat \ {0}
    BY <1>1 DEF count
  <2>3. /\ PartitionOf(f, k, count) \in 0..count - 1
        /\ \A l \in k..f.max_key : PartitionOf(f, k, count) <= PartitionOf(f, l, count)
    BY <1>1, <1>2, <2>2, PartitionsInOrder
  <2> QED
    BY <2>1, <2>3, Zenon DEF count
<1> QED
  BY <1>3, <1>4

(* Every key of a file falls in a partition that the file has, and the
   partitions follow each other in the order of the keys. *)
THEOREM PartitionsCorrect == Spec => []PartitionsSplitTheFile
<1>1. LoaderInv => PartitionsSplitTheFile
  BY PartitionOfKey, Zenon DEF PartitionsSplitTheFile
<1> QED
  BY <1>1, LoaderInvariant, PTL

-----------------------------------------------------------------------------
LEMMA ShardCount == num_shards \in {1, 2, 4, 8, 16, 32, 64}
<1>1. TargetShards \in 1..64
  <2>1. capacity \div ShardBytes \in Nat
    <3>1. \A a \in Nat, d \in Nat \ {0} : a \div d \in Nat
      OBVIOUS
    <3> QED
      BY <3>1, KeysAssumption
  <2> QED
    BY <2>1 DEF TargetShards
<1>2. /\ OneShifted(0) = 1 /\ OneShifted(1) = 2 /\ OneShifted(2) = 4 /\ OneShifted(3) = 8
      /\ OneShifted(4) = 16 /\ OneShifted(5) = 32 /\ OneShifted(6) = 64
  BY DEF OneShifted
<1> DEFINE enough(bits) ==
             /\ OneShifted(bits) >= TargetShards
             /\ \A b \in 0..bits - 1 : OneShifted(b) < TargetShards
<1>3. \E bits \in 0..6 : enough(bits)
  <2>1. CASE TargetShards <= 1
    <3>1. enough(0)
      BY <1>1, <1>2, <2>1
    <3> QED
      BY <3>1
  <2>2. CASE TargetShards = 2
    <3>1. \A b \in 0..1 - 1 : b = 0
      OBVIOUS
    <3>2. enough(1)
      BY <1>2, <2>2, <3>1
    <3> QED
      BY <3>2
  <2>3. CASE TargetShards \in 3..4
    <3>1. \A b \in 0..2 - 1 : b \in {0, 1}
      OBVIOUS
    <3>2. enough(2)
      BY <1>2, <2>3, <3>1
    <3> QED
      BY <3>2
  <2>4. CASE TargetShards \in 5..8
    <3>1. \A b \in 0..3 - 1 : b \in {0, 1, 2}
      OBVIOUS
    <3>2. enough(3)
      BY <1>2, <2>4, <3>1
    <3> QED
      BY <3>2
  <2>5. CASE TargetShards \in 9..16
    <3>1. \A b \in 0..4 - 1 : b \in {0, 1, 2, 3}
      OBVIOUS
    <3>2. enough(4)
      BY <1>2, <2>5, <3>1
    <3> QED
      BY <3>2
  <2>6. CASE TargetShards \in 17..32
    <3>1. \A b \in 0..5 - 1 : b \in {0, 1, 2, 3, 4}
      OBVIOUS
    <3>2. enough(5)
      BY <1>2, <2>6, <3>1
    <3> QED
      BY <3>2
  <2>7. CASE TargetShards \in 33..64
    <3>1. \A b \in 0..6 - 1 : b \in {0, 1, 2, 3, 4, 5}
      OBVIOUS
    <3>2. enough(6)
      BY <1>2, <2>7, <3>1
    <3> QED
      BY <3>2
  <2> QED
    BY <1>1, <2>1, <2>2, <2>3, <2>4, <2>5, <2>6, <2>7
<1>4. auto_shard_bits \in 0..6
  BY <1>3, Zenon DEF auto_shard_bits
<1>5. auto_shard_bits \in {0, 1, 2, 3, 4, 5, 6}
  BY <1>4
<1> QED
  BY <1>2, <1>5 DEF num_shards

LEMMA BlockRead ==
  ASSUME LoaderInv, NEW b \in BlocksRead
  PROVE  /\ b = <<b[1], b[2], b[3]>>
         /\ b[1] \in 0..Len(out) - 1 /\ b[2] \in Tags /\ b[3] \in Nat
         /\ FieldsFit => (b[3] + 1) * PartitionUnit <= Word
<1>1. PICK f \in SSTs : b \in BlocksOf(f)
  BY Zenon DEF BlocksRead
<1>2. PICK k \in KeysOf(f), tag \in Tags : b = <<f.sst_id, tag, Partition(f, k, tag)>>
  BY <1>1 DEF BlocksOf
<1>3. b[1] = f.sst_id /\ b[2] = tag /\ b[3] = Partition(f, k, tag)
  BY <1>2
<1>4. /\ f.sst_id \in 0..Len(out) - 1 /\ NumPartitions(f, tag) \in Nat \ {0}
      /\ Partition(f, k, tag) \in 0..NumPartitions(f, tag) - 1
  BY <1>1, <1>2, LoadedFile, PartitionOfKey
<1>5. b[3] \in Nat
  BY <1>3, <1>4
<1>6. ASSUME FieldsFit
      PROVE  (b[3] + 1) * PartitionUnit <= Word
  <2>1. NumPartitions(f, tag) * PartitionUnit <= Word
    BY <1>1, <1>2, <1>6, Zenon DEF FieldsFit
  <2> DEFINE count == NumPartitions(f, tag)
             p == b[3]
  <2>2. p + 1 <= count /\ p \in Nat /\ count \in Nat
    BY <1>3, <1>4
  <2>3. \A u \in Nat, x \in Nat, y \in Nat : x + 1 <= y => (x + 1) * u <= y * u
    OBVIOUS
  <2> HIDE DEF count, p
  <2>4. (p + 1) * PartitionUnit <= count * PartitionUnit
    BY <2>2, <2>3, KeysAssumption
  <2>5. (p + 1) * PartitionUnit \in Nat /\ count * PartitionUnit \in Nat /\ Word \in Nat
    BY <2>2, KeysAssumption
  <2>6. count * PartitionUnit <= Word
    BY <2>1 DEF count
  <2>7. (p + 1) * PartitionUnit <= Word
    BY <2>4, <2>5, <2>6
  <2> QED
    BY <2>7 DEF p
<1> QED
  BY <1>2, <1>3, <1>4, <1>5, <1>6

LEMMA Divided ==
  ASSUME NEW a \in Nat, NEW d \in Nat \ {0}
  PROVE  a \div d \in Nat /\ a % d \in Nat /\ a % d < d /\ a = d * (a \div d) + (a % d)
OBVIOUS

(* The units of the fields are multiples of 64, and so of the number of
   shards. *)
LEMMA KeyModShards ==
  ASSUME NEW id \in Nat, NEW tag \in Nat, NEW p \in Nat
  PROVE  make_cache_key(id, tag, p) % num_shards = id % num_shards
<1>1. PICK t \in Nat : TagUnit = 64 * t
  <2>1. TagUnit \in Nat /\ TagUnit % 64 = 0
    BY KeysAssumption
  <2> QED
    BY <2>1, Divided
<1>2. PICK u \in Nat : PartitionUnit = 64 * u
  <2>1. TagUnit \in Nat \ {0} /\ PartitionUnit \in Nat /\ PartitionUnit % TagUnit = 0
    BY KeysAssumption
  <2>2. PICK j \in Nat : PartitionUnit = TagUnit * j
    BY <2>1, Divided
  <2>3. PartitionUnit = 64 * (t * j) /\ t * j \in Nat
    BY <1>1, <2>2
  <2> QED
    BY <2>3
<1>3. PartitionUnit \in Nat \ {0} /\ Word \in Nat \ {0} /\ Word % PartitionUnit = 0
  <2>1. /\ TagUnit \in Nat \ {0} /\ PartitionUnit \in Nat /\ 10 * TagUnit <= PartitionUnit
        /\ Word \in Nat /\ Word % PartitionUnit = 0
        /\ DataSlots \in Nat \ {0} /\ DataSlots * PartitionUnit <= Word
    BY KeysAssumption
  <2>2. PartitionUnit # 0
    BY <2>1
  <2>3. \A a \in Nat \ {0}, b \in Nat \ {0} : a * b \in Nat \ {0}
    OBVIOUS
  <2>4. DataSlots * PartitionUnit \in Nat \ {0}
    BY <2>1, <2>2, <2>3
  <2> QED
    BY <2>1, <2>2, <2>4
<1>4. PICK w \in Nat : Word = 64 * w
  <2>1. PICK j \in Nat : Word = PartitionUnit * j
    <3>1. /\ Word \div PartitionUnit \in Nat
          /\ Word = PartitionUnit * (Word \div PartitionUnit) + (Word % PartitionUnit)
      BY <1>3, Divided
    <3>2. \A a \in Nat : a + 0 = a
      OBVIOUS
    <3>3. PICK j \in Nat : Word = PartitionUnit * j + 0
      BY <1>3, <3>1
    <3> QED
      BY <1>3, <3>3
  <2>2. Word = 64 * (u * j) /\ u * j \in Nat
    BY <1>2, <2>1
  <2> QED
    BY <2>2
<1> DEFINE sum == id + tag * TagUnit + p * PartitionUnit
<1>5. PICK y \in Nat : sum = id + 64 * y
  <2>1. sum = id + 64 * (tag * t + p * u) /\ tag * t + p * u \in Nat
    BY <1>1, <1>2
  <2> QED
    BY <2>1
<1>6. make_cache_key(id, tag, p) = sum % Word
  BY DEF make_cache_key
<1> HIDE DEF sum
<1>7. PICK z \in Nat : sum % Word \in Nat /\ sum = 64 * z + (sum % Word)
  <2>1. sum \in Nat
    BY <1>5
  <2>2. /\ sum \div Word \in Nat /\ sum % Word \in Nat
        /\ sum = Word * (sum \div Word) + (sum % Word)
    BY <1>3, <2>1, Divided
  <2>3. PICK q \in Nat : sum = Word * q + (sum % Word)
    BY <2>2
  <2>4. Word * q = 64 * (w * q) /\ w * q \in Nat
    BY <1>4
  <2> QED
    BY <2>2, <2>3, <2>4
<1>8. \A r \in Nat : id + 64 * y = 64 * z + r =>
        /\ r % 1 = id % 1 /\ r % 2 = id % 2 /\ r % 4 = id % 4 /\ r % 8 = id % 8
        /\ r % 16 = id % 16 /\ r % 32 = id % 32 /\ r % 64 = id % 64
  OBVIOUS
<1> DEFINE r == sum % Word
<1>9. r \in Nat /\ id + 64 * y = 64 * z + r
  BY <1>5, <1>7
<1> HIDE DEF r
<1>10. /\ r % 1 = id % 1 /\ r % 2 = id % 2 /\ r % 4 = id % 4 /\ r % 8 = id % 8
       /\ r % 16 = id % 16 /\ r % 32 = id % 32 /\ r % 64 = id % 64
  BY <1>8, <1>9, Zenon
<1>11. make_cache_key(id, tag, p) = r
  BY <1>6 DEF r
<1> QED
  BY <1>10, <1>11, ShardCount, Zenon

(* A file has all of its blocks in one shard, and the files are dealt to the
   shards in the order of the layout. *)
THEOREM FilesCorrect == Spec => []FileInOneShard
<1>1. LoaderInv => FileInOneShard
  <2> SUFFICES ASSUME LoaderInv, NEW b \in BlocksRead
               PROVE  ShardOf(CacheKeyOf(b)) = b[1] % num_shards
    BY DEF FileInOneShard
  <2>1. b[1] \in Nat /\ b[2] \in Nat /\ b[3] \in Nat
    BY BlockRead DEF Tags
  <2> QED
    BY <2>1, KeyModShards DEF ShardOf, CacheKeyOf
<1> QED
  BY <1>1, LoaderInvariant, PTL

-----------------------------------------------------------------------------
LEMMA Digits ==
  ASSUME NEW unit \in Nat, NEW a \in Nat, NEW b \in Nat, NEW x \in Nat, NEW y \in Nat,
         x < unit, y < unit, x + a * unit = y + b * unit
  PROVE  a = b /\ x = y
<1>1. \A i \in Nat, j \in Nat : i < j => i * unit + unit <= j * unit
  <2> SUFFICES ASSUME NEW i \in Nat, NEW j \in Nat, i < j
               PROVE  i * unit + unit <= j * unit
    OBVIOUS
  <2>1. PICK d \in Nat : j = i + 1 + d
    <3>1. j - i - 1 \in Nat /\ j = i + 1 + (j - i - 1)
      OBVIOUS
    <3> QED
      BY <3>1
  <2>2. j * unit = i * unit + unit + d * unit /\ d * unit \in Nat
    BY <2>1
  <2>3. i * unit \in Nat /\ j * unit \in Nat
    OBVIOUS
  <2> QED
    BY <2>2, <2>3
<1>2. a * unit \in Nat /\ b * unit \in Nat
  OBVIOUS
<1>3. ~(a < b)
  BY <1>1, <1>2
<1>4. ~(b < a)
  BY <1>1, <1>2
<1>5. a = b
  BY <1>3, <1>4
<1> QED
  BY <1>2, <1>5

(* The key of a block that is read: its fields do not run into each other,
   and the word does not overflow. *)
LEMMA KeyIsPacked ==
  ASSUME LoaderInv, FieldsFit, NEW b \in BlocksRead
  PROVE  /\ CacheKeyOf(b) = (b[1] + b[2] * TagUnit) + b[3] * PartitionUnit
         /\ b[1] \in Nat /\ b[1] < TagUnit /\ b[2] \in Nat /\ b[3] \in Nat
         /\ b[1] + b[2] * TagUnit \in Nat /\ b[1] + b[2] * TagUnit < PartitionUnit
<1> DEFINE id == b[1]  tag == b[2]  p == b[3]
<1>1. /\ id \in 0..Len(out) - 1 /\ tag \in 1..9 /\ p \in Nat
      /\ (p + 1) * PartitionUnit <= Word
  BY BlockRead DEF Tags
<1>2. Len(out) \in Nat /\ Len(out) <= TagUnit
  BY ReadFacts DEF LoaderInv, FieldsFit
<1>3. /\ TagUnit \in Nat \ {0} /\ PartitionUnit \in Nat /\ 10 * TagUnit <= PartitionUnit
      /\ Word \in Nat
  BY KeysAssumption
<1>4. CacheKeyOf(b) = (id + tag * TagUnit + p * PartitionUnit) % Word
  BY DEF CacheKeyOf, make_cache_key
<1> HIDE DEF id, tag, p
<1>5. id \in Nat /\ id < TagUnit /\ tag \in Nat
  BY <1>1, <1>2, <1>3
<1>6. tag * TagUnit \in Nat /\ tag * TagUnit <= 9 * TagUnit
  <2>1. tag \in {1, 2, 3, 4, 5, 6, 7, 8, 9}
    BY <1>1
  <2> QED
    BY <1>3, <2>1
<1>7. id + tag * TagUnit \in Nat /\ id + tag * TagUnit < PartitionUnit
  BY <1>3, <1>5, <1>6
<1>8. p * PartitionUnit \in Nat /\ p * PartitionUnit + PartitionUnit <= Word
  <2>1. \A x \in Nat, u \in Nat : (x + 1) * u = x * u + u /\ x * u \in Nat
    OBVIOUS
  <2> QED
    BY <1>1, <1>3, <2>1
<1> DEFINE low == id + tag * TagUnit
           high == p * PartitionUnit
<1>9. low + high \in 0..Word - 1
  <2> HIDE DEF low, high
  <2>1. low \in Nat /\ low < PartitionUnit /\ high \in Nat /\ high + PartitionUnit <= Word
    BY <1>7, <1>8 DEF low, high
  <2> QED
    BY <1>3, <2>1
<1>10. \A x \in Nat, w \in Nat : x \in 0..w - 1 => x % w = x
  OBVIOUS
<1>11. (low + high) % Word = low + high
  <2> HIDE DEF low, high
  <2>1. low + high \in Nat
    BY <1>3, <1>9
  <2> QED
    BY <1>3, <1>9, <1>10, <2>1
<1> QED
  BY <1>1, <1>4, <1>5, <1>7, <1>11, Zenon DEF id, tag, p

(* Two blocks of the files that were loaded never share a cache key, as long
   as their numbers fit in its fields. *)
THEOREM NamesCorrect == Spec => []KeyNamesOneBlock
<1>1. LoaderInv => KeyNamesOneBlock
  <2> SUFFICES ASSUME LoaderInv, FieldsFit, NEW a \in BlocksRead, NEW b \in BlocksRead,
                      CacheKeyOf(a) = CacheKeyOf(b)
               PROVE  a = b
    BY DEF KeyNamesOneBlock
  <2>1. /\ CacheKeyOf(a) = (a[1] + a[2] * TagUnit) + a[3] * PartitionUnit
        /\ a[1] \in Nat /\ a[1] < TagUnit /\ a[2] \in Nat /\ a[3] \in Nat
        /\ a[1] + a[2] * TagUnit \in Nat /\ a[1] + a[2] * TagUnit < PartitionUnit
    BY KeyIsPacked
  <2>2. /\ CacheKeyOf(b) = (b[1] + b[2] * TagUnit) + b[3] * PartitionUnit
        /\ b[1] \in Nat /\ b[1] < TagUnit /\ b[2] \in Nat /\ b[3] \in Nat
        /\ b[1] + b[2] * TagUnit \in Nat /\ b[1] + b[2] * TagUnit < PartitionUnit
    BY KeyIsPacked
  <2>3. PartitionUnit \in Nat /\ TagUnit \in Nat
    BY KeysAssumption
  <2> DEFINE lowA == a[1] + a[2] * TagUnit
             lowB == b[1] + b[2] * TagUnit
  <2>4. a[3] = b[3] /\ lowA = lowB
    <3> DEFINE i == a[3]  j == b[3]
    <3>1. /\ lowA \in Nat /\ lowA < PartitionUnit /\ i \in Nat
          /\ lowB \in Nat /\ lowB < PartitionUnit /\ j \in Nat
          /\ lowA + i * PartitionUnit = lowB + j * PartitionUnit
      BY <2>1, <2>2, Zenon
    <3> HIDE DEF lowA, lowB, i, j
    <3>2. i = j /\ lowA = lowB
      BY <2>3, <3>1, Digits
    <3> QED
      BY <3>2 DEF i, j
  <2>5. a[2] = b[2] /\ a[1] = b[1]
    <3>1. a[1] + a[2] * TagUnit = b[1] + b[2] * TagUnit
      BY <2>4
    <3> DEFINE x == a[1]  y == b[1]  m == a[2]  l == b[2]
    <3>2. /\ x \in Nat /\ x < TagUnit /\ m \in Nat /\ y \in Nat /\ y < TagUnit
          /\ l \in Nat /\ x + m * TagUnit = y + l * TagUnit
      BY <2>1, <2>2, <3>1, Zenon
    <3> HIDE DEF x, y, m, l
    <3>3. m = l /\ x = y
      BY <2>3, <3>2, Digits
    <3> QED
      BY <3>3 DEF x, y, m, l
  <2>6. a = <<a[1], a[2], a[3]>> /\ b = <<b[1], b[2], b[3]>>
    BY BlockRead
  <2> QED
    BY <2>4, <2>5, <2>6, Zenon
<1> QED
  BY <1>1, LoaderInvariant, PTL
=============================================================================
