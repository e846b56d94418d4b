---------------------------- MODULE LayoutLoader ----------------------------
(***************************************************************************)
(* harness/layout_loader: the hand-written reader of the layout file, an   *)
(* array of flat objects, one for each file of the tree.  A step reads one *)
(* token; what next, expect, read_string and read_int throw is one state,  *)
(* "refused".  The characters of a token are left out: a name that is cut  *)
(* off ends at the end of the text, where the next token is missing, and   *)
(* read_int stops at the first character that is not of an integer.  The   *)
(* numbers are an int64_t's: stoll throws at any other.                    *)
(***************************************************************************)
EXTENDS LsmTree

CONSTANTS Layouts, \* sequences of objects, each a sequence of <<name, number>>
          cfg,     \* key_size, value_size and the rest of LSMConfig
          IntWidth \* the number of values of an int, 2^32

kv == cfg.key_size + cfg.value_size

ASSUME LayoutAssumption ==
  /\ Layouts \subseteq Seq(Seq(STRING \X Int))
  /\ kv \in Nat \ {0}
  /\ IntWidth \in Nat \ {0}

VARIABLES layout, \* what the writer of the file meant
          cut,    \* whether the file ends at pos_, before its end
          pos_,   \* <<line, column>> of the token that is read next
          pc,     \* where in the loops, or "loaded" or "refused"
          key,    \* of the running loop over the fields
          size_bytes, s, out

document == <<layout, cut>>
vars == <<document, pos_, pc, key, size_bytes, s, out>>

(* The text of a layout: the opening bracket on a line of its own, and a line
   for each object with the comma or the bracket that follows it. *)
FieldTokens(fields, i) ==
  <<<<"string", fields[i][1]>>, <<":">>, <<"number", fields[i][2]>>,
    <<IF i = Len(fields) THEN "}" ELSE ",">>>>

Width(objects, n) ==
  IF n = 0 THEN IF objects = <<>> THEN 2 ELSE 1
  ELSE IF objects[n] = <<>> THEN 3 ELSE 4 * Len(objects[n]) + 2

ObjectToken(fields, c) ==
  IF c = 1 THEN <<"{">>
  ELSE IF fields = <<>> THEN <<"}">>
  ELSE FieldTokens(fields, (c - 2) \div 4 + 1)[((c - 2) % 4) + 1]

TextAt(objects, n, c) ==
  IF n = 0 THEN IF c = 1 THEN <<"[">> ELSE <<"]">>
  ELSE IF c = Width(objects, n) THEN IF n = Len(objects) THEN <<"]">> ELSE <<",">>
  ELSE ObjectToken(objects[n], c)

EmptyFile(id) ==
  [sst_id |-> id, level |-> 0, num_keys |-> 0, min_key |-> 0, max_key |-> 0]

Init ==
  /\ layout \in Layouts
  /\ cut = FALSE
  /\ pos_ = <<0, 1>>
  /\ pc = "["
  /\ key = "" /\ size_bytes = 0 /\ s = EmptyFile(0) /\ out = <<>>

-----------------------------------------------------------------------------
AtEnd == pos_[1] > Len(layout)

(* The token that is read next, or none at the end of the file. *)
token == IF cut \/ AtEnd THEN <<"">> ELSE TextAt(layout, pos_[1], pos_[2])

(* The file ends here: it was not written to its end. *)
CutShort ==
  /\ pc \notin {"loaded", "refused"}
  /\ ~cut /\ ~AtEnd
  /\ cut' = TRUE
  /\ UNCHANGED <<layout, pos_, pc, key, size_bytes, s, out>>

Take(at, kind, then) ==
  /\ pc = at
  /\ token[1] = kind
  /\ pos_' = IF pos_[2] < Width(layout, pos_[1]) THEN <<pos_[1], pos_[2] + 1>>
             ELSE <<pos_[1] + 1, 1>>
  /\ pc' = then
  /\ UNCHANGED document

OpenArray == Take("[", "[", "{ or ]") /\ UNCHANGED <<key, size_bytes, s, out>>

EmptyArray ==
  Take("{ or ]", "]", "loaded") /\ UNCHANGED <<key, size_bytes, s, out>>

\* Fault: the record of the file before is used again.
FileAgain == [s EXCEPT !.sst_id = Len(out)]

NewFile == EmptyFile(Len(out))

OpenFile ==
  /\ Take("{ or ]", "{", "name") \/ Take("{", "{", "name")
  /\ s' = NewFile
  /\ size_bytes' = 0
  /\ UNCHANGED <<key, out>>

ReadName ==
  /\ Take("name", "string", ":")
  /\ key' = token[2]
  /\ UNCHANGED <<size_bytes, s, out>>

ReadColon == Take(":", ":", "number") /\ UNCHANGED <<key, size_bytes, s, out>>

\* What is left of a number that is cast to int.
AsInt(n) == ((n + IntWidth \div 2) % IntWidth) - IntWidth \div 2

Stored(name, number) == IF name = "level" THEN AsInt(number) ELSE number

ReadNumber ==
  /\ Take("number", "number", ", or }")
  /\ size_bytes' = IF key = "size" THEN token[2] ELSE size_bytes
  /\ s' = IF key \in {"level", "min_key", "max_key"}
          THEN [s EXCEPT ![key] = Stored(key, token[2])]
          ELSE s
  /\ UNCHANGED <<key, out>>

NextField == Take(", or }", ",", "name") /\ UNCHANGED <<key, size_bytes, s, out>>

CloseFile ==
  /\ Take(", or }", "}", ", or ]")
  /\ s' = [s EXCEPT !.num_keys = AtLeastOne(size_bytes \div kv)]
  /\ out' = Append(out, s')
  /\ UNCHANGED <<key, size_bytes>>

NextFile == Take(", or ]", ",", "{") /\ UNCHANGED <<key, size_bytes, s, out>>

CloseArray == Take(", or ]", "]", "loaded") /\ UNCHANGED <<key, size_bytes, s, out>>

ReadToken ==
  \/ OpenArray \/ EmptyArray \/ OpenFile \/ ReadName \/ ReadColon \/ ReadNumber
  \/ NextField \/ CloseFile \/ NextFile \/ CloseArray

\* The kinds of token that are right, at each place.
Expected ==
  [at \in {"[", "{", "name", ":", "number", "{ or ]", ", or }", ", or ]"} |->
     CASE at = "name" -> {"string"}
       [] at = "{ or ]" -> {"{", "]"}
       [] at = ", or }" -> {",", "}"}
       [] at = ", or ]" -> {",", "]"}
       [] OTHER -> {at}]

Throw ==
  /\ pc \in DOMAIN Expected
  /\ token[1] \notin Expected[pc]
  /\ pc' = "refused"
  /\ UNCHANGED <<document, pos_, key, size_bytes, s, out>>

Next == ReadToken \/ Throw \/ CutShort

Spec == Init /\ [][Next]_vars

-----------------------------------------------------------------------------
(* The number that a name has at last in the first m fields of an object, if
   it has one there. *)
LastOf(fields, m, name) ==
  LET at == {i \in 1..m : fields[i][1] = name}
  IN  IF at = {} THEN 0 ELSE fields[CHOOSE i \in at : \A j \in at : j <= i][2]

Meant(n) ==
  LET number(name) == LastOf(layout[n], Len(layout[n]), name)
  IN  [sst_id |-> n - 1,
       level |-> AsInt(number("level")),
       num_keys |-> AtLeastOne(number("size") \div kv),
       min_key |-> number("min_key"),
       max_key |-> number("max_key")]

(* The tree that the simulator runs on is the one that was written: a layout
   is loaded with all its files in their order, each with its own numbers (a
   level, as an int) and none of the file before, or it is refused; and a layout is refused if it
   was cut short wherever that may be, or has an object without a field. *)
LoaderReadsTheLayout ==
  /\ pc = "loaded" => ~cut /\ out = [n \in DOMAIN layout |-> Meant(n)]
  /\ pc = "refused" => cut \/ \E n \in DOMAIN layout : layout[n] = <<>>
=============================================================================
