------------------------------ MODULE JsonText ------------------------------
(***************************************************************************)
(* Printing and parsing in code/json/cjson/cJSON.c. A text is a sequence   *)
(* of characters without its terminating zero, an item a record. Numbers   *)
(* are millionths: the %f of print_number keeps no more. Escapes \u are    *)
(* those that are printed, and malloc does not fail.                       *)
(***************************************************************************)
EXTENDS Integers, Sequences, SequencesExt

CONSTANT Prebuffers       \* lengths given to cJSON_PrintBuffered

VARIABLES jsonDoc,        \* an item
          jsonText,       \* a text made from it
          jsonStage,      \* "item", "printed", "annotated" or "minified"
          jsonFormat,     \* whether it was formatted
          jsonFits        \* no character was written past the end of a buffer

textVars == <<jsonDoc, jsonText, jsonStage, jsonFormat, jsonFits>>

Item(type) == [type |-> type, number |-> 0, chars |-> <<>>, names |-> <<>>, kids |-> <<>>]
Number(n) == [Item("number") EXCEPT !.number = n]
Text(s) == [Item("string") EXCEPT !.chars = s]
List(kids) == [Item("array") EXCEPT !.kids = kids]
Object(names, kids) == [Item("object") EXCEPT !.names = names, !.kids = kids]
Word(type) == CASE type = "null" -> <<"n", "u", "l", "l">>
                [] type = "true" -> <<"t", "r", "u", "e">>
                [] type = "false" -> <<"f", "a", "l", "s", "e">>

Control == "SOH"                                 \* a character below 32 without a letter
Digit == <<"0", "1", "2", "3", "4", "5", "6", "7", "8", "9">>
DigitOf(c) == (CHOOSE d \in 1..10 : Digit[d] = c) - 1
IsDigit(c) == \E d \in 1..10 : Digit[d] = c
Tabs(n) == [i \in 1..n |-> "\t"]
If(cond, s) == IF cond THEN s ELSE <<>>
Sum(s) == FoldLeft(LAMBDA a, b : a + b, 0, s)

RECURSIVE Decimal(_, _)
Decimal(n, places) ==
  IF n < 10 /\ places <= 1 THEN <<Digit[n + 1]>>
  ELSE Append(Decimal(n \div 10, places - 1), Digit[(n % 10) + 1])

\* A text and the size of the buffer asked for it.
print_number(n) ==
  LET abs == IF n < 0 THEN -n ELSE n
      whole == If(n < 0, <<"-">>) \o Decimal(abs \div 1000000, 1)
  IN IF n = 0 THEN [text |-> <<"0">>, room |-> 2]
     ELSE IF n % 1000000 = 0 THEN [text |-> whole, room |-> 21]
     ELSE [text |-> whole \o <<".">> \o Decimal(abs % 1000000, 6), room |-> 64]

Letter == [c \in {"\"", "\\", "\n", "\t"} |->
             CASE c = "\n" -> "n" [] c = "\t" -> "t" [] OTHER -> c]
Escaped(c) == IF c \in DOMAIN Letter THEN <<"\\", Letter[c]>>
              ELSE IF c = Control THEN <<"\\", "u", "0", "0", "0", "1">> ELSE <<c>>

\* MUTANT Width: an escape is counted as one character.
WidthOne(c) == 1
Width(c) == IF c \in DOMAIN Letter THEN 2 ELSE IF c = Control THEN 6 ELSE 1

print_string_ptr(s) ==
  [text |-> <<"\"">> \o FlattenSeq([i \in DOMAIN s |-> Escaped(s[i])]) \o <<"\"">>,
   room |-> Sum([i \in DOMAIN s |-> Width(s[i])]) + 3]

\* The text of members or elements with what stands before, between and behind.
Joined(parts, between) ==
  FlattenSeq([i \in DOMAIN parts |-> parts[i] \o If(i < Len(parts), between)])

Fits(out) == Len(out.text) + 1 <= out.room

RECURSIVE print_value(_, _, _)
print_array(item, depth, fmt) ==
  LET entries == [i \in DOMAIN item.kids |-> print_value(item.kids[i], depth + 1, fmt)]
      texts == [i \in DOMAIN entries |-> entries[i].text]
      out == [text |-> <<"[">> \o Joined(texts, <<",">> \o If(fmt, <<" ">>)) \o <<"]">>,
              room |-> 5 + Sum([i \in DOMAIN texts |-> Len(texts[i]) + 2 + (IF fmt THEN 1 ELSE 0)])]
  IN IF texts = <<>> THEN [text |-> <<"[", "]">>, fits |-> TRUE]
     ELSE [text |-> out.text, fits |-> Fits(out) /\ \A i \in DOMAIN entries : entries[i].fits]

print_object(item, depth, fmt) ==
  LET entries == [i \in DOMAIN item.kids |-> print_value(item.kids[i], depth + 1, fmt)]
      names == [i \in DOMAIN item.names |-> print_string_ptr(item.names[i])]
      members == [i \in DOMAIN entries |->
                    If(fmt, Tabs(depth + 1)) \o names[i].text \o <<":">> \o If(fmt, <<"\t">>) \o entries[i].text]
      sizes == [i \in DOMAIN entries |->
                  Len(entries[i].text) + Len(names[i].text) + 2 + (IF fmt THEN 3 + depth ELSE 0)]
      out == [text |-> <<"{">> \o If(fmt, <<"\n">>) \o Joined(members, <<",">> \o If(fmt, <<"\n">>))
                       \o If(fmt, <<"\n">> \o Tabs(depth)) \o <<"}">>,
              room |-> 7 + (IF fmt THEN depth + 1 ELSE 0) + Sum(sizes)]
      none == [text |-> <<"{">> \o If(fmt, <<"\n">> \o Tabs(depth - 1)) \o <<"}">>,
               room |-> IF fmt THEN depth + 4 ELSE 3]
  IN IF entries = <<>> THEN [text |-> none.text, fits |-> Fits(none)]
     ELSE [text |-> out.text,
           fits |-> Fits(out) /\ \A i \in DOMAIN entries : entries[i].fits /\ Fits(names[i])]

print_value(item, depth, fmt) ==
  CASE item.type = "array" -> print_array(item, depth, fmt)
    [] item.type = "object" -> print_object(item, depth, fmt)
    [] item.type = "number" -> [text |-> print_number(item.number).text, fits |-> Fits(print_number(item.number))]
    [] item.type = "string" -> [text |-> print_string_ptr(item.chars).text,
                                fits |-> Fits(print_string_ptr(item.chars))]
    [] OTHER -> [text |-> Word(item.type), fits |-> TRUE]

----------------------------------------------------------------------------
\* The printbuffer: text up to offset, length, and whether all was inside.

RECURSIVE PowerFrom(_, _)
PowerFrom(p, x) == IF p >= x THEN p ELSE PowerFrom(2 * p, x)
pow2gt(x) == PowerFrom(1, x)

\* ensure, what is written then, with a terminating zero or without, and update.
ensure(p, needed, s, zero) ==
  LET length == IF needed + Len(p.text) <= p.length THEN p.length ELSE pow2gt(needed + Len(p.text))
  IN [text |-> p.text \o s, length |-> length,
      fits |-> p.fits /\ Len(p.text) + Len(s) + (IF zero THEN 1 ELSE 0) <= length]
Buffered(p, out) == ensure(p, out.room, out.text, TRUE)

RECURSIVE buffer_value(_, _, _, _)
buffer_array(p, item, depth, fmt) ==
  LET sep == <<",">> \o If(fmt, <<" ">>)
      step(q, i) == LET r == buffer_value(q, item.kids[i], depth + 1, fmt)
                    IN IF i < Len(item.kids) THEN ensure(r, Len(sep) + 1, sep, TRUE) ELSE r
  IN IF item.kids = <<>> THEN ensure(p, 3, <<"[", "]">>, TRUE)
     ELSE ensure(FoldLeftDomain(step, ensure(p, 1, <<"[">>, FALSE), item.kids), 2, <<"]">>, TRUE)

buffer_object(p, item, depth, fmt) ==
  LET open == <<"{">> \o If(fmt, <<"\n">>)
      colon == <<":">> \o If(fmt, <<"\t">>)
      step(q, i) ==
        LET q1 == IF fmt THEN ensure(q, depth + 1, Tabs(depth + 1), FALSE) ELSE q
            q2 == Buffered(q1, print_string_ptr(item.names[i]))
            q3 == buffer_value(ensure(q2, Len(colon), colon, FALSE), item.kids[i], depth + 1, fmt)
            end == If(i < Len(item.kids), <<",">>) \o If(fmt, <<"\n">>)
        IN ensure(q3, Len(end) + 1, end, TRUE)
      none == <<"{">> \o If(fmt, <<"\n">> \o Tabs(depth - 1)) \o <<"}">>
  IN IF item.kids = <<>> THEN ensure(p, IF fmt THEN depth + 4 ELSE 3, none, TRUE)
     ELSE ensure(FoldLeftDomain(step, ensure(p, Len(open) + 1, open, TRUE), item.kids),
                 IF fmt THEN depth + 2 ELSE 2, If(fmt, Tabs(depth)) \o <<"}">>, TRUE)

buffer_value(p, item, depth, fmt) ==
  CASE item.type = "array" -> buffer_array(p, item, depth, fmt)
    [] item.type = "object" -> buffer_object(p, item, depth, fmt)
    [] item.type = "number" -> Buffered(p, print_number(item.number))
    [] item.type = "string" -> Buffered(p, print_string_ptr(item.chars))
    [] item.type = "false" -> ensure(p, 6, Word("false"), TRUE)
    [] OTHER -> ensure(p, 5, Word(item.type), TRUE)

----------------------------------------------------------------------------
\* Parsing: what was parsed and the position behind it, 0 for NULL.

At(t, i) == IF i <= Len(t) THEN t[i] ELSE ""     \* the terminating zero
Failed == [at |-> 0, item |-> Item("null")]
StartsWith(t, i, s) == i + Len(s) - 1 <= Len(t) /\ SubSeq(t, i, i + Len(s) - 1) = s

RECURSIVE Skipped(_, _)
Skipped(t, i) == IF i > 0 /\ At(t, i) \in {" ", "\n", "\t", Control} THEN Skipped(t, i + 1) ELSE i
skip(t, i) == Skipped(t, i)

\* The characters of a string up to the quote, or to the end of the text.
RECURSIVE Unescaped(_, _, _)
Unescaped(t, i, out) ==
  LET c == At(t, i)
      e == At(t, i + 1)
  IN CASE c = "" -> [at |-> i, item |-> Text(out)]
       [] c = "\"" -> [at |-> i + 1, item |-> Text(out)]
       [] c = "\\" /\ e = "u" -> Unescaped(t, i + 6, Append(out, Control))
       [] c = "\\" /\ e # "u" ->
            Unescaped(t, i + 2, Append(out, CASE e = "n" -> "\n" [] e = "t" -> "\t" [] OTHER -> e))
       [] OTHER -> Unescaped(t, i + 1, Append(out, c))
parse_string(t, i) == IF At(t, i) # "\"" THEN Failed ELSE Unescaped(t, i + 1, <<>>)

RECURSIVE Digits(_, _, _, _)
Digits(t, i, n, scale) ==
  IF IsDigit(At(t, i)) THEN Digits(t, i + 1, 10 * n + DigitOf(At(t, i)), scale + 1)
  ELSE [at |-> i, n |-> n, scale |-> scale]
RECURSIVE Shifted(_, _)
Shifted(n, places) == IF places = 0 THEN n ELSE Shifted(10 * n, places - 1)

parse_number(t, i) ==
  LET minus == At(t, i) = "-"
      start == IF minus THEN i + 1 ELSE i
      first == IF At(t, start) = "0" THEN start + 1 ELSE start
      whole == IF At(t, first) = "0" THEN [at |-> first, n |-> 0] ELSE Digits(t, first, 0, 0)
      point == At(t, whole.at) = "." /\ IsDigit(At(t, whole.at + 1))
      all == IF point THEN Digits(t, whole.at + 1, whole.n, 0) ELSE [at |-> whole.at, n |-> whole.n, scale |-> 0]
      n == Shifted(all.n, 6 - all.scale)
  IN [at |-> all.at, item |-> Number(IF minus THEN -n ELSE n)]

RECURSIVE parse_value(_, _)

\* The elements from position i on, behind those in acc.
RECURSIVE Elements(_, _, _)
Elements(t, i, acc) ==
  LET v == parse_value(t, skip(t, i))
      end == skip(t, v.at)
      kids == Append(acc, v.item)
  IN CASE v.at = 0 -> Failed
       [] v.at # 0 /\ At(t, end) = "," -> Elements(t, end + 1, kids)
       [] v.at # 0 /\ At(t, end) = "]" -> [at |-> end + 1, item |-> List(kids)]
       [] OTHER -> Failed
parse_array(t, i) ==
  LET first == skip(t, i + 1)
  IN IF At(t, first) = "]" THEN [at |-> first + 1, item |-> List(<<>>)] ELSE Elements(t, first, <<>>)

RECURSIVE Members(_, _, _, _)
Members(t, i, names, kids) ==
  LET name == parse_string(t, skip(t, i))
      colon == skip(t, name.at)
      v == parse_value(t, skip(t, colon + 1))
      end == skip(t, v.at)
      allNames == Append(names, name.item.chars)
      allKids == Append(kids, v.item)
  IN CASE name.at = 0 -> Failed
       [] name.at # 0 /\ At(t, colon) # ":" -> Failed
       [] OTHER -> CASE v.at = 0 -> Failed
                     [] v.at # 0 /\ At(t, end) = "," -> Members(t, end + 1, allNames, allKids)
                     [] v.at # 0 /\ At(t, end) = "}" -> [at |-> end + 1, item |-> Object(allNames, allKids)]
                     [] OTHER -> Failed
parse_object(t, i) ==
  LET first == skip(t, i + 1)
  IN IF At(t, first) = "}" THEN [at |-> first + 1, item |-> Object(<<>>, <<>>)]
     ELSE Members(t, first, <<>>, <<>>)

parse_value(t, i) ==
  LET c == At(t, i)
  IN CASE \E w \in {"null", "false", "true"} : StartsWith(t, i, Word(w)) ->
            LET w == CHOOSE x \in {"null", "false", "true"} : StartsWith(t, i, Word(x))
            IN [at |-> i + Len(Word(w)), item |-> Item(w)]
       [] c = "\"" -> parse_string(t, i)
       [] c = "-" \/ IsDigit(c) -> parse_number(t, i)
       [] c = "[" -> parse_array(t, i)
       [] c = "{" -> parse_object(t, i)
       [] OTHER -> Failed

\* With require_null_terminated.
cJSON_ParseWithOpts(t) ==
  LET v == parse_value(t, skip(t, 1))
  IN IF v.at # 0 /\ At(t, skip(t, v.at)) = "" THEN v ELSE Failed

Blank == {" ", "\t", "\n"}

\* The text from position i on without blanks and comments outside of strings.
RECURSIVE Minified(_, _, _, _)
Minified(t, i, mode, out) ==
  LET c == At(t, i)
      n == At(t, i + 1)
  IN IF c = "" THEN out
     ELSE CASE mode = "line" -> Minified(t, IF c = "\n" THEN i ELSE i + 1, IF c = "\n" THEN "" ELSE mode, out)
       [] mode = "comment" -> IF c = "*" /\ n = "/" THEN Minified(t, i + 2, "", out) ELSE Minified(t, i + 1, mode, out)
       [] mode = "string" ->
            IF c = "\\" THEN Minified(t, i + 2, mode, out \o <<c, n>>)
            ELSE Minified(t, i + 1, IF c = "\"" THEN "" ELSE mode, Append(out, c))
       [] OTHER ->
            CASE c \in Blank -> Minified(t, i + 1, "", out)
              [] c = "/" /\ n = "/" -> Minified(t, i, "line", out)
              [] c = "/" /\ n = "*" -> Minified(t, i, "comment", out)
              [] OTHER -> Minified(t, i + 1, IF c = "\"" THEN "string" ELSE "", Append(out, c))

----------------------------------------------------------------------------
JsonTextInit(docs) ==
  /\ jsonDoc \in docs /\ jsonText = <<>> /\ jsonStage = "item"
  /\ jsonFormat = FALSE /\ jsonFits = TRUE

\* cJSON_Print and cJSON_PrintUnformatted.
cJSON_Print(fmt) ==
  /\ jsonStage = "item" /\ jsonStage' = "printed" /\ jsonFormat' = fmt
  /\ LET out == print_value(jsonDoc, 0, fmt) IN jsonText' = out.text /\ jsonFits' = out.fits
  /\ UNCHANGED jsonDoc

cJSON_PrintBuffered(prebuffer, fmt) ==
  /\ jsonStage = "item" /\ jsonStage' = "printed" /\ jsonFormat' = fmt
  /\ LET out == buffer_value([text |-> <<>>, length |-> prebuffer, fits |-> TRUE], jsonDoc, 0, fmt)
     IN jsonText' = out.text /\ jsonFits' = out.fits
  /\ UNCHANGED jsonDoc

\* Somebody adds comments to the file.
Annotate ==
  /\ jsonStage = "printed" /\ jsonStage' = "annotated"
  /\ jsonText' = <<"/", "*", "\"", "*", "/">> \o jsonText \o <<"/", "/", "\"">>
  /\ UNCHANGED <<jsonDoc, jsonFormat, jsonFits>>

cJSON_Minify ==
  /\ jsonStage \in {"printed", "annotated"} /\ jsonStage' = "minified"
  /\ jsonText' = Minified(jsonText, 1, "", <<>>)
  /\ UNCHANGED <<jsonDoc, jsonFormat, jsonFits>>

JsonTextNext ==
  \/ \E fmt \in BOOLEAN : cJSON_Print(fmt) \/ \E prebuffer \in Prebuffers : cJSON_PrintBuffered(prebuffer, fmt)
  \/ Annotate \/ cJSON_Minify

----------------------------------------------------------------------------
\* No print writes past the size it computed beforehand, and printing into a
\* buffer gives the same text (cJSON.c:121, 278, 481, 624).
PrintFits ==
  /\ jsonFits
  /\ jsonStage = "printed" => jsonText = print_value(jsonDoc, 0, jsonFormat).text

\* What was printed is parsed into the same item, and no part of an array or an
\* object is taken for a whole. A text that ends within an escape is left out:
\* parse_string reads past its end (cJSON.c:197).
ParseInvertsPrint ==
  jsonStage \in {"printed", "minified"} =>
    /\ cJSON_ParseWithOpts(jsonText) # Failed /\ cJSON_ParseWithOpts(jsonText).item = jsonDoc
    /\ jsonDoc.type \in {"array", "object"} /\ "\\" \notin ToSet(jsonText) =>
         \A n \in 0..(Len(jsonText) - 1) : cJSON_ParseWithOpts(SubSeq(jsonText, 1, n)) = Failed

\* Minifying gives what cJSON_PrintUnformatted prints (cJSON.c:735).
MinifyIsUnformatted == jsonStage = "minified" => jsonText = print_value(jsonDoc, 0, FALSE).text

\* Text and items say the same.
JsonTextFaithful == PrintFits /\ ParseInvertsPrint /\ MinifyIsUnformatted
=============================================================================
