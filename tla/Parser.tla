------------------------------- MODULE Parser -------------------------------
(***************************************************************************)
(* Reading the configuration (config.c, parser.c, value.c, string.c).  The *)
(* text is a buffer; the parser is a position in it, which the readers of  *)
(* keys, values and arrays move.  Positions begin with 1, and the one      *)
(* after the text is that of its terminator.                               *)
(*                                                                         *)
(* Numbers fit in intmax_t, and allocations succeed.                       *)
(***************************************************************************)
EXTENDS ConfigValues, FiniteSets, SequencesExt, FiniteSetsExt

VARIABLES
  file,                 \* parser->buffer
  pos,                  \* parser->pos
  variables, items,     \* parser->variables, and the map that is returned
  status                \* "reading", "done", or "failed": NULL is returned

parserVars == <<file, pos, variables, items, status>>

-----------------------------------------------------------------------------
(* Characters and strings *)

Digits   == {"0", "1", "3", "5"}
Booleans == {"true", "false"}
Letters  == {"a", "b", "v", "w"} \cup Booleans
Strings  == Seq(STRING)

\* string_strip_surrounding_spaces; NULL if there is nothing else.
Strip(s) ==
  LET solid == {i \in DOMAIN s : s[i] \notin {Space, NewLine}}
  IN  IF solid = {} THEN NULL ELSE SubSeq(s, Min(solid), Max(solid))

\* string_find_char, from a position of the file; 0 if there is none.
Find(c, from) == SelectInSubSeq(file, from, Len(file), LAMBDA d : d = c)

\* The height of the stack of array_context_get_delimiter after s; a bracket
\* that closes nothing pops nothing.
Depth(s) ==
  FoldLeft(LAMBDA depth, c : CASE c = "[" -> depth + 1
                               [] c = "]" -> IF depth = 0 THEN 0 ELSE depth - 1
                               [] OTHER   -> depth, 0, s)

\* Mutant: the context is not looked at, as string_split would.
DelimitersAnywhere(s, c) == {k \in DOMAIN s : s[k] = c}

\* The places of a delimiter in the outer context.
Delimiters(s, c) == {k \in DOMAIN s : s[k] = c /\ Depth(SubSeq(s, 1, k)) = 0}

\* array_split_value_items_string: from each delimiter to the next or the end.
Split(s) ==
  LET commas == Delimiters(s, ",")
      cut[k \in 0 .. Cardinality(commas) + 1] ==
        IF k = 0 THEN 0 ELSE Min({Len(s) + 1} \cup {d \in commas : d > cut[k - 1]})
  IN  [k \in 1 .. Cardinality(commas) + 1 |-> SubSeq(s, cut[k - 1] + 1, cut[k] - 1)]

-----------------------------------------------------------------------------
(* Values: what is read of a string, and where the parser is then *)

\* array_find_value_items_string: an array that does not end with its line is
\* read again from the parser's position, which is the last character of it.
ArrayString(p, s) ==
  LET rest == SubSeq(file, p, Len(file))
      ends == Delimiters(rest, "]")
  IN  IF Last(s) = "]" THEN [text |-> s, pos |-> p]
      ELSE IF ends = {} THEN NULL
      ELSE [text |-> Strip(SubSeq(rest, 1, Min(ends))), pos |-> p + Min(ends) - 1]

\* The stripped items, NULL among them if one is blank.  A blank last one is no
\* item: the array is empty or had a comma at its end.
ItemStrings(text) ==
  LET strings == [i \in DOMAIN Split(text) |-> Strip(Split(text)[i])]
  IN  IF Last(strings) = NULL THEN Front(strings) ELSE strings

\* parser_resolve_array_values, where Item is how an item is read.
ParseItems(Item, p, strings) ==
  LET More(read, s) ==
        LET item == Item[read.pos][s]
        IN  IF item = NULL THEN NULL
            ELSE [values |-> Append(read.values, item.value), pos |-> item.pos]
      read[k \in 0 .. Len(strings)] ==
        IF k = 0 THEN [values |-> <<>>, pos |-> p]
        ELSE IF read[k - 1] = NULL \/ strings[k] = NULL THEN NULL
        ELSE More(read[k - 1], strings[k])
  IN  read[Len(strings)]

\* parser_parse_array: what is between the first and the last character.
ParseArray(Item, p, s) ==
  LET array == ArrayString(p, s)
      read  == ParseItems(Item, array.pos, ItemStrings(SubSeq(array.text, 2, Len(array.text) - 1)))
  IN  IF array = NULL \/ Len(array.text) < 2 \/ read = NULL THEN NULL
      ELSE [value |-> Scalar("array", read.values), pos |-> read.pos]

\* parser_resolve_variable: a copy of the value, NULL if there is none.
Variable(name) == IF name \in DOMAIN variables THEN variables[name] ELSE NULL

\* parser_parse_boolean, _number, _variable and _string.  A string loses its last
\* character, whatever that is.
ParseScalar(s) ==
  CASE Head(s) \in Booleans /\ Len(s) = 1                -> Scalar("boolean", s)
    [] Head(s) \in Digits /\ Range(s) \subseteq Digits -> Scalar("number", s)
    [] Head(s) = Quote /\ Len(s) > 1 -> Scalar("string", SubSeq(s, 2, Len(s) - 1))
    [] Head(s) = "$"                 -> Variable(Tail(s))
    [] OTHER                         -> NULL

\* parser_parse_value of a value within arrays to a depth of n, at p.  An array
\* has two brackets, so that none is as deep as the file is long.
ParseValue[n \in 0 .. Len(file)] ==
  [p \in DOMAIN file |-> [s \in Strings |->
     IF n = 0 THEN NULL
     ELSE IF Head(s) = "[" THEN ParseArray(ParseValue[n - 1], p, s)
     ELSE IF ParseScalar(s) = NULL THEN NULL
     ELSE [value |-> ParseScalar(s), pos |-> p]]]

-----------------------------------------------------------------------------
(* Definitions *)

\* parser_read_key: everything up to the next "=", also one of another line.
ReadKey(p) ==
  LET equal == Find("=", p)
  IN  IF p > Len(file) \/ equal = 0 THEN NULL
      ELSE IF file[p] \notin Letters THEN NULL
      ELSE [key |-> Strip(SubSeq(file, p, equal - 1)), pos |-> equal]

\* parser_read_value: the rest of the line, which must have an end; the parser
\* is left at the character before it.
ReadValue(p) ==
  LET end == Find(NewLine, p + 1)
      s   == Strip(SubSeq(file, p + 1, end - 1))
  IN  IF end = 0 \/ s = NULL THEN NULL ELSE [string |-> s, pos |-> end - 1]

ReadItem(p) ==
  LET key   == ReadKey(p)
      value == ReadValue(key.pos)
      read  == ParseValue[Len(file)][value.pos][value.string]
  IN  IF key = NULL \/ value = NULL \/ read = NULL THEN NULL
      ELSE [key |-> key.key, value |-> read.value, pos |-> read.pos]

\* map_insert: a name that is there is overwritten or found before the new
\* entry, as the hashes have it (HashMap).
MapInsert(map, read) ==
  {Put(map, read.key, read.value)} \cup (IF read.key \in DOMAIN map THEN {map} ELSE {})

-----------------------------------------------------------------------------
(* config_parse: one round of its loop *)

ParserInit ==
  /\ file \in Strings
  /\ pos = 1
  /\ variables = NoNames /\ items = NoNames
  /\ status = "reading"

Reading == status = "reading" /\ pos \in DOMAIN file

\* Mutant: the end of the line is consumed, and then the next character.
CommentTwo ==
  /\ Reading /\ file[pos] = "#"
  /\ LET end == Find(NewLine, pos)
     IN  pos' = IF end = 0 THEN Len(file) + 2 ELSE end + 2
  /\ UNCHANGED <<file, variables, items, status>>

\* parser_consume_line stops at the end of the line or of the file, and the
\* loop goes one further.
Comment ==
  /\ Reading /\ file[pos] = "#"
  /\ LET end == Find(NewLine, pos)
     IN  pos' = IF end = 0 THEN Len(file) + 2 ELSE end + 1
  /\ UNCHANGED <<file, variables, items, status>>

\* parser_create_variable
CreateVariable ==
  /\ Reading /\ file[pos] = "$"
  /\ \E read \in {ReadItem(pos + 1)} \ {NULL} :
       /\ variables' \in MapInsert(variables, read)
       /\ pos' = read.pos + 1
  /\ UNCHANGED <<file, items, status>>

\* config_item_create
CreateItem ==
  /\ Reading /\ file[pos] \in Letters
  /\ \E read \in {ReadItem(pos)} \ {NULL} :
       /\ items' \in MapInsert(items, read)
       /\ pos' = read.pos + 1
  /\ UNCHANGED <<file, variables, status>>

Skip ==
  /\ Reading /\ file[pos] \notin {"#", "$"} \cup Letters
  /\ pos' = pos + 1
  /\ UNCHANGED <<file, variables, items, status>>

\* handle_error
Fail ==
  /\ Reading
  /\ \/ file[pos] = "$" /\ ReadItem(pos + 1) = NULL
     \/ file[pos] \in Letters /\ ReadItem(pos) = NULL
  /\ status' = "failed" /\ items' = NoNames
  /\ UNCHANGED <<file, pos, variables>>

Finish ==
  /\ status = "reading" /\ pos = Len(file) + 1
  /\ status' = "done"
  /\ UNCHANGED <<file, pos, variables, items>>

\* A parser beyond the terminator reads memory of others: nothing is said of
\* what comes after.
ParserNext == Comment \/ CreateVariable \/ CreateItem \/ Skip \/ Fail \/ Finish

ParserSpec == ParserInit /\ [][ParserNext]_parserVars

-----------------------------------------------------------------------------
(* Properties *)

\* The parser stays within the text and its terminator, whatever is in the
\* file, but for a comment that the file ends in (parser.c, parser_increment).
StaysInside ==
  pos > Len(file) + 1 =>
    Last(file) # NewLine /\ \E i \in DOMAIN file : file[i] = "#" /\ Find(NewLine, i) = 0

\* Each round of config_parse takes the parser on or is the last, although the
\* readers of values within values move it and count from different places: no
\* line is read twice, and reading ends.
MovesOn == [][pos' > pos \/ status' # "reading"]_parserVars
=============================================================================
