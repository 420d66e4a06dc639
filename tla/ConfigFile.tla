----------------------------- MODULE ConfigFile -----------------------------
(***************************************************************************)
(* What a configuration file says, as its author means it: a sequence of   *)
(* lines that define variables and items, the text they are written as,    *)
(* and the items that follow from them.                                    *)
(***************************************************************************)
EXTENDS ConfigValues, SequencesExt

\* An array has a layout: on one line, with a comma at the end, on lines of its
\* own, begun on the line of the bracket and continued on others, or on lines of
\* its own after a bracket and a space.
Array(values, layout) == [type |-> "array", data |-> values, layout |-> layout]

\* A line defines an item or a variable, or is a comment, or has no meaning.
Definition(kind, key, value) == [kind |-> kind, key |-> key, value |-> value]
Other(kind, text)            == [kind |-> kind, text |-> text]

-----------------------------------------------------------------------------
(* The text *)

RECURSIVE ValueText(_)

Separated(values, separator) ==
  FoldLeft(LAMBDA text, v : IF text = <<>> THEN ValueText(v)
                            ELSE text \o separator \o ValueText(v), <<>>, values)

ArrayText(v) ==
  LET comma == <<",", Space>>
      line  == <<",", NewLine>>
  IN  CASE v.layout = "line"   -> <<"[">> \o Separated(v.data, comma) \o <<"]">>
        [] v.layout = "comma"  -> <<"[">> \o Separated(v.data, comma) \o <<",", "]">>
        [] v.layout = "begun"  -> <<"[">> \o Separated(v.data, line) \o <<"]">>
        [] v.layout = "lines"  -> <<"[", NewLine>> \o Separated(v.data, line) \o line \o <<"]">>
        [] v.layout = "spaced" ->
             <<"[", Space, NewLine>> \o Separated(v.data, line) \o line \o <<"]">>

ValueText(v) ==
  CASE v.type = "string"   -> <<Quote>> \o v.data \o <<Quote>>
    [] v.type = "variable" -> <<"$">> \o v.data
    [] v.type = "array"    -> ArrayText(v)
    [] OTHER               -> v.data

LineText(l) ==
  CASE l.kind = "comment"  -> <<"#">> \o l.text \o <<NewLine>>
    [] l.kind = "other"    -> l.text \o <<NewLine>>
    [] l.kind = "variable" -> <<"$">> \o l.key \o <<"=">> \o ValueText(l.value) \o <<NewLine>>
    [] l.kind = "item"     ->
         l.key \o <<Space, "=", Space>> \o ValueText(l.value) \o <<NewLine>>

Text(document) == FoldLeft(LAMBDA text, l : text \o LineText(l), <<>>, document)

-----------------------------------------------------------------------------
(* The meaning *)

RECURSIVE Resolved(_, _)

\* A variable stands for the value it has been given above; NULL if none.
Resolved(v, variables) ==
  CASE v.type = "variable" -> IF v.data \in DOMAIN variables THEN variables[v.data] ELSE NULL
    [] v.type = "array" ->
         LET values == [i \in DOMAIN v.data |-> Resolved(v.data[i], variables)]
         IN  IF NULL \in Range(values) THEN NULL ELSE Scalar("array", values)
    [] OTHER -> v

\* The items of a document, or NULL if it uses a variable it has not defined.
Meaning(document) ==
  LET Read(known, l) ==
        IF known = NULL \/ l.kind \notin {"variable", "item"} THEN known
        ELSE LET value == Resolved(l.value, known.variables)
             IN  IF value = NULL THEN NULL
                 ELSE IF l.kind = "variable"
                 THEN [known EXCEPT !.variables = Put(@, l.key, value)]
                 ELSE [known EXCEPT !.items = Put(@, l.key, value)]
      known == FoldLeft(Read, [variables |-> NoNames, items |-> NoNames], document)
  IN  IF known = NULL THEN NULL ELSE known.items

-----------------------------------------------------------------------------
(* What may be expected to be read *)

RECURSIVE LaidOut(_, _), Unquoted(_)

\* All arrays of a value have one of the layouts, those within an array of one
\* line a layout of one line.
LaidOut(v, layouts) ==
  v.type = "array" =>
    /\ v.layout \in layouts
    /\ \A i \in DOMAIN v.data :
         LaidOut(v.data[i], IF v.layout = "lines" THEN layouts ELSE layouts \ {"lines"})

\* The strings written in the arrays of a value have nothing in them that counts in
\* an array: array_context_get_delimiter takes no notice of quotes.
Unquoted(v) ==
  v.type = "array" =>
    \A i \in DOMAIN v.data :
      /\ v.data[i].type = "string" => {",", "[", "]"} \cap Range(v.data[i].data) = {}
      /\ Unquoted(v.data[i])

\* Every line is a definition or a comment, arrays are laid out as the comment
\* of parser_parse_array and the README show them, and no name is defined twice.
Arranged(document) ==
  /\ \A i \in DOMAIN document :
       /\ document[i].kind # "other"
       /\ document[i].kind # "comment" =>
            LaidOut(document[i].value, {"line", "comma", "lines"})
  /\ \A i, j \in DOMAIN document :
       /\ {document[i].kind, document[j].kind} \in {{"variable"}, {"item"}}
       /\ document[i].key = document[j].key
       => i = j

WellFormed(document) ==
  /\ Arranged(document)
  /\ \A i \in DOMAIN document :
       document[i].kind # "comment" => Unquoted(document[i].value)
=============================================================================
