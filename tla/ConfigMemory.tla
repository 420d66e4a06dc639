---------------------------- MODULE ConfigMemory ----------------------------
(***************************************************************************)
(* The memory of the configuration (config.c, parser.c, value.c): who owns *)
(* the strings and values while a file is read, when an allocation fails   *)
(* or a line has no meaning, and afterwards.  What is read is in Config.   *)
(*                                                                         *)
(* A block goes by what it is for and a place: the number of the line, and *)
(* the indices of an item within its arrays.  See Memory for outcomes; a   *)
(* state has these fields besides:                                         *)
(*   short             an allocation has failed,                           *)
(*   result            what a call hands back, a value,                    *)
(*   kept              or the indices of the items found,                  *)
(*   variables, items  entries of the two maps.                            *)
(* stack_push, on the stack of array_context_get_delimiter, does not fail, *)
(* and no map grows twice.                                                 *)
(***************************************************************************)
EXTENDS Memory, ConfigFile, FiniteSets

CONSTANT Documents      \* sequences of lines as in ConfigFile; values may be of
                        \* type "bad" or "blank", or "open" without its bracket

VARIABLES
  document, line,       \* the text, and how far it has been read
  pc,                   \* "create", "parse", "reading"; "done", "failed",
                        \* "destroyed"; "crashed"
  state

vars == <<document, line, pc, state>>

-----------------------------------------------------------------------------
(* Blocks *)

\* malloc and calloc.
Alloc(s, o) ==
  {IF r.ok THEN r ELSE Failed([r.state EXCEPT !.short = TRUE]) : r \in Calloc(s, o)}

\* The result is not compared with NULL.
AllocUnchecked(s, o) ==
  {IF r.ok THEN r ELSE Done(Fault(r.state, "null")) : r \in Alloc(s, o)}

Return(s, v) == Done([s EXCEPT !.result = v])

\* A string that is cut out, stripped into another and freed;
\* string_strip_surrounding_spaces finds nothing in a blank one.
Stripped(s, raw, text, blank) ==
  LET strip(t) == OrElse(IF blank THEN {Failed(t)} ELSE Alloc(t, text),
                         LAMBDA u : Free(u, raw))
  IN  Then(Then(Alloc(s, raw), strip), LAMBDA t : {Done(Free(t, raw))})

\* A value that has been made, with its place; an array is empty at first.
Made(v, p) == [type |-> v.type, data |-> <<>>, at |-> p]

RECURSIVE Blocks(_)

ArrayBlocks(v) ==
  {<<"array", v.at>>, <<"values", v.at>>} \cup UNION {Blocks(v.data[k]) : k \in DOMAIN v.data}

\* What config_value_destroy frees.
Blocks(v) ==
  {<<"value", v.at>>} \cup
    CASE v.type = "string" -> {<<"data", v.at>>}
      [] v.type = "array"  -> ArrayBlocks(v)
      [] OTHER             -> {}

\* config_array_create
ArrayCreate(s, p) ==
  Then(Alloc(s, <<"array", p>>),
       LAMBDA t : OrElse(Alloc(t, <<"values", p>>), LAMBDA u : Free(u, <<"array", p>>)))

\* The values of an array, one after another; Undo gets those made so far.
Filled(s, v, p, n, Item(_, _), Undo(_, _, _)) ==
  LET item(t, k) ==
        LET made == t.result
        IN  Then(OrElse(Item(t, k), LAMBDA u : Undo(u, k, made)),
                 LAMBDA u : {Return(u, [made EXCEPT !.data = Append(@, u.result)])})
  IN  ForEach(n, Return(s, Made(v, p)).state, item)

RECURSIVE Duplicate(_, _, _)

\* config_array_duplicate
DuplicateArray(s, v, p) ==
  Then(ArrayCreate(s, p),
       LAMBDA t : Filled(t, v, p, Len(v.data),
                         LAMBDA u, k : Duplicate(u, v.data[k], Append(p, k)),
                         LAMBDA u, k, made : FreeAll(u, ArrayBlocks(made))))

\* config_value_duplicate
Duplicate(s, v, p) ==
  LET copy(t) ==
        CASE v.type = "array"  -> DuplicateArray(t, v, p)
          [] v.type = "string" -> Then(Alloc(t, <<"data", p>>),
                                       LAMBDA u : {Return(u, Made(v, p))})
          [] OTHER             -> {Return(t, Made(v, p))}
  IN  Then(Alloc(s, <<"value", p>>),
           LAMBDA t : OrElse(copy(t), LAMBDA u : Free(u, <<"value", p>>)))

-----------------------------------------------------------------------------
(* Values: the text of one, <<"text", p>>, is freed once it has been read, *)
(* and left to the caller otherwise.                                       *)

RECURSIVE ParseValue(_, _, _)

\* Mutant: the text is freed once it has been converted.
ParsePlainEarly(s, v, p) ==
  Then(Alloc(Free(s, <<"text", p>>), <<"value", p>>), LAMBDA t : {Return(t, Made(v, p))})

\* parser_parse_boolean, parser_parse_number
ParsePlain(s, v, p) ==
  Then(Alloc(s, <<"value", p>>), LAMBDA t : {Return(Free(t, <<"text", p>>), Made(v, p))})

\* parser_parse_string
ParseString(s, v, p) ==
  Then(Then(Alloc(s, <<"data", p>>),
            LAMBDA t : OrElse(Alloc(t, <<"value", p>>), LAMBDA u : Free(u, <<"data", p>>))),
       LAMBDA t : {Return(Free(t, <<"text", p>>), Made(v, p))})

\* Mutant: the variable and its value become one.
ParseVariableShared(s, v, p) ==
  LET named == {e \in s.variables : e.name = v.data}
  IN  IF named = {} THEN {Failed(s)}
      ELSE {Return(Free(s, <<"text", p>>), e.value) : e \in named}

\* parser_parse_variable, parser_resolve_variable: of two variables with the
\* name either is found.
ParseVariable(s, v, p) ==
  LET named == {e \in s.variables : e.name = v.data}
  IN  IF named = {} THEN {Failed(s)}
      ELSE Then(UNION {Duplicate(s, e.value, p) : e \in named},
                LAMBDA t : {Done(Free(t, <<"text", p>>))})

\* What is between the commas; a comma before the bracket leaves a blank.
Items(v) ==
  IF v.layout = "line" /\ v.data # <<>> THEN v.data
  ELSE Append(v.data, [type |-> "blank", data |-> <<>>])

\* array_find_value_items_string, with get_array_string if the first line does
\* not end with a bracket.
FindItems(s, v, p) ==
  LET whole == <<"whole", p>>
      cut(t) == OrElse(Alloc(t, <<"inner", p>>), LAMBDA u : Free(u, whole))
  IN  Then(Then(IF v.layout \in {"line", "comma"} THEN AllocUnchecked(s, whole)
                ELSE Then(AllocUnchecked(s, <<"stack", p>>),
                          LAMBDA t : Stripped(Free(t, <<"stack", p>>), <<"raw", p>>, whole, FALSE)),
                cut),
           LAMBDA t : {Done(Free(t, whole))})

Parts(kind, p, ks) == {<<kind, Append(p, k)>> : k \in ks}

\* array_split_value_items_string: what list_insert fails to insert is lost.
SplitItems(s, v, p) ==
  LET list == <<"list", p>>
      kept(t) == Range(t.kept)
      undo(t) == FreeAll(t, {list} \cup Parts("item", p, kept(t)) \cup Parts("node", p, kept(t)))
      insert(t, k) ==
        {Done(IF r.ok THEN [r.state EXCEPT !.kept = Append(@, k)] ELSE r.state) :
           r \in Alloc(t, <<"node", Append(p, k)>>)}
      item(t, k) ==
        Then(Then(AllocUnchecked(t, <<"stack", p>>),
                  LAMBDA u : Alloc(Free(u, <<"stack", p>>), <<"item", Append(p, k)>>)),
             LAMBDA u : insert(u, k))
      all(t) == Then(ForEach(Len(Items(v)), [t EXCEPT !.kept = <<>>], item),
                     LAMBDA u : Alloc(u, <<"texts", p>>))
  IN  Then(Then(Alloc(s, list), LAMBDA t : OrElse(all(t), undo)),
           LAMBDA t : {Done(FreeAll(t, {list} \cup Parts("node", p, kept(t))))})

\* The loop of parser_parse_array that strips the items: a blank one at the end
\* is dropped.
StripItems(s, v, p) ==
  LET ks == s.kept
      strip(t, n) ==
        LET raw   == <<"item", Append(p, ks[n])>>
            blank == Items(v)[ks[n]].type = "blank"
        IN  IF blank /\ n = Len(ks) THEN {Done([Free(t, raw) EXCEPT !.kept = Front(ks)])}
            ELSE IF blank THEN {Failed(t)}
            ELSE Then(Alloc(t, <<"text", Append(p, ks[n])>>), LAMBDA u : {Done(Free(u, raw))})
  IN  ForEach(Len(ks), s, strip)

\* Mutant: the item that has failed is taken for one that has been freed.
RemainingAfter(ks, n) == {ks[m] : m \in n + 1 .. Len(ks)}

\* The items not yet freed when the n-th has failed.
Remaining(ks, n) == {ks[m] : m \in n .. Len(ks)}

\* config_value_create_array, parser_resolve_array_values
ParseItems(s, v, p) ==
  LET ks == s.kept
      undo(t, n, made) ==
        FreeAll(t, Parts("text", p, Remaining(ks, n)) \cup {<<"value", p>>} \cup ArrayBlocks(made))
      fill(t) == Filled(t, v, p, Len(ks),
                        LAMBDA u, n : ParseValue(u, Items(v)[ks[n]], Append(p, ks[n])), undo)
  IN  Then(Then(Alloc(s, <<"value", p>>),
                LAMBDA t : OrElse(ArrayCreate(t, p), LAMBDA u : Free(u, <<"value", p>>))), fill)

\* parser_parse_array
ParseArray(s, v, p) ==
  LET inner == <<"inner", p>>
      texts == <<"texts", p>>
      split(t) == OrElse(SplitItems(t, v, p), LAMBDA u : Free(u, inner))
      parse(t) == OrElse(Then(StripItems(t, v, p), LAMBDA u : ParseItems(u, v, p)),
                         LAMBDA u : FreeAll(u, {inner, texts}))
  IN  Then(Then(Then(FindItems(s, v, p), split), parse),
           LAMBDA t : {Done(FreeAll(t, {<<"text", p>>, inner, texts}))})

\* parser_parse_value
ParseValue(s, v, p) ==
  CASE v.type \in {"boolean", "number"} -> ParsePlain(s, v, p)
    [] v.type = "string"   -> ParseString(s, v, p)
    [] v.type = "variable" -> ParseVariable(s, v, p)
    [] v.type = "array"    -> ParseArray(s, v, p)
    [] OTHER               -> {Failed(s)}

\* parser_read_item: parser_read_key, parser_read_value, parser_parse_value
ReadItem(s, v, p) ==
  LET key == <<"key", p>>
      text == <<"text", p>>
      value(t) == OrElse(Stripped(t, <<"raw", p>>, text, v.type = "blank"), LAMBDA u : Free(u, key))
      parse(t) == OrElse(ParseValue(t, v, p), LAMBDA u : FreeAll(u, {key, text}))
  IN  Then(Then(Stripped(s, <<"raw", p>>, key, FALSE), value), parse)

-----------------------------------------------------------------------------
(* Maps *)

MapBlocks(name) == {<<"map", name>>, <<"table", name>>}

EntryBlocks(e) == {<<"entry", e.value.at>>, <<"key", e.value.at>>} \cup Blocks(e.value)

\* map_init: without a table the map is forgotten.
MapInit(s, name) ==
  Then(Alloc(s, <<"map", name>>), LAMBDA t : Alloc(t, <<"table", name>>))

\* map_insert: an entry of the same name is overwritten, or not, see HashMap; a
\* third one makes the map grow, and if map_resize fails the new one is lost.
MapInsert(s, name, e) ==
  LET map  == s[name]
      same == {f \in map : f.name = e.name}
      put(t) == {Done([t EXCEPT ![name] = @ \cup {e}])}
      grown(t) == IF Cardinality(map) + 1 # 3 THEN {Done(t)}
                  ELSE {Done(t), Failed([t EXCEPT !.short = TRUE])}
      over(t) == {Done([FreeAll(t, EntryBlocks(f)) EXCEPT ![name] = (@ \ {f}) \cup {e}]) : f \in same}
  IN  Then(Alloc(s, <<"entry", e.value.at>>), LAMBDA t : over(t) \cup Then(grown(t), put))

MapDestroy(s, name) ==
  [FreeAll(s, MapBlocks(name) \cup UNION {EntryBlocks(e) : e \in s[name]}) EXCEPT ![name] = {}]

\* parser_destroy
ParserDestroy(s) == Free(MapDestroy(s, "variables"), <<"parser", <<>>>>)

-----------------------------------------------------------------------------
(* config_read_string *)

Init ==
  /\ document \in Documents /\ line = 1
  /\ pc = "create"
  /\ state = [live |-> {}, set |-> {}, wild |-> {}, fault |-> "none", short |-> FALSE,
              result |-> NULL, kept |-> <<>>,
              variables |-> {}, items |-> {}]

\* The next step has these outcomes; what a failed one has left is freed by Undo.
Step(outcomes, to, Undo(_)) ==
  /\ \E r \in OrElse(outcomes, Undo) :
       /\ state' = [r.state EXCEPT !.result = NULL, !.kept = <<>>]
       /\ pc' = IF Faulted(r.state) THEN "crashed" ELSE IF r.ok THEN to ELSE "failed"
  /\ UNCHANGED document

\* parser_create
ParserCreate ==
  /\ pc = "create"
  /\ LET maps(t) == OrElse(MapInit(t, "variables"), LAMBDA u : Free(u, <<"parser", <<>>>>))
     IN  Step(Then(Alloc(state, <<"parser", <<>>>>), maps), "parse", LAMBDA s : s)
  /\ UNCHANGED line

\* config_parse, up to its loop
BeginParse ==
  /\ pc = "parse"
  /\ Step(MapInit(state, "items"), "reading", ParserDestroy)
  /\ UNCHANGED line

\* The rest of config_parse and config_read_string after an error
HandleError(s) == ParserDestroy(MapDestroy(s, "items"))

\* config_item_create and parser_create_variable
Create(s, name, l) ==
  LET p == <<line>>
      insert(t) == OrElse(MapInsert(t, name, [name |-> l.key, value |-> t.result]),
                          LAMBDA u : FreeAll(u, {<<"key", p>>} \cup Blocks(t.result)))
  IN  Then(ReadItem(s, l.value, p), insert)

CreateVariable ==
  /\ pc = "reading" /\ line <= Len(document) /\ document[line].kind = "variable"
  /\ Step(Create(state, "variables", document[line]), "reading", HandleError)
  /\ line' = line + 1

CreateItem ==
  /\ pc = "reading" /\ line <= Len(document) /\ document[line].kind = "item"
  /\ Step(Create(state, "items", document[line]), "reading", HandleError)
  /\ line' = line + 1

Finish ==
  /\ pc = "reading" /\ line > Len(document)
  /\ Step({Done(ParserDestroy(state))}, "done", LAMBDA s : s)
  /\ UNCHANGED line

\* config_destroy, when natwm closes
ConfigDestroy ==
  /\ pc = "done"
  /\ Step({Done(MapDestroy(state, "items"))}, "destroyed", LAMBDA s : s)
  /\ UNCHANGED line

Next ==
  \/ ParserCreate \/ BeginParse \/ CreateVariable \/ CreateItem \/ Finish \/ ConfigDestroy

Spec == Init /\ [][Next]_vars

-----------------------------------------------------------------------------
(* Properties *)

\* Nothing is freed twice, or looked at after it was freed.
FreedOnce == state.fault # "memory"

\* What the configuration returns is whole, and stays when the variables that
\* its values came from are gone.
ItemsOutlive ==
  pc = "done" =>
    MapBlocks("items") \cup UNION {EntryBlocks(e) : e \in state.items} \subseteq state.live

RECURSIVE BlankInside(_)
BlankInside(v) ==
  v.type = "array" /\ \E k \in DOMAIN v.data : v.data[k].type = "blank" \/ BlankInside(v.data[k])

\* While allocations succeed everything is returned, in the end or with an
\* error, but for the strings of an array with a blank item.
LeftByBlanks ==
  pc \in {"failed", "destroyed"} /\ ~state.short =>
    IF pc = "failed" /\ BlankInside(document[line - 1].value)
    THEN \A b \in state.live : b[1] \in {"item", "text"}
    ELSE state.live = {}

\* Each string and value has one owner at every moment, wherever an allocation
\* fails or a line has no meaning, also on the ways back out of nested arrays.
OneOwner == FreedOnce /\ ItemsOutlive /\ LeftByBlanks

\* parser.c, parser_read_item: "If there is an error while parsing then NULL is
\* returned and no memory is left allocated" (it is, after a blank item).
NothingLeft == pc = "failed" /\ ~state.short => state.live = {}

\* The same of a failed allocation: NULL is returned (natwm crashes if the copy
\* of an array or the stack of its delimiters cannot be made).
NullReturned == state.fault # "null"
=============================================================================
