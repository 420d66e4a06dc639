------------------------------ MODULE MCConfig ------------------------------
(***************************************************************************)
(* Small instances of Config and ConfigMemory for TLC, one or the other:   *)
(* files of up to two lines of many kinds, or of three of fewer kinds.     *)
(***************************************************************************)
EXTENDS Config

VARIABLES model, line, pc, state

memoryVars == <<line, pc, state>>

Number  == Scalar("number", <<"3", "5">>)
One     == Scalar("number", <<"1">>)
True    == Scalar("boolean", <<"true">>)
Color   == Scalar("string", <<"#", "a">>)
Nothing == Scalar("string", <<>>)
Listed  == Scalar("string", <<"[", "a", ",", "b">>)
Comma   == Scalar("string", <<"a", ",", "b">>)
Open    == Scalar("string", <<"[", "a">>)
Closed  == Scalar("string", <<"a", "]">>)
V       == Scalar("variable", <<"v">>)
W       == Scalar("variable", <<"w">>)

Layouts == {"line", "comma", "lines", "begun", "spaced"}

Arrays ==
  {Array(<<>>, "line")}
  \cup {Array(<<Number, True>>, l) : l \in Layouts}
  \cup {Array(<<V, Color>>, l) : l \in {"line", "lines"}}
  \cup {Array(<<Comma>>, "line"), Array(<<Open, One>>, "line"), Array(<<Closed>>, "lines")}
  \cup {Array(<<Array(<<Number, One>>, "line"), Array(<<W>>, m)>>, l) :
          l \in {"line", "lines", "spaced"}, m \in {"line", "lines"}}

Meaningful ==
  {Definition("item", <<"a">>, v) : v \in {Number, Color, Listed, V} \cup Arrays}
  \cup {Definition("item", <<"b">>, v) : v \in {True, W, Array(<<True, V>>, "lines")}}
  \cup {Definition("variable", <<"v">>, v) : v \in {Nothing, Listed, W, Array(<<Number, True>>, "lines")}}
  \cup {Definition("variable", <<"w">>, v) : v \in {One, V}}
  \cup {Other("comment", <<"a", "=", "[">>)}

\* An empty line, a key without value, no key, no "=", a string without an end,
\* a word, a blank item, a bracket that does not close, and text after one.
Meaningless ==
  {Other("other", t) :
     t \in {<<>>, <<"a", "=", Space>>, <<"$", "=", "1">>, <<"a">>, <<"a", "=", Quote, "b", "b">>,
            <<"a", "=", Quote>>, <<"a", "=", "b">>, <<"a", "=", "[", "1", ",", ",", "1", "]">>,
            <<"a", "=", "[", "1">>, <<"a", "=", "[", "[", "1", "]", "1", "]">>}}

Lines == Meaningful \cup Meaningless

Nested == Array(<<Array(<<Number, One>>, "line"), Array(<<W>>, "lines")>>, "lines")

FewLines ==
  {Definition("item", <<"a">>, v) : v \in {V, Nested, Array(<<True, V>>, "lines")}}
  \cup {Definition("item", <<"b">>, v) : v \in {W, Array(<<V, Color>>, "comma")}}
  \cup {Definition("variable", <<"v">>, v) : v \in {W, Array(<<Number, True>>, "lines")}}
  \cup {Definition("variable", <<"w">>, v) : v \in {One, V}}
  \cup {Other("comment", <<"a", "=", "[">>)}

SomeDocuments == [1 .. 1 -> Lines] \cup [1 .. 2 -> Lines] \cup [1 .. 3 -> FewLines]
-----------------------------------------------------------------------------
(* For ConfigMemory: the values that take different ways, behind variables *)
(* that hold them, and enough items for their map to grow.                 *)

Word  == Scalar("string", <<"a">>)
Bad   == Scalar("bad", <<>>)
Blank == Scalar("blank", <<>>)
Cut   == Scalar("open", <<>>)
List  == Array(<<Array(<<Word>>, "line"), One>>, "line")

Broken ==
  {Bad, Blank, Cut, Array(<<Word, Bad>>, "lines"), Array(<<Word, Blank, One>>, "line"),
   Array(<<One, Array(<<Word, Bad>>, "line"), Word>>, "line")}

Whole ==
  {One, Word, V, Array(<<>>, "line"), Array(<<Word, V>>, "line"),
   Array(<<Array(<<Word>>, "comma"), V>>, "lines")}

Item(name, value) == Definition("item", name, value)

AnyItem     == {Item(<<"a">>, v) : v \in Broken \cup Whole}
AnyVariable == {Definition("variable", <<"v">>, v) : v \in {Word, W, List}}
                 \cup {Definition("variable", <<"w">>, Word)}
TwoItems    == {Item(n, v) : n \in {<<"a">>, <<"b">>}, v \in {Word, V}}

OwnerFiles ==
  {<<l>> : l \in AnyItem} \cup AnyVariable \X AnyItem \cup AnyVariable \X AnyVariable \X AnyItem
    \cup TwoItems \X TwoItems \X {Item(<<"c">>, Word)}

M == INSTANCE ConfigMemory WITH Documents <- OwnerFiles

ConfigsInit ==
  \/ model = "text" /\ DocumentInit /\ line = 1 /\ pc = "create" /\ state = NULL
  \/ /\ model = "memory" /\ M!Init
     /\ file = <<>> /\ pos = 1 /\ variables = NoNames /\ items = NoNames /\ status = "reading"

ConfigsNext ==
  /\ UNCHANGED model
  /\ \/ model = "text" /\ DocumentNext /\ UNCHANGED memoryVars
     \/ model = "memory" /\ M!Next /\ UNCHANGED parserVars

ConfigsSpec == ConfigsInit /\ [][ConfigsNext]_<<model, document, parserVars, memoryVars>>

\* See ConfigMemory.
OneOwner     == model = "memory" => M!OneOwner
NothingLeft  == model = "memory" => M!NothingLeft
NullReturned == model = "memory" => M!NullReturned
=============================================================================
