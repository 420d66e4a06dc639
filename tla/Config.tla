------------------------------- MODULE Config -------------------------------
(***************************************************************************)
(* Whether a configuration file is read (Parser) as its author meant it    *)
(* (ConfigFile).  Editors may leave out the last end of a line.            *)
(***************************************************************************)
EXTENDS Parser, ConfigFile

CONSTANT Documents      \* sequences of lines

VARIABLE document       \* what the author means

DocumentInit ==
  /\ document \in Documents
  /\ file \in {Text(document), Front(Text(document))}
  /\ ParserInit

DocumentNext == ParserNext /\ UNCHANGED document

-----------------------------------------------------------------------------
(* Properties *)

\* What has been read is what is meant, or refused for a variable that is not
\* defined above.
AsMeant ==
  IF Meaning(document) = NULL THEN status = "failed"
  ELSE status = "done" /\ items = Meaning(document)

\* A well-formed file is read as it is meant, through nested arrays on several
\* lines, commas at the end and variables within arrays, and it is refused only for
\* a variable that is not defined above.  A string may have commas and brackets
\* where it is not written in an array: alone, or as a variable of an array.  In an
\* array it may not, which WellFormed says.
ReadAsMeant ==
  file = Text(document) /\ WellFormed(document) /\ status # "reading" => AsMeant

-----------------------------------------------------------------------------
(* What comments of the code say, and the code does not do *)

\* parser.c: an array on one line and one on several "should be treated the
\* same and return the same result", also when the first line has an item.
SameOnLines ==
  status = "done" /\ Len(document) = 1 /\ document[1].kind = "item" /\ file = Text(document) =>
    Meaning(document) # NULL /\ items = Meaning(document)

\* parser.c: the split of an array does "only return the top level items", also
\* when a string of it has a comma or a bracket.
TopLevelOnly ==
  file = Text(document) /\ Arranged(document) /\ status # "reading" => AsMeant
=============================================================================
