--------------------------- MODULE MCImportStreams ---------------------------
(* Instances of ImportStreams. *)
EXTENDS ImportStreams

Row == <<"open", "close">>

\* Rows before and after a blank line, a row with a character of two bytes, lines that are no
\* record, white space at an end, and texts with and without a newline at the end.
SomeFiles ==
  { << Row, <<"space">>, <<"open", "lead", "cont", "close">>, <<"null">>, Row >>,
    << Row, Row, <<>>, <<"open", "space">>, Row, <<>> >>,
    << <<>>, <<"space", "open", "close">>, Row, Row, Row, Row >>,
    << <<"null">>, <<"close">>, Row, <<"open">> >> }
=============================================================================
