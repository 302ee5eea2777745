------------------------------ MODULE MCPayload ------------------------------
(* Model checking of Payload.  Sizes are in symbols: a document without text *)
(* takes 15.                                                                  *)
EXTENDS Payload

\* Each symbol of the layout, and the runs of line ends and the whole image
\* tag, which take several symbols to make a difference.
LayoutPieces == {<<c>> : c \in Layout}
                \cup {<<NL, NL, NL>>, <<TagOpen, TagClose>>}

OcrLetters == {<<c>> : c \in {Char, Quote, Backslash, NL, Nul, Wide, "text"}}

\* A plain value, an empty one, every escape, and texts with names in them.
HostValues == {<<>>, <<"a">>, <<Quote, Backslash, "n">>, <<NL, Wide>>, <<"a", Nul, "a">>,
               <<"text", "a">>, <<"target_language", ":">>,
               <<"a", "target_language">>,
               <<Quote, "target_language", Quote, ":", Quote, "a">>}

ModelDefaults == {<<>>, <<"n">>}
AskedBytes    == {0, 18, 20, 100}

=============================================================================
