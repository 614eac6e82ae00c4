---------------------------- MODULE MCInteractive ----------------------------
(* Small instances of Interactive for TLC. *)
EXTENDS Interactive

\* Brackets, quotes and the backslash, and the commands.
PiecesSmall ==
  {<<c>> : c \in {"(", ")", "quote", "tick", "backslash"}}
    \cup {<<".dispatch">>, <<".dispatch", " ", "x">>, <<" ", Json>>,
          <<".reset">>, <<".help">>, <<".exit">>, <<".stats">>}
=============================================================================
