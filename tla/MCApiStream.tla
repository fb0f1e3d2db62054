---------------------------- MODULE MCApiStream ----------------------------
(***************************************************************************)
(* A small instance of ApiStream for TLC: an alphabet in which the two     *)
(* markers begin alike, as </think> and <tool_call> do.                    *)
(***************************************************************************)
EXTENDS ApiStream

MCClose == <<"<", "/">>
MCTool == <<"<", "t", "t">>

\* Single characters, markers that are one token, and tokens that end one
\* marker and begin something else.
MCDeltas ==
  {<<c>> : c \in Characters}
  \cup {MCClose, MCTool, <<"/", " ">>, <<"/", "<">>, <<"t", "/">>, <<" ", "<">>}

=============================================================================
