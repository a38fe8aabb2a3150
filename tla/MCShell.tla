------------------------------ MODULE MCShell -------------------------------
(* A small instance of Shell for TLC.                                      *)
EXTENDS Shell

\* The lines that are run: each kind of command, pipelines with a reader
\* that copies and with one that does not read, a block in a pipeline,
\* shared offsets, a file that is missing, files that run out in the middle of
\* a pipe(), background, syntax errors.
LinesRun ==
  { <<"e">>, <<"f">>, <<"c", "<", "f">>, <<"e", "|", "c">>, <<"e", "|", "e">>,
    <<"e", "|", "c", "|", "c">>, <<"(", "e", ";", "e", ")", "|", "c">>,
    <<"(", "e", ";", "e", ")", ">", "f">>, <<"e", ">", "f", ";", "c", "<", "f">>,
    <<"e", "&", ";", "e">>, <<"e", "|", ")">> }
=============================================================================
