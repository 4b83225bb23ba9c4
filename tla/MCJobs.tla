------------------------------- MODULE MCJobs -------------------------------
(* An instance of Jobs for TLC.  "x" stands for a program's name. *)
EXTENDS Jobs

(* The words and operators of a line, with blanks between them. *)
Typed(ws) == FlattenSeq([k \in DOMAIN ws |-> <<ws[k], " ">>])

MCLines ==
  {<<"'", "x">>} \cup
  {Typed(ws) : ws \in {
     <<"x">>, <<"x", "&">>, <<"x", "|", "x">>, <<"x", "|", "x", "&">>,
     <<"x", "&", "x">>, <<"x", "<">>, <<"x", ">", ";", "x">>,
     <<"hop", "&">>, <<"hop", ">", "f">>, <<"reveal", "-", ";", "x">>,
     <<"peek", "f", "-f", ";", "x">>, <<"locate", ">", "f">>, <<"activities">>,
     <<"resume">>, <<"ping">>, <<"spy">>, <<"snoop", "&">>}}

MCChars == {"x", " ", "|", ">", Escape, Quote, "'"}
=============================================================================
