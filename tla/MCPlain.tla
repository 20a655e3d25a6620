------------------------------- MODULE MCPlain -------------------------------
(***************************************************************************)
(* A small instance of PlainProperties.                                    *)
(***************************************************************************)
EXTENDS PlainProperties

\* A reply with data and the end behind it, or an error.
MCAnswers ==
  {<< << Item("reply"), Datum("far", 1) >>, << Item("end") >> >>, << << Item("error") >> >>}
=============================================================================
