------------------------------ MODULE ConfText ------------------------------
(* The text of a configuration file: the sequence of its lines, pairs of a  *)
(* symbol and a text; the text "unset" stands for the comment that a symbol *)
(* is not set.                                                              *)
EXTENDS Sequences, FiniteSetsExt

CONSTANTS
  Symbols,      \* the symbols with a config statement
  ChoiceSyms,   \* the symbols of choice statements
  AutoSyms      \* the symbols whose value comes from the environment

AllSyms == Symbols \cup ChoiceSyms
HeaderSyms == AllSyms \ ChoiceSyms   \* the symbols that have a header

Absent == <<<<"no file", "">>>>
Content(file) == IF file = Absent THEN <<>> ELSE file

\* The text of a symbol in a file, where "none" means it is not set.
TextIn(file, s) ==
  LET at == {i \in DOMAIN file : file[i][1] = s} IN IF at = {} THEN "none" ELSE file[Max(at)][2]
\* conf_split_config: the symbols whose header is touched.
Differing(old, new) == {s \in HeaderSyms : TextIn(old, s) # TextIn(new, s)}
=============================================================================
