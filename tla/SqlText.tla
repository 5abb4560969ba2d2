------------------------------- MODULE SqlText -------------------------------
(***************************************************************************)
(* SQL text as a sequence of tokens.  What a statement says depends on      *)
(* where the parentheses are and on the order of the operands, so those are *)
(* kept: a parenthesis, a list and a call hold the tokens between their     *)
(* brackets, everything else is one token.  Spelling, white space, quotes   *)
(* and commas are left out.                                                 *)
(***************************************************************************)
EXTENDS Integers, Sequences, SequencesExt

Sym(s) == << <<"sym", s>> >>
\* Mutant: the parentheses are left out.
NoGroup(text) == text
Group(text) == << <<"group", text>> >>
List(texts) == << <<"list", texts>> >>
Call(f, texts) == << <<"call", f, texts>> >>
Name(alias, n) == << <<"name", alias, n>> >>
Lit(v) == << <<"lit", v>> >>
Word(w) == << <<"word", w>> >>

\* A clause that is written only when a flag is set.
Clause(flag, clause) == IF flag THEN {clause} ELSE {}

Each(Op(_), s) == [i \in DOMAIN s |-> Op(s[i])]

\* strings::join.
join(delimiter, texts) ==
  IF texts = <<>> THEN <<>>
  ELSE FoldLeft(LAMBDA a, b : a \o delimiter \o b, Head(texts), Tail(texts))
=============================================================================
