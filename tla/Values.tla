------------------------------- MODULE Values -------------------------------
(***************************************************************************)
(* src/include/sqlgen/parsing and duckdb/parsing: how a value of the        *)
(* program gets into a column and how what comes back is read.  Three of    *)
(* the connections send and receive text, DuckDB appends native values.     *)
(*                                                                          *)
(* Integers have the widths of Transpilation, a float is a number of        *)
(* hundredths of which the text keeps the tenths (six digits in the code).  *)
(***************************************************************************)
EXTENDS Transpilation

\* Of an enumeration: its names with the numbers they have in the program.
CONSTANT Enumerators

Float(n) == <<"float", n>>
Enumerator(name) == <<"enum", name>>

Floating == {"Float32", "Float64"}
Unreadable == <<>>
Read(v) == <<v>>

-----------------------------------------------------------------------------
(* Text.                                                                    *)

\* Parser<T>::write: std::to_string for numbers, the name of an enumerator.
write(kind, v) ==
  CASE v = Null -> Null
    [] kind = "Boolean" -> <<"digits", IF v[2] THEN 1 ELSE 0>>
    [] kind \in Integral -> <<"digits", v[2]>>
    [] kind \in Floating -> <<"decimal", ((v[2] + 5) \div 10) * 10>>
    [] OTHER -> <<"chars", v>>

\* Parser<T>::read: stoll stops at the first character that is no digit and the
\* result is cast to the type; a date is read from the front of the text.
read_text(kind, text) ==
  CASE kind = "Date" -> <<"date", text[2][2], text[2][3], 0>>
    [] text[1] = "chars" -> text[2]
    [] text[1] = "letter" -> Bool(text[2])
    [] kind = "Boolean" -> Bool(text[2] # 0)
    [] kind \in Integral /\ text[1] = "digits" -> Number(static_cast(kind, text[2]))
    [] kind \in Integral /\ text[1] = "decimal" -> Number(static_cast(kind, text[2] \div 100))
    [] kind \in Integral /\ text[1] = "exponent" -> Number(1)
    [] text[1] = "digits" -> Float(text[2] * 100)
    [] OTHER -> Float(text[2])

\* Mutant: a field that is not an optional takes NULL.
ReadTakesNull(kind, nullable, text) ==
  Read(IF text = Null THEN Null ELSE read_text(kind, text))

\* NULL is for an optional.
read(kind, nullable, text) ==
  IF text # Null THEN Read(read_text(kind, text)) ELSE IF nullable THEN Read(Null) ELSE Unreadable

\* A line of COPY ends at a newline, wherever it is; only a field with a tab is
\* quoted.
to_buffer(texts) ==
  IF \E i \in DOMAIN texts : texts[i] = <<"chars", Text("newline")>>
  THEN <<texts, "broken">> ELSE <<texts, "whole">>

-----------------------------------------------------------------------------
(* Native values of DuckDB.                                                 *)

\* An enumerator is appended by its name and read by its place in the type.
duckdb_read(type, v) ==
  CASE v = Null -> IF type.nullable THEN Read(Null) ELSE Unreadable
    [] v[1] = "place" ->
         LET numbered == {n \in DOMAIN Enumerators[v[2]] : Enumerators[v[2]][n] = v[3]}
         IN Read(Enumerator(IF numbered = {} THEN "none" ELSE CHOOSE n \in numbered : TRUE))
    [] type.kind = "Date" -> Read(<<"date", v[2], v[3], 0>>)
    [] v[1] = "float" /\ type.kind \in Integral -> Read(Number(static_cast(type.kind, v[2] \div 100)))
    [] v[1] = "int" /\ type.kind \in Floating -> Read(Float(v[2] * 100))
    [] v[1] = "int" /\ type.kind \in Integral -> Read(Number(static_cast(type.kind, v[2])))
    [] OTHER -> Read(v)

duckdb_write(v) == IF v[1] = "enum" THEN Text(v[2]) ELSE v
=============================================================================
