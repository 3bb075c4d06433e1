------------------------------ MODULE MCCsvImport ------------------------------
(* Instances of CsvImport for TLC. *)
EXTENDS CsvImport

\* Quotes at both ends and next to a comma, and at the end of a text; a name with
\* spaces around it, of POST /api/profiles, and a country with a comma in its name.
a == <<"quote", "comma", "quote">>
b == <<"letter", "quote">>
ann == <<"space", "letter", "space">>
SomeNames == {a, b, ann}
Stays == {ann}
SomeCountries == {<<"letter", "comma", "space", "letter">>}

Good(n) == [name |-> n, flaws |-> {}]
Bad(n, why) == [name |-> n, flaws |-> why]

\* The header, rows of one name in two chunks and in one, a blank line, a row
\* with two flaws, one with one, and one the database refuses.
Header == Bad(NONE, {"invalid_gender", "invalid_age", "invalid_country"})
ManyFiles ==
    {<<Header, Good(a), Good(b), BLANK, Good(a)>>,
     <<Header, Bad(b, {"invalid_age", "invalid_gender"}), Bad(a, {"invalid_country"}), Good(b)>>,
     <<Header, Good(a), Bad(b, {"refused"})>>}
================================================================================
