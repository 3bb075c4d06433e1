--------------------------- MODULE MCProfileQueries ---------------------------
(* Instances of ProfileQueries for TLC. *)
EXTENDS ProfileQueries, TLC

\* Ages at the ends of "young" and at 0, two rows of one age, a probability
\* that rounding reaches from below; papua new guinea is not guinea,
\* and isle of man says male.
Person(gender, age, group, country, probability, created) ==
    [gender |-> gender, age |-> age, age_group |-> group, country_id |-> country,
     gender_probability |-> probability, country_probability |-> 500,
     created_at |-> created]
Rows == (1 :> Person("female", 16, "teenager", "PG", 990, 1))
        @@ (2 :> Person("male", 24, "adult", "GN", 500, 2))
        @@ (3 :> Person("male", 0, "child", "IM", 1000, 3))
        @@ (4 :> Person("female", 24, "adult", "IM", 700, 4))

Capitals == ("male" :> "MALE") @@ ("gn" :> "GN") @@ ("im" :> "IM")

Lists ==
    {[limit |-> 2],
     [limit |-> 2, sort_by |-> "age", order |-> "asc"],
     [limit |-> 2, page |-> 2, gender |-> "MALE"],
     [limit |-> 2, gender |-> "male", country_id |-> "GN"],
     [limit |-> 1, country_id |-> "im", gender |-> "male"],
     [max_age |-> 0], [limit |-> 2, min_age |-> 1, country_id |-> ""],
     [limit |-> 1, min_gender_probability |-> 994],
     [limit |-> 1, min_gender_probability |-> 992],
     [limit |-> 1, min_gender_probability |-> 701]}

Word(w) == [word |-> w, number |-> NONE]
Number(w, n) == [word |-> w, number |-> n]
Texts ==
    {<<Word("female")>>, <<Word("male"), Word("female"), Word("adult")>>,
     <<Word("young"), Word("papua new guinea")>>, <<Word("guinea"), Word("male")>>,
     <<Word("isle of man")>>, <<Word("female"), Word("isle of man")>>,
     <<Number("over", 16), Number("under", 16)>>,
     <<Word("young"), Number("over", 24), Word("sort"), Word("age"), Word("oldest")>>,
     <<Word("sort"), Word("newest")>>,
     <<Word("teenager"), Word("adult")>>, <<Word("other")>>}
Paging == [page : {1}, limit : {2}]

TermsOf == ("papua new guinea" :> {"papua new guinea", "guinea"}) @@ ("guinea" :> {"guinea"})
           @@ ("isle of man" :> {"isle of man"})
Genus == ("papua new guinea" :> NONE) @@ ("guinea" :> NONE) @@ ("isle of man" :> "male")
Codes == ("papua new guinea" :> "PG") @@ ("guinea" :> "GN") @@ ("isle of man" :> "IM")
Lengths == ("papua new guinea" :> 16) @@ ("guinea" :> 6) @@ ("isle of man" :> 11)

Symmetric == Permutations(Client)
================================================================================
