-------------------------------- MODULE MCPage --------------------------------
(* Page with three commits, c3 a merge of the others, and a dozen inputs.      *)
EXTENDS Page

CONSTANTS c1, c2, c3, ann, bob, fix, readme, docs, main, topic, v1, today, junk, nothing

CommitsOf == {c1, c2, c3}

\* What fits under each qualifier; ann wrote c1 and c3, "fix" is a word of c2's
\* message, readme a file of c1 and c3, docs a directory of c3, v1 a tag of c3.
FitsOfValues ==
    [author |-> (ann :> {c1, c3} @@ bob :> {c2}), message |-> (fix :> {c2}), hash |-> (fix :> {}),
     tag |-> (v1 :> {c3}), file |-> (readme :> {c1, c3}), path |-> (docs :> {c3}),
     after |-> (today :> {c2, c3}), before |-> (today :> {c1, c2})]
TipsOf == main :> c3 @@ topic :> c2
ParentsOf == c1 :> {} @@ c2 :> {c1} @@ c3 :> {c1, c2}
MergesOf == {c3}

W(dash, key, value) == [dash |-> dash, key |-> key, value |-> value]
Is(key, value) == W(FALSE, key, value)
Not(key, value) == W(TRUE, key, value)

\* Every qualifier, negated and not, alone or with another of its kind; a
\* later word that overrides; words with errors, with no value, unknown.
SomeInputs ==
    {<<>>,
     <<Is("author", ann), Is("author", bob), Not("text", fix)>>,
     <<Not("author", ann), Is("hash", nothing), Is("message", fix)>>,
     <<Is("file", readme), Not("path", docs)>>,
     <<Not("file", readme)>>,
     <<Is("merge", "only"), Not("merge", "exclude")>>,
     <<Is("merge", "exclude"), Is("merge", junk)>>,
     <<Is("branch", main), Not("branch", topic)>>,
     <<Is("after", today), Is("after", junk), Is("before", today)>>,
     <<Not("after", today)>>,
     <<Is("text", fix), Is("text", bob)>>,
     <<Not("words", fix)>>,
     <<Is("tag", v1), Not("tag", junk)>>}

SomeSuggestions == <<"file">>
SomeIndexes == {{c1, c3}, {c3}}
==============================================================================
