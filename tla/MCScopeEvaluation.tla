--------------------------- MODULE MCScopeEvaluation ---------------------------
(* Small instances of ScopeEvaluation for TLC: two domains with one host each. *)
EXTENDS ScopeEvaluation

Entry(base, wild, include, enabled, asset, proto, path) ==
    [base |-> base, wild |-> wild, include |-> include, enabled |-> enabled,
     asset |-> asset, proto |-> proto, path |-> path]

Domains == {<<"d">>, <<"e">>}
HostNames == Domains \cup {Append(d, "api") : d \in Domains}
PathNames == {<<>>, <<"a">>, <<"a", "b">>}
\* What is below d, but not an asset of it, nor d itself; a disabled rule; what
\* is below e, excluded; and a rule that is refused.
FileEntries ==
    {Entry(<<"d">>, TRUE, TRUE, TRUE, FALSE, "any", <<>>),
     Entry(<<"d", "api">>, FALSE, FALSE, TRUE, TRUE, "any", <<"a">>),
     Entry(<<"d">>, FALSE, FALSE, TRUE, TRUE, "any", <<>>),
     Entry(<<"e", "api">>, FALSE, TRUE, FALSE, FALSE, "https", <<"a">>),
     Entry(<<"e">>, TRUE, FALSE, TRUE, FALSE, "any", <<>>),
     Entry(<<>>, TRUE, TRUE, TRUE, FALSE, "any", <<>>)}
NamedPatterns == {[base |-> <<"d">>, wild |-> TRUE], [base |-> <<"e">>, wild |-> FALSE],
                  [base |-> <<>>, wild |-> TRUE]}
=============================================================================
