---------------------------- MODULE MCFromAddress ----------------------------
EXTENDS FromAddress

CONSTANTS me, team, alias, other

Identities == {<<>>} \cup {<<Owned(a, 1)>> : a \in {me, team, other}}
                \cup {<<Owned(a, 1), Owned(b, 2)>> : a, b \in {me, team, other}}

Alias(a, enabled) == [email |-> a, enabled |-> enabled, domainKnown |-> TRUE]

\* The caller's own principal behind somebody else's.
Principals ==
    {<<>>,
     << [names |-> {other}, aliases |-> <<Alias(team, TRUE)>>],
        [names |-> {me}, aliases |-> <<Alias(alias, TRUE), Alias(other, FALSE)>>] >>,
     << [names |-> {me}, aliases |-> <<[Alias(alias, TRUE) EXCEPT !.domainKnown = FALSE],
                                       Alias(team, TRUE)>>] >>}

Entry(owner, email) == [owner |-> owner, email |-> email]

MCInputs ==
    [identities: Identities,
     lookup: {"ok", "unavailable", "failed"},
     principals: Principals,
     declared: {<<>>, <<Entry(me, alias), Entry(other, other), Entry(me, alias)>>,
                <<Entry(None, other)>>, <<Entry(me, team)>>, <<Entry(Malformed, other)>>},
     explicit: {None, me, team, alias},
     preferred: {<<>>, <<team>>, <<alias>>, <<team, other>>},
     claim: {None, me, team},
     authenticatedAs: {None, me, other}]
=============================================================================
