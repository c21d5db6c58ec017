---------------------------- MODULE MCKeyNoteQuery ----------------------------
(* Instances of KeyNoteQuery: a certification authority, a publisher and a *)
(* subscriber that asks.                                                   *)
EXTENDS KeyNoteQuery

CONSTANTS ca, pub, sub

MCPrincipal == {POLICY, ca, pub, sub}
MCAuthorizers == <<sub>>

One(p) == [keys |-> <<p>>, lics |-> {{p}}]
Both(p, q) == [keys |-> <<q, p>>, lics |-> {{p, q}}]
Either(p, q) == [keys |-> <<q, p>>, lics |-> {{p}, {q}}]

SingleLics == {One(ca), One(pub), One(sub)}
SomeLics == SingleLics \union
    {Either(ca, pub), Either(sub, ca), Both(pub, ca), Both(ca, sub)}

Make(p, l, c, t, s, d) ==
    [auth |-> p, keys |-> l.keys, lics |-> l.lics, cond |-> c, local |-> t,
     sig |-> s, deleg |-> d]

PoliciesOf(ls, cds) ==
    {Make(POLICY, l, cd[1], TRUE, FALSE, cd[2]) : l \in ls, cd \in cds}
CredentialsOf(ls, sds) ==
    {Make(p, l, 2, FALSE, sd[1], sd[2]) : p \in {ca, pub}, l \in ls,
        sd \in sds}

\* A policy and two credentials of any shape, one of them perhaps with a
\* signature that fails.
Small ==
    LET credentials == CredentialsOf(SomeLics,
            {<<TRUE, "0">>, <<TRUE, "1">>, <<FALSE, "1">>})
    IN  PoliciesOf(SomeLics, {<<1, "1">>, <<1, "0">>})
            \X credentials \X credentials

\* Chains and trees of up to four, with one or several policies.
Long ==
    LET policies == PoliciesOf(SingleLics, {<<1, "1">>, <<2, "0">>})
        credentials == CredentialsOf(SingleLics, {TRUE} \X {"0", "1"})
        any == policies \union {c \in credentials : c.keys # <<c.auth>>}
    IN  policies \X any \X any \X any

MCAssertionLists == Small \union Long
===============================================================================
