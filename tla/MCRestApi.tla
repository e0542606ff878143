----------------------------- MODULE MCRestApi -----------------------------
(***************************************************************************)
(* RestApi for TLC: all combinations of what matters for one request and   *)
(* for the items of a batch of up to two.  Characters are "c", and only    *)
(* what a check can tell apart is enumerated.                              *)
(***************************************************************************)
EXTENDS RestApi, TLC

MCMaxContentLength == [c \in {"sms", "push"} |-> IF c = "sms" THEN 6 ELSE 12]

Text(n) == [i \in 1 .. n |-> "c"]

Contents == {<< >>, <<"c">>, <<"x">>, <<"x", "c">>, <<"x", "x">>, Text(6), Text(7), <<"x", "y">>}

Values == {<< >>, <<"c">>, Text(7), <<"y">>}

ValueMaps == UNION {[names -> Values] : names \in SUBSET {"x", "y"}}

Item(recipient, channel, priority, content, values, key) ==
    [recipient |-> recipient, channel |-> channel, priority |-> priority,
     content |-> content, vars |-> values, key |-> key]

Singles ==
    {Item(r, c, p, content, values, k) :
        r \in {"", "ada", "more than 255 characters"}, c \in {"sms", "push", "fax"},
        p \in {"", "high", "urgent"}, content \in Contents, values \in ValueMaps,
        k \in {"", "k"}}

BatchItems ==
    {Item(r, c, "", content, values, k) :
        r \in {"", "ada", "more than 255 characters"}, c \in {"sms", "fax"}, content \in {<<"x">>, Text(7)},
        values \in {[v \in {"x"} |-> <<"c">>]}, k \in {"", "k"}}

MCPosts ==
    {[batch |-> FALSE, items |-> <<item>>] : item \in Singles} \cup
    {[batch |-> TRUE, items |-> items] : items \in BoundedSeq(BatchItems, 2)} \cup
    {[batch |-> TRUE, items |-> <<item, item, item>>] : item \in BatchItems}

Symmetry == Permutations(Ids)
=============================================================================
