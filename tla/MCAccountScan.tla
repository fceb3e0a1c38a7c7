---------------------------- MODULE MCAccountScan ----------------------------
(***************************************************************************)
(* Instances of AccountScan for TLC: an account with up to three rule      *)
(* slots, a policy and a signer with a classic account.                    *)
(***************************************************************************)
EXTENDS AccountScan, TLC

MCRule == [i \in 0 .. 2 |-> CASE i = 0 -> "rule0" [] i = 1 -> "rule1" [] i = 2 -> "rule2"]

Live(v) == [val |-> v, live |-> TRUE]
Gone(v) == [val |-> v, live |-> FALSE]

NamesOf(e) == IF e = "policy" THEN {"code"} ELSE {"classic"}

\* The store of an account whose rules name these entries.
Store(next, rules) ==
    LET used == UNION {rules[i] : i \in DOMAIN rules}
    IN  ("instance" :> Live([next |-> next, count |-> Cardinality(DOMAIN rules)]))
        @@ [k \in {MCRule[i] : i \in DOMAIN rules} |->
               Live([entries |-> rules[CHOOSE i \in DOMAIN rules : MCRule[i] = k]])]
        @@ [e \in used |-> Live([refs |-> Cardinality({i \in DOMAIN rules : e \in rules[i]}),
                                 names |-> NamesOf(e)])]
        @@ ("code" :> Live([version |-> 1])) @@ ("classic" :> Live([version |-> 1]))

Small == Store(1, 0 :> {"signer"})
Grown == Store(2, 0 :> {"signer"} @@ 1 :> {"policy"})
Hole == Store(2, 1 :> {"policy"})
Full == Store(3, 0 :> {"signer"} @@ 1 :> {"signer", "policy"} @@ 2 :> {"policy"})

\* One rule; two; two and replaced code; a removed rule; archived code; three
\* rules, more than one request reads, and no classic account.
MCAccounts ==
    {Small, Grown, Hole,
     "code" :> Live([version |-> 2]) @@ Grown,
     "code" :> Gone([version |-> 1]) @@ Hole,
     [k \in DOMAIN Full \ {"classic"} |-> Full[k]]}

\* Few and enough batches with and without a second attempt, and bounds that
\* the larger accounts exceed.
MCBounds ==
    {[ids |-> 3, batches |-> 3, entries |-> 2, attempts |-> 1],
     [ids |-> 3, batches |-> 4, entries |-> 2, attempts |-> 2],
     [ids |-> 3, batches |-> 8, entries |-> 2, attempts |-> 1],
     [ids |-> 3, batches |-> 3, entries |-> 1, attempts |-> 1],
     [ids |-> 2, batches |-> 3, entries |-> 2, attempts |-> 1]}
=============================================================================
