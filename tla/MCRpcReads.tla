----------------------------- MODULE MCRpcReads -----------------------------
EXTENDS RpcReads

MCLedgers == {3, 4, 5, 17}

MCBase ==
    [acct_instance |-> "code1", code1 |-> "bytes", code2 |-> "bytes", sac_instance |-> "sac",
     balance |-> "A", recipient |-> "A", config |-> "settings", acct_store |-> "A",
     t_instance |-> "code1", store1 |-> "A", store2 |-> "A", payer |-> "s1",
     nonce |-> "absent", sac |-> "absent", external |-> "absent", none |-> "absent",
     c1 |-> "code1", c2 |-> "code2", c3 |-> "sac", c4 |-> "code1", c5 |-> "code2"]

World(key, val, at, expiring, until) ==
    [key |-> key, val |-> val, at |-> at, expiring |-> expiring, until |-> until]

Quiet == World("none", "absent", 3, "none", 3)

(* One change of one entry, and one entry with a short life.                 *)
Moving(changes, expiring) ==
    {World(c[1], c[2], at, k, until) :
        c \in changes \cup {<<"none", "absent">>}, at \in {4, 5}, k \in expiring, until \in {3, 4}}

Envelope ==
    [large |-> FALSE, spaced |-> FALSE, decodes |-> TRUE, canonical |-> TRUE, form |-> "v1",
     ops |-> 1, invoke |-> TRUE, memo |-> FALSE, signed |-> FALSE, auth |-> "none",
     call |-> "transfer", amount |-> 5, soroban |-> TRUE, bytes |-> TRUE,
     ro |-> <<"acct_instance", "code1", "sac_instance">>,
     rw |-> <<"balance", "recipient", "nonce">>]

Departures ==
    {[Envelope EXCEPT !.large = TRUE], [Envelope EXCEPT !.spaced = TRUE],
     [Envelope EXCEPT !.decodes = FALSE], [Envelope EXCEPT !.canonical = FALSE],
     [Envelope EXCEPT !.form = "v0"], [Envelope EXCEPT !.form = "bump"],
     [Envelope EXCEPT !.ops = 2], [Envelope EXCEPT !.invoke = FALSE],
     [Envelope EXCEPT !.memo = TRUE], [Envelope EXCEPT !.signed = TRUE],
     [Envelope EXCEPT !.auth = "void"], [Envelope EXCEPT !.auth = "signed"],
     [Envelope EXCEPT !.auth = "delegate"], [Envelope EXCEPT !.call = "other"],
     [Envelope EXCEPT !.amount = 0], [Envelope EXCEPT !.amount = 7],
     [Envelope EXCEPT !.soroban = FALSE], [Envelope EXCEPT !.bytes = FALSE],
     [Envelope EXCEPT !.rw = <<"balance", "recipient">>],
     [Envelope EXCEPT !.ro = <<"acct_instance", "code1", "sac_instance", "sac_instance">>],
     [Envelope EXCEPT !.ro = <<"acct_instance", "code2", "sac_instance">>]}

(* A footprint that is already there: the recording's nonce left out.        *)
Declared == [Envelope EXCEPT !.rw = <<"balance", "recipient">>]

Names == <<"t_instance", "acct_instance", "sac_instance", "c1", "c2", "c3", "c4", "c5">>

Many == [i \in 1..8 |-> "payer"]

Recording(contracts) ==
    [op : {"transaction"}, hash : {TRUE}, applied : BOOLEAN, contracts : contracts]

Enveloped(op, envelopes) == [op : {op}, envelope : envelopes, contracts : {<<"t_instance">>}]

Target(selected) == [op : {"target"}, address : {TRUE}, selected : selected]

Assembly ==
    [op : {"assembly"}, validity : {1, 3}, authority : {3, 4}, max_fee : {100, 250, 300},
     install : {TRUE}, payer : {TRUE}]

Setup(jobs, worlds) == [job : jobs, world : worlds]

TransferWorlds ==
    Moving({<<"acct_instance", "code2">>, <<"balance", "B">>, <<"recipient", "absent">>,
            <<"config", "bad">>}, {"none", "acct_instance", "code1", "balance", "sac_instance"})

TargetWorlds ==
    Moving({<<"t_instance", "code2">>, <<"t_instance", "external">>, <<"t_instance", "sac">>,
            <<"store1", "absent">>, <<"store1", "B">>}, {"none", "t_instance", "code1", "store1"})

MCSetups ==
    UNION {
      Setup(Recording({<<>>, <<"t_instance">>, Names}), Moving({<<"t_instance", "code2">>}, {"none"})),
      Setup(Recording({<<"t_instance", "acct_instance">>}), TargetWorlds),
      Setup([op : {"transaction"}, hash : {FALSE}, applied : {TRUE}, contracts : {<<>>}], {Quiet}),
      Setup(Enveloped("simulation", {Envelope}), TransferWorlds),
      Setup(Enveloped("preflight", {Envelope}), TransferWorlds),
      Setup(Enveloped("native", {Envelope}), TransferWorlds),
      Setup(Enveloped("footprint", {Declared}), TransferWorlds),
      Setup(UNION {Enveloped(op, Departures) : op \in {"simulation", "preflight", "native", "footprint"}},
            {Quiet}),
      Setup(Target({<<>>, <<"store1">>, <<"store1", "store2">>}), TargetWorlds),
      Setup(Target({<<"store1", "store1">>, <<"unrelated">>, <<"t_instance">>,
                    <<"store1", "store2", "c1", "c2", "c3", "c4">>}), {Quiet}),
      Setup([op : {"code"}, contracts : {<<"t_instance">>, <<"t_instance", "acct_instance">>}], TargetWorlds),
      Setup([op : {"code"}, contracts : {<<>>, Names, <<"c1", "c1">>, <<"c1", "c3">>}], {Quiet}),
      Setup([op : {"data"}, keys : {<<"t_instance">>, <<"store1", "t_instance">>}, keys_ok : {TRUE}],
            TargetWorlds),
      Setup([op : {"data"}, keys : {<<>>, Names, <<"store1", "store1">>, <<"store1">>},
             keys_ok : BOOLEAN], {Quiet}),
      Setup([op : {"classic"}, accounts : {<<"payer">>, <<"recipient", "payer">>}, addresses : {TRUE}],
            Moving({<<"payer", "s2">>, <<"recipient", "absent">>}, {"none"})),
      Setup([op : {"classic"}, accounts : {<<>>, Many, <<"payer", "payer">>, <<"payer">>},
             addresses : BOOLEAN], {Quiet}),
      Setup(Assembly, Moving({<<"payer", "s2">>, <<"acct_instance", "code2">>},
                             {"none", "acct_store", "code1"})),
      Setup([op : {"assembly"}, validity : {0, 121}, authority : {0, 3}, max_fee : {99, 300},
             install : BOOLEAN, payer : BOOLEAN], {Quiet})}
=============================================================================
