------------------------------ MODULE MCDryRun ------------------------------
(***************************************************************************)
(* Dry runs of a capped exact transfer, an uncapped one and a bounded one  *)
(* with a window.  Policies with every single departure from the rule, with*)
(* a worker that keeps to the protocol; and the right policy with a worker *)
(* that departs from it in one way, in one of its four modes.              *)
(***************************************************************************)
EXTENDS DryRun

CONSTANTS Acct, Bob

address(a) == [t |-> "address", v |-> a]

eq_self == [c |-> "eq_self", v |-> 0, xdr |-> <<>>]
eq_to == [c |-> "eq_address", v |-> Bob, xdr |-> <<>>]
eq(n) == [c |-> "eq_i128", v |-> n, xdr |-> <<>>]
le(n) == [c |-> "le_i128", v |-> n, xdr |-> <<>>]

rule(args, max, until) ==
    [ kind |-> "any_of", signers |-> <<"s1">>, n |-> 1, strict |-> TRUE, contract |-> Sac,
      valid_until |-> until, max_calls |-> max, calls |-> <<[fn |-> "transfer", args |-> args]>> ]

Capped == rule(<<eq_self, eq_to, eq(5)>>, {2}, {})
Exact == rule(<<eq_self, eq_to, eq(5)>>, {}, {})
Bounded == rule(<<eq_self, le(5)>>, {1}, {50})
TooMany == rule(<<eq_self, le(5)>>, {4}, {})
TwoSigners == [Exact EXCEPT !.signers = <<"s1", "s2">>]

MinI128 == -100

MCArgLists ==
    {<<>>, <<address(Acct)>>}
    \cup {<<a, I128(n)>> : a \in {address(Acct), address(Bob)}, n \in 4 .. 6}
    \cup {<<address(Acct), address(b), I128(n)>> : b \in {Bob, Stranger}, n \in 4 .. 6}

-----------------------------------------------------------------------------
(* Jobs *)

Ledger == [protocol |-> ProtocolVersion, sequence |-> 7, ttl_bounds |-> TRUE, reserve |-> 1, max_ttl |-> 40]

job(r, code) ==
    LET spec == [account |-> Acct, network |-> "test", account_code |-> AccountPin,
                 rules |-> <<[rule |-> r, policies |-> <<"generated">>]>>]
    IN  [ schema |-> 1, ledger |-> Ledger, canonical |-> TRUE, request |-> "request",
          spec |-> spec, artifact_spec |-> spec, index |-> 1, artifact_index |-> 1,
          account |-> Acct, network |-> "test", bound_spec |-> spec, bound_network |-> "test",
          bindings |-> <<[rule_index |-> 1, policy_index |-> 0, contract |-> "policy", code |-> code]>>,
          account_code |-> AccountPin, policy_code |-> {code}, context_rule |-> {},
          registry_valid |-> TRUE ]

Codes ==
    {RightCode, [RightCode EXCEPT !.slack = 1], [RightCode EXCEPT !.slack = -1],
     [RightCode EXCEPT !.adds = 0], [RightCode EXCEPT !.adds = 2],
     [RightCode EXCEPT !.reads = {<<"oracle", "x">>}]}
    \cup {[RightCode EXCEPT !.ignores = {refusal}] : refusal \in DOMAIN error_code}

-----------------------------------------------------------------------------
(* Captures *)

entry(value, until) == [value |-> value, until |-> until, modified |-> 6, matches |-> TRUE]

transfer(to, n) == [contract |-> Sac, fn |-> "transfer", from |-> Acct, to |-> to, amount |-> n]

capture(to, balance, until) ==
    [ id |-> "capture", schema |-> 1, provenance |-> "rpc_reported", network |-> "test", observed |-> 9,
      account_code |-> AccountPin, header |-> [hashes |-> TRUE, sequence |-> 9, protocol |-> ProtocolVersion],
      archival |-> [matches |-> TRUE, modified |-> 3], ledger |-> [Ledger EXCEPT !.sequence = 9],
      call |-> transfer(to, 5), recorded |-> transfer(to, 5),
      read_only |-> {InstanceKey}, read_write |-> {BalanceKey(Acct), AccountKey(to)},
      entries |-> (InstanceKey :> entry(1, {30})) @@ (BalanceKey(Acct) :> entry(balance, {until}))
                  @@ (AccountKey(to) :> entry(3, {})) ]

taken(c) == {[ok |-> TRUE, data |-> c]}

GoodCapture == capture(Bob, 20, 12)

OddCaptures ==
    {capture(Bob, 20, 9), capture(Bob, 20, 10), capture("s1", 20, 12), capture(Bob, 5, 12),
     capture(Bob, 4, 12), [GoodCapture EXCEPT !.header.sequence = 8],
     [GoodCapture EXCEPT !.archival.modified = 10], [GoodCapture EXCEPT !.recorded.amount = 6],
     [GoodCapture EXCEPT !.read_only = {}], [GoodCapture EXCEPT !.network = "public"],
     [GoodCapture EXCEPT !.ledger.reserve = 0]}

-----------------------------------------------------------------------------
(* Workers *)

Steady == [ eager |-> FALSE, hangs |-> 0, closes |-> FALSE, kid |-> {}, leaves |-> FALSE, flood |-> FALSE,
            unwaitable |-> FALSE, spawns |-> TRUE, fits |-> TRUE ]

kid(group, pipes) == {[group |-> group, pipes |-> pipes, writes |-> TRUE]}

Hanging == [Steady EXCEPT !.hangs = 2]

OddProcesses ==
    {[Steady EXCEPT !.eager = TRUE], Hanging, [Hanging EXCEPT !.leaves = TRUE],
     [Hanging EXCEPT !.closes = TRUE], [Hanging EXCEPT !.closes = TRUE, !.leaves = TRUE],
     [Steady EXCEPT !.kid = kid(TRUE, TRUE)], [Steady EXCEPT !.kid = kid(TRUE, FALSE)],
     [Steady EXCEPT !.kid = kid(FALSE, TRUE)], [Steady EXCEPT !.kid = kid(FALSE, FALSE)],
     [Steady EXCEPT !.flood = TRUE], [Steady EXCEPT !.unwaitable = TRUE],
     [Steady EXCEPT !.spawns = FALSE], [Steady EXCEPT !.fits = FALSE]}

FrameFaults ==
    {"exit", "empty", "other_preparation", "twice_prepared", "no_result", "two_results",
     "asks_after", "short_result", "other_result", "fewer_cases", "skips", "repeats", "renumbers",
     "live", "other_expiry", "other_digest"}

-----------------------------------------------------------------------------
(* Setups *)

KeyFile == [regular |-> TRUE, private |-> TRUE, replaced |-> FALSE, key |-> "s1"]

command(j, c) == [job |-> j, capture |-> c]

PolicyCommands ==
    InOrder({command(job(Capped, code), {}) : code \in Codes})
    \o InOrder({command(job(Bounded, code), {}) : code \in Codes})
    \o InOrder({command(job(Exact, code), taken(GoodCapture)) : code \in Codes})

RightJob == job(Exact, RightCode)

OddCommands ==
    {command(RightJob, taken(c)) : c \in OddCaptures}
    \cup {command(RightJob, {}), command(RightJob, {[ok |-> FALSE, data |-> GoodCapture]})}
    \cup {command(j, taken(GoodCapture)) : j \in
        {job(TooMany, RightCode), job(TwoSigners, RightCode), [RightJob EXCEPT !.canonical = FALSE],
         [RightJob EXCEPT !.registry_valid = FALSE], [RightJob EXCEPT !.ledger.sequence = 0],
         [job(TooMany, RightCode) EXCEPT !.ledger.sequence = 0],
         [RightJob EXCEPT !.artifact_index = 2], [RightJob EXCEPT !.bindings = <<>>],
         [RightJob EXCEPT !.policy_code = {}],
         [RightJob EXCEPT !.spec.rules[1].policies = <<"generated", "composed">>],
         [RightJob EXCEPT !.bindings[1].contract = Acct]}}

MCCommands == PolicyCommands \o InOrder(OddCommands)

Right(commands) == CHOOSE c \in DOMAIN commands : commands[c] = command(RightJob, taken(GoodCapture))

plain(c) ==
    [ command |-> c, file |-> KeyFile, at |-> "none", fault |-> "none", process |-> Steady,
      usual |-> Steady, late |-> FALSE ]

faulty(right, mode, fault, process) ==
    [plain(right) EXCEPT !.at = mode, !.fault = fault, !.process = process, !.late = process # Steady]

(* A worker that claims that everything agrees, over every policy. *)
claiming(mode, command_numbers) ==
    InOrder({[plain(c) EXCEPT !.at = mode, !.fault = "claims"] : c \in command_numbers})

odd_lines(right, mode) == InOrder({faulty(right, mode, fault, Steady) : fault \in FrameFaults})

keys(right) ==
    InOrder({[plain(right) EXCEPT !.file = f] : f \in
                {[KeyFile EXCEPT !.key = "s2"], [KeyFile EXCEPT !.private = FALSE]}})

(* In parts, for a fold over a long set is deep. *)
setups(commands, policies, right) ==
    [c \in DOMAIN commands |-> plain(c)]
    \o claiming("Execute", 1 .. policies)
    \o claiming("ExecuteCaptured", {c \in 1 .. policies : commands[c].capture # {}})
    \o odd_lines(right, "Prepare") \o odd_lines(right, "Execute")
    \o odd_lines(right, "PrepareCaptured") \o odd_lines(right, "ExecuteCaptured")
    \o InOrder({faulty(right, mode, "none", p) : mode \in {"Prepare", "ExecuteCaptured"},
                                                p \in OddProcesses})
    \o InOrder({faulty(right, "ExecuteCaptured", "two_results", p) : p \in OddProcesses})
    \o keys(right)

numbered(commands) == setups(commands, Len(PolicyCommands), Right(commands))

MCSetups == numbered(MCCommands)

(* The worker follows from the setup's number. *)
View == <<setup, phase, run, proc, events, signer, layers, signatures>>

=============================================================================
