--------------------------- MODULE GeneratedPolicy ---------------------------
(***************************************************************************)
(* A deployed policy contract compiled from one rule: what it stores per   *)
(* installation (smart account, context rule id), its three entry points   *)
(* and its two queries, run by a host that makes every transaction atomic  *)
(* and archives entries whose time to live has run out.                    *)
(*                                                                         *)
(* store is the ledger's committed state and work the state the current    *)
(* transaction sees; no transaction is under way when they are equal.  A   *)
(* transaction may make several calls, for several authorization contexts; *)
(* a refused call, or a failure after the policy has returned, undoes them *)
(* all.                                                                    *)
(***************************************************************************)
EXTENDS PolicyRule

CONSTANTS
    MaxLedger,  \* bound on the ledger sequence
    PermitBound,\* bound on the permit history where the rule has no cap
    MinTtl,     \* time to live the host gives a new or restored entry
    MaxTtl      \* the network's max_ttl()

ASSUME TtlAssumption ==
    /\ MinTtl \in Nat \ {0}
    /\ MaxTtl \in Nat \ {0}
    /\ MaxLedger \in Nat
    /\ PermitBound \in Nat

VARIABLES
    rule,       \* the compiled constants; never change
    ledger,     \* current ledger sequence
    store,      \* committed contract state
    work        \* state inside the transaction under way

vars == <<rule, ledger, store, work>>

Installations == Accounts \X RuleIds

AccountOf(i) == i[1]

(* Storage keys: Installed(account, id), CallCount(account, id), and the   *)
(* contract instance.                                                      *)
Marker(i) == <<"Installed", i>>

Counter(i) == <<"CallCount", i>>

Instance == <<"instance">>

Entries == {Instance} \cup {Marker(i) : i \in Installations}
                      \cup {Counter(i) : i \in Installations}

(***************************************************************************)
(* Contract state: the marker and count of each installation, the last     *)
(* ledger each entry lives (0: no such entry), and two histories that die  *)
(* with a rolled back transaction as well: how many calls the installation *)
(* was permitted, and when it was last installed or used with calls left.  *)
(***************************************************************************)
Stores == [marker  : [Installations -> BOOLEAN],
           count   : [Installations -> SUBSET Nat],
           until   : [Entries -> Nat],
           permits : [Installations -> Nat],
           used    : [Installations -> SUBSET Nat]]

TypeOK ==
    /\ rule \in Rules
    /\ ledger \in Nat
    /\ store \in Stores
    /\ work \in Stores

Init ==
    /\ rule \in Rules
    /\ ledger = 1
    /\ store = [marker  |-> [i \in Installations |-> FALSE],
                count   |-> [i \in Installations |-> {}],
                until   |-> [e \in Entries |-> IF e = Instance THEN MinTtl ELSE 0],
                permits |-> [i \in Installations |-> 0],
                used    |-> [i \in Installations |-> {}]]
    /\ work = store

-----------------------------------------------------------------------------
(* The host *)

Live(e) == ledger <= work.until[e]

(* A new entry lives MinTtl ledgers, the current one included. *)
FreshUntil == ledger + MinTtl - 1

(* Storage::extend_ttl: extends when the current ttl is at most the        *)
(* threshold, and never shortens.                                          *)
extend_ttl(until, threshold, extend_to) ==
    IF until - ledger <= threshold /\ ledger + extend_to > until
    THEN ledger + extend_to
    ELSE until

(* An archived entry is gone from reach, not from the ledger: touching it   *)
(* fails the transaction until it is restored with the value it had.        *)
Restore(e) ==
    /\ work = store
    /\ store.until[e] # 0
    /\ ledger > store.until[e]
    /\ store' = [store EXCEPT !.until[e] = FreshUntil]
    /\ work' = store'
    /\ UNCHANGED <<rule, ledger>>

Tick ==
    /\ work = store
    /\ ledger < MaxLedger
    /\ ledger' = ledger + 1
    /\ UNCHANGED <<rule, store, work>>

Commit ==
    /\ work # store
    /\ store' = work
    /\ UNCHANGED <<rule, ledger, work>>

(* The transaction fails after the policy has returned. *)
RollBack ==
    /\ work # store
    /\ work' = store
    /\ UNCHANGED <<rule, ledger, store>>

-----------------------------------------------------------------------------
(* Rent *)

TargetAt(l) ==
    LET bounds == {MaxTtl} \cup {SaturatingSub(until, l) : until \in rule.valid_until}
    IN  CHOOSE ttl \in bounds : \A other \in bounds : ttl <= other

ttl_target == TargetAt(ledger)

(* The entries a call of this installation depends on. *)
Dependencies(i) ==
    {Instance, Marker(i)} \cup (IF HasState(rule) THEN {Counter(i)} ELSE {})

(* Mutants: the last permitted call extends too; the marker is left out. *)
ExtendTtl_Ungated(until, i, remaining) ==
    IF ttl_target > 0
    THEN [e \in Entries |->
            IF e \in Dependencies(i)
            THEN extend_ttl(until[e], ttl_target \div 2, ttl_target)
            ELSE until[e]]
    ELSE until

ExtendTtl_NotTheMarker(until, i, remaining) ==
    IF 0 \notin remaining /\ ttl_target > 0
    THEN [e \in Entries |->
            IF e \in Dependencies(i) \ {Marker(i)}
            THEN extend_ttl(until[e], ttl_target \div 2, ttl_target)
            ELSE until[e]]
    ELSE until

(* remaining is empty when the rule has no cap. *)
ExtendTtl(until, i, remaining) ==
    IF 0 \notin remaining /\ ttl_target > 0
    THEN [e \in Entries |->
            IF e \in Dependencies(i)
            THEN extend_ttl(until[e], ttl_target \div 2, ttl_target)
            ELSE until[e]]
    ELSE until

-----------------------------------------------------------------------------
(* Entry points.  require_auth is the account's own call: nobody else makes *)
(* these steps.                                                             *)

Verdict(i, r) ==
    enforce_verdict(rule, work.marker[i], work.count[i], ledger, r, AccountOf(i))

(* A refusal is a panic: it takes back every call of the transaction. *)
Refused ==
    /\ work' = store
    /\ UNCHANGED <<rule, ledger, store>>

(* Mutant: the count is taken down instead of up. *)
Permitted_CountsDown(i) ==
    LET count == {n - 1 : n \in work.count[i]}
        remaining == {max - n : max \in rule.max_calls, n \in count}
    IN  work' = [work EXCEPT !.count[i] = count,
                             !.until = ExtendTtl(work.until, i, remaining),
                             !.permits[i] = @ + 1,
                             !.used[i] = IF 0 \in remaining THEN @ ELSE {ledger}]

Permitted(i) ==
    LET count == {n + 1 : n \in work.count[i]}
        remaining == {max - n : max \in rule.max_calls, n \in count}
    IN  work' = [work EXCEPT !.count[i] = count,
                             !.until = ExtendTtl(work.until, i, remaining),
                             !.permits[i] = @ + 1,
                             !.used[i] = IF 0 \in remaining THEN @ ELSE {ledger}]

enforce(i, r) ==
    /\ \A e \in Dependencies(i) : work.until[e] # 0 => Live(e)
    /\ AccountAdmits(r)
    /\ \/ /\ Verdict(i, r) = "Permit"
          /\ HasState(rule) \/ work.permits[i] < PermitBound
          /\ Permitted(i)
          /\ UNCHANGED <<rule, ledger, store>>
       \/ /\ Verdict(i, r) # "Permit"
          /\ Refused

install(i) ==
    /\ Live(Instance)
    /\ work.until[Marker(i)] # 0 => Live(Marker(i))
    /\ \/ /\ ~Expired(rule, ledger)
          /\ ~work.marker[i]
          /\ LET fresh == [e \in Entries |->
                             IF e \in Dependencies(i) \ {Instance} THEN FreshUntil
                             ELSE work.until[e]]
             IN  work' = [work EXCEPT
                            !.marker[i] = TRUE,
                            !.count[i] = IF HasState(rule) THEN {0} ELSE {},
                            !.until = ExtendTtl(fresh, i, rule.max_calls),
                            !.permits[i] = 0,
                            !.used[i] = {ledger}]
          /\ UNCHANGED <<rule, ledger, store>>
       \/ /\ Expired(rule, ledger) \/ work.marker[i]
          /\ Refused

uninstall(i) ==
    /\ \A e \in Dependencies(i) : work.until[e] # 0 => Live(e)
    /\ \/ /\ work.marker[i]
          /\ work' = [work EXCEPT !.marker[i] = FALSE,
                                  !.count[i] = {},
                                  !.until[Marker(i)] = 0,
                                  !.until[Counter(i)] = 0,
                                  !.permits[i] = 0,
                                  !.used[i] = {}]
          /\ UNCHANGED <<rule, ledger, store>>
       \/ /\ ~work.marker[i]
          /\ Refused

-----------------------------------------------------------------------------
(* Queries: pure reads that extend nothing. *)

is_installed(s, i) == s.marker[i]

(* Empty where the query panics with MissingState. *)
remaining_calls(s, i) ==
    IF s.marker[i]
    THEN {SaturatingSub(max, n) : max \in rule.max_calls, n \in s.count[i]}
    ELSE {}

Next ==
    \/ Tick
    \/ Commit
    \/ RollBack
    \/ \E e \in Entries : Restore(e)
    \/ \E i \in Installations :
        \/ install(i)
        \/ uninstall(i)
        \/ \E r \in Requests : enforce(i, r)

Spec == Init /\ [][Next]_vars

-----------------------------------------------------------------------------
(* Properties *)

(***************************************************************************)
(* In every committed state, and inside every transaction, the calls an    *)
(* installation was permitted since it was installed never exceed the      *)
(* compiled cap, and remaining_calls reports exactly what is left of it:   *)
(* whatever else was installed, used, archived, restored, removed or       *)
(* rolled back in between.  Every installed capped policy answers it.      *)
(***************************************************************************)
CallBudget ==
    \A s \in {store, work}, i \in Installations, max \in rule.max_calls :
        is_installed(s, i) =>
            /\ s.permits[i] <= max
            /\ remaining_calls(s, i) = {max - s.permits[i]}

(***************************************************************************)
(* Storage lifetime is bought only for use: apart from the lifetime the    *)
(* host itself gives a new or a restored entry, no step moves the end of   *)
(* an entry's life past the rule's window or the network's maximum, and    *)
(* none extends an entry for an installation that can permit no more call. *)
(* (Taking a transaction back returns entries to what they were.)          *)
(***************************************************************************)
GivenByHost(e) ==
    /\ work.until[e] < ledger
    /\ work'.until[e] = FreshUntil

RentStep ==
    \A e \in Entries :
        work' # store /\ work'.until[e] > work.until[e] /\ ~GivenByHost(e) =>
            /\ \A until \in rule.valid_until : work'.until[e] <= until
            /\ work'.until[e] <= ledger + MaxTtl
            /\ \E i \in Installations :
                /\ e \in Dependencies(i)
                /\ is_installed(work', i)
                /\ 0 \notin remaining_calls(work', i)

RentOnlyForUse == [][RentStep]_vars

(***************************************************************************)
(* An installation that is used is not archived soon after: for half the   *)
(* lifetime it could buy at its last install or permitted call, counted    *)
(* from that ledger, every entry it depends on is live.                    *)
(***************************************************************************)
UseKeepsAlive ==
    \A i \in Installations : \A l \in work.used[i] :
        ledger <= l + TargetAt(l) \div 2 => \A e \in Dependencies(i) : Live(e)

(***************************************************************************)
(* The smart account and the compiled contract together permit exactly the *)
(* calls the reference evaluator permits on the same rule, signers, ledger *)
(* and stored count, in every state of an installation.                    *)
(***************************************************************************)
PermitsAgree ==
    \A i \in Installations, r \in Requests :
        is_installed(work, i) /\ r.kind = "contract" =>
            (AccountAdmits(r) /\ Verdict(i, r) = "Permit")
            <=> evaluate_generated_rule(rule, work.count[i], ledger, r, AccountOf(i))
                  = "Permit"

(***************************************************************************)
(* For a call on the rule's own contract that the account passes on, an    *)
(* installed policy refuses with the very reason the evaluator gives.      *)
(***************************************************************************)
ReasonsAgreeInScope ==
    \A i \in Installations, r \in Requests :
        /\ is_installed(work, i)
        /\ r.kind = "contract"
        /\ r.contract = rule.contract
        /\ AccountAdmits(r)
        => Verdict(i, r) =
             expected_code(evaluate_generated_rule(rule, work.count[i], ledger, r,
                                                   AccountOf(i)))

=============================================================================
