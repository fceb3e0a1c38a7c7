--------------------------- MODULE RpcReadsProofs ---------------------------
(***************************************************************************)
(* For every endpoint, request and number of defective replies: a capture  *)
(* is the state of one ledger, a recording says what ran at the ledgers it *)
(* is dated by, and an assembled transaction can still be included.        *)
(***************************************************************************)
EXTENDS RpcReads, FiniteSetTheorems, WellFoundedInduction, TLAPS

-----------------------------------------------------------------------------
(* Checks and lists *)

(* A nonempty set of naturals has a least element. *)
LEMMA Least ==
    ASSUME NEW T, T \subseteq Nat, T # {}
    PROVE  Min(T) \in T /\ \A y \in T : Min(T) <= y
<1>1. PICK x \in T : \A y \in T : ~(<<y, x>> \in OpToRel(<, Nat))
    BY WFMin, NatLessThanWellFounded
<1>2. \A y \in T : ~(y < x)
    BY <1>1 DEF OpToRel
<1>3. \A y \in T : x =< y
    BY <1>2
<1> QED BY <1>3 DEF Min

(* What holds of 0 and is passed on from each number holds up to L. *)
LEMMA UpTo ==
    ASSUME NEW L \in Nat, NEW G, 0 \in G, \A n \in 1 .. L : n - 1 \in G => n \in G
    PROVE  \A n \in 0 .. L : n \in G
<1> DEFINE bad == {n \in 0 .. L : n \notin G}
           m == Min(bad)
<1> SUFFICES ASSUME bad # {} PROVE FALSE
    OBVIOUS
<1>1. m \in bad /\ \A n \in bad : m <= n
    <2>1. bad \subseteq Nat
        OBVIOUS
    <2> HIDE DEF bad
    <2> QED BY <2>1, Least
<1> HIDE DEF m
<1>2. m \in 1 .. L /\ m - 1 \in 0 .. L
    BY <1>1
<1>3. m - 1 \in G
    BY <1>1, <1>2
<1> QED BY <1>1, <1>2, <1>3

(* A list of checks that finds no error has no check that refuses. *)
LEMMA NoneRefuses ==
    ASSUME NEW checks, DOMAIN checks \subseteq Nat,
           \A i \in DOMAIN checks : checks[i][1] => Failed(checks[i][2]),
           ~Failed(FirstOf(checks))
    PROVE  \A i \in DOMAIN checks : ~checks[i][1]
<1> DEFINE refused == {i \in DOMAIN checks : checks[i][1]}
<1> SUFFICES ASSUME refused # {} PROVE FALSE
    OBVIOUS
<1>1. FirstOf(checks) = checks[Min(refused)][2]
    BY DEF FirstOf
<1>2. Min(refused) \in refused
    BY Least
<1> QED BY <1>1, <1>2

LEMMA First2 ==
    ASSUME NEW a, NEW b, NEW x, NEW y, a => Failed(x), b => Failed(y),
           ~Failed(FirstOf(<< <<a, x>>, <<b, y>> >>))
    PROVE  ~a /\ ~b
<1> DEFINE checks == << <<a, x>>, <<b, y>> >>
<1>1. DOMAIN checks = {1, 2} /\ checks[1] = <<a, x>> /\ checks[2] = <<b, y>>
    OBVIOUS
<1>2. \A i \in DOMAIN checks : checks[i][1] => Failed(checks[i][2])
    BY <1>1
<1>3. DOMAIN checks \subseteq Nat /\ ~Failed(FirstOf(checks))
    BY <1>1
<1> HIDE DEF checks
<1>4. \A i \in DOMAIN checks : ~checks[i][1]
    BY <1>2, <1>3, NoneRefuses
<1> QED BY <1>1, <1>4

LEMMA First3 ==
    ASSUME NEW a, NEW b, NEW c, NEW x, NEW y, NEW z,
           a => Failed(x), b => Failed(y), c => Failed(z),
           ~Failed(FirstOf(<< <<a, x>>, <<b, y>>, <<c, z>> >>))
    PROVE  ~a /\ ~b /\ ~c
<1> DEFINE checks == << <<a, x>>, <<b, y>>, <<c, z>> >>
<1>1. /\ DOMAIN checks = {1, 2, 3}
      /\ checks[1] = <<a, x>> /\ checks[2] = <<b, y>> /\ checks[3] = <<c, z>>
    OBVIOUS
<1>2. \A i \in DOMAIN checks : checks[i][1] => Failed(checks[i][2])
    BY <1>1
<1>3. DOMAIN checks \subseteq Nat /\ ~Failed(FirstOf(checks))
    BY <1>1
<1> HIDE DEF checks
<1>4. \A i \in DOMAIN checks : ~checks[i][1]
    BY <1>2, <1>3, NoneRefuses
<1> QED BY <1>1, <1>4

LEMMA First4 ==
    ASSUME NEW a, NEW b, NEW c, NEW d, NEW x, NEW y, NEW z, NEW t,
           a => Failed(x), b => Failed(y), c => Failed(z), d => Failed(t),
           ~Failed(FirstOf(<< <<a, x>>, <<b, y>>, <<c, z>>, <<d, t>> >>))
    PROVE  ~a /\ ~b /\ ~c /\ ~d
<1> DEFINE checks == << <<a, x>>, <<b, y>>, <<c, z>>, <<d, t>> >>
<1>1. /\ DOMAIN checks = {1, 2, 3, 4} /\ checks[1] = <<a, x>> /\ checks[2] = <<b, y>>
      /\ checks[3] = <<c, z>> /\ checks[4] = <<d, t>>
    OBVIOUS
<1>2. \A i \in DOMAIN checks : checks[i][1] => Failed(checks[i][2])
    BY <1>1
<1>3. DOMAIN checks \subseteq Nat /\ ~Failed(FirstOf(checks))
    BY <1>1
<1> HIDE DEF checks
<1>4. \A i \in DOMAIN checks : ~checks[i][1]
    BY <1>2, <1>3, NoneRefuses
<1> QED BY <1>1, <1>4

LEMMA First6 ==
    ASSUME NEW a, NEW b, NEW c, NEW d, NEW e, NEW f,
           NEW x, NEW y, NEW z, NEW t, NEW u, NEW v,
           a => Failed(x), b => Failed(y), c => Failed(z), d => Failed(t), e => Failed(u),
           f => Failed(v),
           ~Failed(FirstOf(<< <<a, x>>, <<b, y>>, <<c, z>>, <<d, t>>, <<e, u>>, <<f, v>> >>))
    PROVE  ~a /\ ~b /\ ~c /\ ~d /\ ~e /\ ~f
<1> DEFINE checks == << <<a, x>>, <<b, y>>, <<c, z>>, <<d, t>>, <<e, u>>, <<f, v>> >>
<1>1. /\ DOMAIN checks = {1, 2, 3, 4, 5, 6} /\ checks[1] = <<a, x>> /\ checks[2] = <<b, y>>
      /\ checks[3] = <<c, z>> /\ checks[4] = <<d, t>> /\ checks[5] = <<e, u>>
      /\ checks[6] = <<f, v>>
    OBVIOUS
<1>2. \A i \in DOMAIN checks : checks[i][1] => Failed(checks[i][2])
    BY <1>1
<1>3. DOMAIN checks \subseteq Nat /\ ~Failed(FirstOf(checks))
    BY <1>1
<1> HIDE DEF checks
<1>4. \A i \in DOMAIN checks : ~checks[i][1]
    BY <1>2, <1>3, NoneRefuses
<1> QED BY <1>1, <1>4

(* No row of a list is refused when the list is not. *)
LEMMA NoRowRefused ==
    ASSUME NEW errors, DOMAIN errors \subseteq Nat, ~Failed(FirstRow(errors))
    PROVE  \A i \in DOMAIN errors : ~Failed(errors[i])
<1> DEFINE refused == {i \in DOMAIN errors : Failed(errors[i])}
<1> SUFFICES ASSUME refused # {} PROVE FALSE
    OBVIOUS
<1>1. FirstRow(errors) = errors[Min(refused)]
    BY DEF FirstRow
<1>2. Min(refused) \in refused
    BY Least
<1> QED BY <1>1, <1>2

(* The errors of the readers are errors. *)
LEMMA ErrorsFail ==
    /\ Failed(Malformed) /\ Failed(TargetArchived) /\ Failed(NotLive) /\ ~Failed(NoError)
    /\ \A text : /\ Failed(Err("Evidence", text)) /\ Failed(Err("CodeRead", text))
                 /\ Failed(Err("ArchivedDeclaredKey", text)) /\ Failed(Err("MissingDeclaredKey", text))
                 /\ Failed(Err("CodeHashMismatch", text)) /\ Failed(Err("MissingCodeKey", text))
                 /\ Failed(Err("ExternalExecutable", text)) /\ Failed(Err("ArchivedLedgerEntry", text))
                 /\ Failed(Err("MissingLedgerEntry", text)) /\ Failed(Err("InvalidRequest", text))
                 /\ Failed(Err("NotFound", text)) /\ Failed(Err("Rpc", text))
                 /\ Failed(Err("TargetRefused", text)) /\ Failed(Err("ExternalRefExecutable", text))
BY DEF Failed, Err, Malformed, TargetArchived, NotLive, NoError

LEMMA ToSetAppend ==
    ASSUME NEW S, NEW q \in Seq(S), NEW x \in S
    PROVE  ToSet(Append(q, x)) = ToSet(q) \cup {x} /\ Append(q, x) \in Seq(S)
<1> DEFINE n == Len(q)
           r == Append(q, x)
<1>1. /\ n \in Nat /\ DOMAIN q = 1 .. n /\ r \in Seq(S) /\ DOMAIN r = 1 .. n + 1
      /\ \A i \in 1 .. n : r[i] = q[i] /\ r[n + 1] = x
    OBVIOUS
<1>2. n + 1 \in DOMAIN r /\ r[n + 1] = x
    BY <1>1
<1> HIDE DEF n, r
<1>3. ToSet(r) = ToSet(q) \cup {x}
    BY <1>1, <1>2 DEF ToSet
<1> QED BY <1>1, <1>3 DEF r

LEMMA ToSetConcat ==
    ASSUME NEW S, NEW p \in Seq(S), NEW q \in Seq(S)
    PROVE  ToSet(p \o q) = ToSet(p) \cup ToSet(q) /\ p \o q \in Seq(S)
<1> DEFINE n == Len(p)
           m == Len(q)
           r == p \o q
<1>1. /\ n \in Nat /\ m \in Nat /\ DOMAIN p = 1 .. n /\ DOMAIN q = 1 .. m
      /\ r \in Seq(S) /\ DOMAIN r = 1 .. n + m
      /\ \A i \in 1 .. n : r[i] = p[i]
    OBVIOUS
<1>2. \A i \in 1 .. m : r[n + i] = q[i] /\ n + i \in DOMAIN r
    OBVIOUS
<1>3. \A i \in DOMAIN r : r[i] = IF i <= n THEN p[i] ELSE q[i - n]
    OBVIOUS
<1> HIDE DEF n, m, r
<1>4. ToSet(p) \subseteq ToSet(r)
    BY <1>1 DEF ToSet
<1>5. ToSet(q) \subseteq ToSet(r)
    BY <1>1, <1>2 DEF ToSet
<1>6. ASSUME NEW i \in DOMAIN r PROVE r[i] \in ToSet(p) \cup ToSet(q)
    <2>1. CASE i <= n
        BY <1>1, <1>3, <2>1 DEF ToSet
    <2>2. CASE ~(i <= n)
        <3>1. i - n \in 1 .. m /\ r[i] = q[i - n]
            BY <1>1, <1>3, <2>2
        <3> QED BY <1>1, <3>1 DEF ToSet
    <2> QED BY <2>1, <2>2
<1>7. ToSet(r) \subseteq ToSet(p) \cup ToSet(q)
    BY <1>6 DEF ToSet
<1> QED BY <1>1, <1>4, <1>5, <1>7 DEF r

(* The lists the loop of Chosen goes through. *)
Takes(g, L, S, s, C) ==
    /\ g \in [0 .. L -> Seq(S)]
    /\ g[0] = <<>>
    /\ \A n \in 1 .. L : g[n] = IF s[n] \in C THEN Append(g[n - 1], s[n]) ELSE g[n - 1]

LEMMA TakesExist ==
    ASSUME NEW L \in Nat, NEW S, NEW s \in [1 .. L -> S], NEW C
    PROVE  \E g : Takes(g, L, S, s, C)
<1> DEFINE G == {m \in 0 .. L : \E g : Takes(g, m, S, s, C)}
<1>1. 0 \in G
    <2> DEFINE g == [n \in 0 .. 0 |-> <<>>]
    <2>1. g \in [0 .. 0 -> Seq(S)]
        OBVIOUS
    <2>2. Takes(g, 0, S, s, C)
        BY <2>1 DEF Takes
    <2> QED BY <2>2
<1>2. ASSUME NEW m \in 1 .. L, m - 1 \in G PROVE m \in G
    <2>1. PICK g : Takes(g, m - 1, S, s, C)
        BY <1>2
    <2> DEFINE last == IF s[m] \in C THEN Append(g[m - 1], s[m]) ELSE g[m - 1]
               h == [n \in 0 .. m |-> IF n = m THEN last ELSE g[n]]
    <2>2. /\ g \in [0 .. m - 1 -> Seq(S)] /\ g[0] = <<>>
          /\ \A n \in 1 .. m - 1 : g[n] = IF s[n] \in C THEN Append(g[n - 1], s[n]) ELSE g[n - 1]
        BY <2>1 DEF Takes
    <2>3. last \in Seq(S)
        <3> DEFINE q == g[m - 1]
                   x == s[m]
        <3>1. q \in Seq(S) /\ x \in S
            BY <2>2
        <3> HIDE DEF q, x
        <3>2. Append(q, x) \in Seq(S)
            BY <3>1
        <3> QED BY <3>1, <3>2 DEF q, x
    <2>4. h \in [0 .. m -> Seq(S)]
        <3> HIDE DEF last
        <3> QED BY <2>2, <2>3
    <2>5. h[0] = <<>>
        BY <2>2
    <2>6. h[m] = last /\ h[m - 1] = g[m - 1]
        OBVIOUS
    <2>7. ASSUME NEW n \in 1 .. m
          PROVE  h[n] = IF s[n] \in C THEN Append(h[n - 1], s[n]) ELSE h[n - 1]
        <3>1. CASE n = m
            BY <2>6, <3>1
        <3>2. CASE n # m
            <4>1. h[n] = g[n] /\ h[n - 1] = g[n - 1] /\ n \in 1 .. m - 1
                BY <3>2
            <4> HIDE DEF h
            <4> QED BY <2>2, <4>1
        <3> QED BY <3>1, <3>2
    <2>8. Takes(h, m, S, s, C)
        <3> HIDE DEF h
        <3> QED BY <2>4, <2>5, <2>7 DEF Takes
    <2> QED BY <2>8
<1> HIDE DEF G
<1>3. \A m \in 0 .. L : m \in G
    BY <1>1, <1>2, UpTo
<1>4. L \in G
    BY <1>3
<1> QED BY <1>4 DEF G

(* The chosen elements of a list are its elements in the set. *)
LEMMA ChosenAre ==
    ASSUME NEW S, NEW s \in Seq(S), NEW C
    PROVE  Chosen(s, C) \in Seq(S) /\ ToSet(Chosen(s, C)) = ToSet(s) \cap C
<1> DEFINE L == Len(s)
           take == CHOOSE g : g = [n \in 0 .. Len(s) |->
                        IF n = 0 THEN <<>>
                        ELSE IF s[n] \in C THEN Append(g[n - 1], s[n]) ELSE g[n - 1]]
<1>1. Chosen(s, C) = take[L]
    BY DEF Chosen
<1>2. L \in Nat /\ s \in [1 .. L -> S] /\ DOMAIN s = 1 .. L
    OBVIOUS
<1>4. PICK g : Takes(g, L, S, s, C)
    BY <1>2, TakesExist
<1>5. g = [n \in 0 .. L |-> IF n = 0 THEN <<>>
                            ELSE IF s[n] \in C THEN Append(g[n - 1], s[n]) ELSE g[n - 1]]
    <2> HIDE DEF L
    <2>1. g \in [0 .. L -> Seq(S)] /\ g[0] = <<>>
        BY <1>4 DEF Takes
    <2>2. \A n \in 1 .. L : g[n] = IF s[n] \in C THEN Append(g[n - 1], s[n]) ELSE g[n - 1]
        BY <1>4 DEF Takes
    <2>3. ASSUME NEW n \in 0 .. L
          PROVE  g[n] = IF n = 0 THEN <<>>
                        ELSE IF s[n] \in C THEN Append(g[n - 1], s[n]) ELSE g[n - 1]
        <3>1. CASE n = 0
            BY <2>1, <3>1
        <3>2. CASE n # 0
            <4>1. n \in 1 .. L
                BY <1>2, <3>2
            <4> QED BY <2>2, <3>2, <4>1
        <3> QED BY <3>1, <3>2
    <2> QED BY <2>1, <2>3
<1>6. take = [n \in 0 .. L |-> IF n = 0 THEN <<>>
                               ELSE IF s[n] \in C THEN Append(take[n - 1], s[n]) ELSE take[n - 1]]
    BY <1>5
<1> HIDE DEF take, L
<1> DEFINE step(n) == IF s[n] \in C THEN Append(take[n - 1], s[n]) ELSE take[n - 1]
           entry(n) == IF n = 0 THEN <<>> ELSE step(n)
<1>7. \A n \in 0 .. L : take[n] = entry(n)
    <2>1. take = [n \in 0 .. L |-> entry(n)]
        BY <1>6
    <2> HIDE DEF entry
    <2> QED BY <2>1
<1>8. \A n \in 1 .. L : take[n] = step(n)
    <2> HIDE DEF step
    <2> QED BY <1>2, <1>7
<1> DEFINE front(n) == {s[i] : i \in 1 .. n}
           G == {n \in 0 .. L : take[n] \in Seq(S) /\ ToSet(take[n]) = front(n) \cap C}
<1>9. 0 \in G
    <2>1. 0 \in 0 .. L /\ entry(0) = <<>>
        BY <1>2
    <2>2. <<>> \in Seq(S) /\ ToSet(<<>>) = {}
        BY DEF ToSet
    <2>3. front(0) = {}
        OBVIOUS
    <2> HIDE DEF entry, front
    <2> QED BY <1>7, <2>1, <2>2, <2>3
<1>10. ASSUME NEW n \in 1 .. L, n - 1 \in G PROVE n \in G
    <2> DEFINE q == take[n - 1]
               x == s[n]
    <2>1. q \in Seq(S) /\ x \in S /\ take[n] = IF x \in C THEN Append(q, x) ELSE q
        BY <1>2, <1>10, <1>8
    <2>2. ToSet(q) = front(n - 1) \cap C
        BY <1>10
    <2>3. front(n) = front(n - 1) \cup {x}
        BY <1>2
    <2> HIDE DEF q, x, front
    <2>4. Append(q, x) \in Seq(S) /\ ToSet(Append(q, x)) = ToSet(q) \cup {x}
        BY <2>1, ToSetAppend
    <2>5. take[n] \in Seq(S)
        BY <2>1, <2>4
    <2>6. ToSet(take[n]) = front(n) \cap C
        <3>1. CASE x \in C
            BY <2>1, <2>2, <2>3, <2>4, <3>1
        <3>2. CASE x \notin C
            BY <2>1, <2>2, <2>3, <3>2
        <3> QED BY <3>1, <3>2
    <2> QED BY <2>5, <2>6, <1>2
<1> HIDE DEF G
<1>11. \A n \in 0 .. L : n \in G
    BY <1>2, <1>9, <1>10, UpTo
<1>12. L \in G
    BY <1>2, <1>11
<1>13. front(L) = ToSet(s)
    BY <1>2 DEF ToSet
<1> QED BY <1>1, <1>12, <1>13 DEF G

-----------------------------------------------------------------------------
(* What a reply may say *)

(* A row says what some asked entry holds at the ledger, but for the one     *)
(* field a defect has changed.                                               *)
Honest(row, w, l, K) ==
    /\ row = [key |-> row.key, of |-> row.of, val |-> row.val, mod |-> row.mod, ttl |-> row.ttl,
              sound |-> row.sound]
    /\ \E k \in K : /\ Present(w, l, k)
                    /\ row.key \in {k, "unasked"} /\ row.of \in {k, "unasked"}
                    /\ row.val = EntryAt(w, l, k).val
                    /\ row.mod \in {EntryAt(w, l, k).mod, l + 1}
                    /\ row.ttl \in {EntryAt(w, l, k).ttl, NoTtl}

LEMMA RowsAre ==
    ASSUME NEW w, NEW l, NEW keys, NEW U, keys \in Seq(U)
    PROVE  \E S : /\ Rows(w, l, keys) \in Seq(S) /\ \A x \in S : Honest(x, w, l, ToSet(keys))
                  /\ ToSet(Rows(w, l, keys)) = {Row(w, l, k) : k \in {j \in ToSet(keys) : Present(w, l, j)}}
<1> DEFINE K == ToSet(keys)
           P == {k \in K : Present(w, l, k)}
           there == Chosen(keys, P)
           S == {Row(w, l, k) : k \in P}
           rows == [i \in DOMAIN there |-> Row(w, l, there[i])]
<1>1. there \in Seq(U) /\ ToSet(there) = K \cap P
    <2> HIDE DEF P
    <2> QED BY ChosenAre
<1>2. Rows(w, l, keys) = rows
    BY DEF Rows
<1>3. ToSet(there) = P
    BY <1>1
<1> HIDE DEF there, P
<1>4. PICK n \in Nat : DOMAIN there = 1 .. n
    BY <1>1
<1>5. \A i \in 1 .. n : there[i] \in P
    BY <1>3, <1>4 DEF ToSet
<1>6. rows \in Seq(S)
    BY <1>4, <1>5
<1>7. ToSet(rows) = S
    <2>1. DOMAIN rows = 1 .. n /\ \A i \in 1 .. n : rows[i] = Row(w, l, there[i])
        BY <1>4
    <2>2. ToSet(rows) \subseteq S
        BY <2>1, <1>5 DEF ToSet
    <2>3. ASSUME NEW k \in P PROVE Row(w, l, k) \in ToSet(rows)
        <3>1. PICK i \in 1 .. n : there[i] = k
            BY <1>3, <1>4 DEF ToSet
        <3> QED BY <2>1, <3>1 DEF ToSet
    <2> QED BY <2>2, <2>3
<1>8. ASSUME NEW k \in P PROVE Honest(Row(w, l, k), w, l, K)
    BY DEF P, Row, Honest
<1> QED BY <1>2, <1>6, <1>7, <1>8 DEF P

(* The rows that differ from an honest one in what a defect changes are honest. *)
LEMMA StillHonest ==
    ASSUME NEW w, NEW l, NEW K, NEW row, Honest(row, w, l, K)
    PROVE  /\ Honest([row EXCEPT !.key = "unasked", !.of = "unasked"], w, l, K)
           /\ Honest([row EXCEPT !.of = "unasked"], w, l, K)
           /\ Honest([row EXCEPT !.mod = l + 1], w, l, K)
           /\ Honest([row EXCEPT !.ttl = NoTtl], w, l, K)
           /\ Honest([row EXCEPT !.sound = FALSE], w, l, K)
<1> DEFINE a == row.key
           b == row.of
           v == row.val
           m == row.mod
           t == row.ttl
           s == row.sound
<1>1. row = [key |-> a, of |-> b, val |-> v, mod |-> m, ttl |-> t, sound |-> s]
    BY DEF Honest
<1>2. PICK k \in K : /\ Present(w, l, k) /\ a \in {k, "unasked"} /\ b \in {k, "unasked"}
                     /\ v = EntryAt(w, l, k).val /\ m \in {EntryAt(w, l, k).mod, l + 1}
                     /\ t \in {EntryAt(w, l, k).ttl, NoTtl}
    BY DEF Honest
<1> HIDE DEF a, b, v, m, t, s
<1>3. Honest([row EXCEPT !.key = "unasked", !.of = "unasked"], w, l, K)
    <2>1. [row EXCEPT !.key = "unasked", !.of = "unasked"]
            = [key |-> "unasked", of |-> "unasked", val |-> v, mod |-> m, ttl |-> t, sound |-> s]
        <3> DEFINE x == [row EXCEPT !.key = "unasked"]
        <3>1. x = [key |-> "unasked", of |-> b, val |-> v, mod |-> m, ttl |-> t, sound |-> s]
            BY <1>1
        <3>2. [row EXCEPT !.key = "unasked", !.of = "unasked"] = [x EXCEPT !.of = "unasked"]
            OBVIOUS
        <3> HIDE DEF x
        <3> QED BY <3>1, <3>2
    <2> QED BY <1>2, <2>1 DEF Honest
<1>4. Honest([row EXCEPT !.of = "unasked"], w, l, K)
    BY <1>1, <1>2 DEF Honest
<1>5. Honest([row EXCEPT !.mod = l + 1], w, l, K)
    BY <1>1, <1>2 DEF Honest
<1>6. Honest([row EXCEPT !.ttl = NoTtl], w, l, K)
    BY <1>1, <1>2 DEF Honest
<1>7. Honest([row EXCEPT !.sound = FALSE], w, l, K)
    <2> DEFINE no == FALSE
    <2> HIDE DEF no
    <2>1. [row EXCEPT !.sound = no]
            = [key |-> a, of |-> b, val |-> v, mod |-> m, ttl |-> t, sound |-> no]
        BY <1>1
    <2>2. Honest([row EXCEPT !.sound = no], w, l, K)
        BY <1>2, <2>1 DEF Honest
    <2> QED BY <2>2 DEF no
<1> QED BY <1>3, <1>4, <1>5, <1>6, <1>7

LEMMA ExceptFirst ==
    ASSUME NEW S, NEW q \in Seq(S), NEW x, 1 \in DOMAIN q
    PROVE  [q EXCEPT ![1] = x] \in Seq(S \cup {x})
<1>1. PICK n \in Nat : DOMAIN q = 1 .. n /\ \A i \in 1 .. n : q[i] \in S
    OBVIOUS
<1>2. /\ DOMAIN [q EXCEPT ![1] = x] = 1 .. n
      /\ \A i \in 1 .. n : [q EXCEPT ![1] = x][i] \in S \cup {x}
    BY <1>1
<1>3. [q EXCEPT ![1] = x] \in [1 .. n -> S \cup {x}]
    BY <1>1
<1> QED BY <1>3

(* A list whose rows are all honest. *)
Listed(rows, w, l, K) == \E S : rows \in Seq(S) /\ \A x \in S : Honest(x, w, l, K)

LEMMA DefectiveListed ==
    ASSUME NEW w, NEW l, NEW K, NEW rows, NEW d, Listed(rows, w, l, K)
    PROVE  Listed(Defective(rows, d, l), w, l, K)
<1>1. PICK S : rows \in Seq(S) /\ \A x \in S : Honest(x, w, l, K)
    BY DEF Listed
<1>2. CASE rows = <<>> \/ d \notin RowDefects
    BY <1>2 DEF Defective
<1>3. CASE rows # <<>> /\ d \in RowDefects
    <2>1. /\ rows[1] \in S /\ Honest(rows[1], w, l, K) /\ 1 \in DOMAIN rows
        BY <1>1, <1>3
    <2> DEFINE u == [rows[1] EXCEPT !.key = "unasked", !.of = "unasked"]
               o == [rows[1] EXCEPT !.of = "unasked"]
               f == [rows[1] EXCEPT !.mod = l + 1]
               t == [rows[1] EXCEPT !.ttl = NoTtl]
               n(i) == [rows[i] EXCEPT !.sound = FALSE]
    <2>2. Honest(u, w, l, K) /\ Honest(o, w, l, K) /\ Honest(f, w, l, K) /\ Honest(t, w, l, K)
        BY <2>1, StillHonest
    <2>3. CASE d = "omit"
        <3>1. Defective(rows, d, l) = Tail(rows)
            BY <1>3, <2>3 DEF Defective
        <3>2. Tail(rows) \in Seq(S)
            BY <1>1, <1>3
        <3> QED BY <1>1, <3>1, <3>2 DEF Listed
    <2>4. CASE d = "twice"
        <3>1. Defective(rows, d, l) = Append(rows, rows[1])
            BY <1>3, <2>4 DEF Defective
        <3>2. Append(rows, rows[1]) \in Seq(S)
            BY <1>1, <2>1
        <3> QED BY <1>1, <3>1, <3>2 DEF Listed
    <2>5. CASE d = "unasked"
        <3>1. Defective(rows, d, l) = Append(rows, u)
            BY <1>3, <2>5 DEF Defective
        <3> HIDE DEF u
        <3>2. rows \in Seq(S \cup {u})
            BY <1>1
        <3>3. Append(rows, u) \in Seq(S \cup {u})
            BY <3>2
        <3> QED BY <1>1, <2>2, <3>1, <3>3 DEF Listed
    <2>6. CASE d = "other"
        <3>1. Defective(rows, d, l) = [rows EXCEPT ![1] = o]
            BY <1>3, <2>6 DEF Defective
        <3> HIDE DEF o
        <3>2. [rows EXCEPT ![1] = o] \in Seq(S \cup {o})
            BY <1>1, <2>1, ExceptFirst
        <3> QED BY <1>1, <2>2, <3>1, <3>2 DEF Listed
    <2>7. CASE d = "future"
        <3>1. Defective(rows, d, l) = [rows EXCEPT ![1] = f]
            BY <1>3, <2>7 DEF Defective
        <3> HIDE DEF f
        <3>2. [rows EXCEPT ![1] = f] \in Seq(S \cup {f})
            BY <1>1, <2>1, ExceptFirst
        <3> QED BY <1>1, <2>2, <3>1, <3>2 DEF Listed
    <2>8. CASE d = "untimed"
        <3>1. Defective(rows, d, l) = [rows EXCEPT ![1] = t]
            BY <1>3, <2>8 DEF Defective
        <3> HIDE DEF t
        <3>2. [rows EXCEPT ![1] = t] \in Seq(S \cup {t})
            BY <1>1, <2>1, ExceptFirst
        <3> QED BY <1>1, <2>2, <3>1, <3>2 DEF Listed
    <2>9. CASE d = "unsound"
        <3> DEFINE T == {[x EXCEPT !.sound = FALSE] : x \in S}
        <3>1. Defective(rows, d, l) = [i \in DOMAIN rows |-> n(i)]
            BY <1>3, <2>9 DEF Defective
        <3>2. ASSUME NEW i \in DOMAIN rows PROVE n(i) \in T
            <4>1. rows[i] \in S
                BY <1>1
            <4> QED BY <4>1
        <3>3. ASSUME NEW x \in T PROVE Honest(x, w, l, K)
            <4>1. PICK y \in S : x = [y EXCEPT !.sound = FALSE]
                OBVIOUS
            <4>2. Honest([y EXCEPT !.sound = FALSE], w, l, K)
                BY <1>1, StillHonest
            <4> QED BY <4>1, <4>2
        <3> HIDE DEF n, T
        <3>4. [i \in DOMAIN rows |-> n(i)] \in Seq(T)
            BY <1>1, <3>2
        <3> QED BY <3>1, <3>3, <3>4 DEF Listed
    <2> QED BY <1>3, <2>3, <2>4, <2>5, <2>6, <2>7, <2>8, <2>9 DEF RowDefects
<1> QED BY <1>2, <1>3

(* A reply to a request for entries, and what it leaves out when it has no defect. *)
LEMMA RepliesAre ==
    ASSUME NEW w, NEW l, NEW keys, NEW U, keys \in Seq(U), NEW d, NEW r,
           r = EntriesReply(w, l, keys, d)
    PROVE  /\ r.latest \in {0, l}
           /\ Len(r.rows) \in Nat /\ DOMAIN r.rows = 1 .. Len(r.rows)
           /\ \A i \in DOMAIN r.rows : Honest(r.rows[i], w, l, ToSet(keys))
           /\ d = "none" => {r.rows[i].key : i \in DOMAIN r.rows}
                              = {k \in ToSet(keys) : Present(w, l, k)}
<1> DEFINE rows == Rows(w, l, keys)
<1>1. r.latest \in {0, l} /\ r.rows = Defective(rows, d, l)
    BY DEF EntriesReply
<1>2. Listed(rows, w, l, ToSet(keys))
    BY RowsAre DEF Listed
<1>3. Listed(r.rows, w, l, ToSet(keys))
    BY <1>1, <1>2, DefectiveListed
<1>4. PICK S : r.rows \in Seq(S) /\ \A x \in S : Honest(x, w, l, ToSet(keys))
    BY <1>3 DEF Listed
<1>5. ASSUME d = "none"
      PROVE  {r.rows[i].key : i \in DOMAIN r.rows} = {k \in ToSet(keys) : Present(w, l, k)}
    <2> DEFINE P == {k \in ToSet(keys) : Present(w, l, k)}
    <2>1. r.rows = rows
        BY <1>1, <1>5 DEF Defective, RowDefects
    <2>2. ToSet(rows) = {Row(w, l, k) : k \in P}
        BY RowsAre
    <2>3. \A k : Row(w, l, k).key = k
        BY DEF Row
    <2>4. {r.rows[i].key : i \in DOMAIN r.rows} = {x.key : x \in ToSet(rows)}
        <3> HIDE DEF rows
        <3> QED BY <2>1 DEF ToSet
    <2> HIDE DEF P
    <2>5. {x.key : x \in ToSet(rows)} = P
        <3>1. \A k \in P : k \in {x.key : x \in ToSet(rows)}
            BY <2>2, <2>3
        <3>2. \A x \in ToSet(rows) : x.key \in P
            BY <2>2, <2>3
        <3> QED BY <3>1, <3>2
    <2> QED BY <2>4, <2>5 DEF P
<1>6. Len(r.rows) \in Nat /\ DOMAIN r.rows = 1 .. Len(r.rows)
    BY <1>4
<1>7. \A i \in DOMAIN r.rows : Honest(r.rows[i], w, l, ToSet(keys))
    BY <1>4
<1> QED BY <1>1, <1>5, <1>6, <1>7

(* The worlds and ledgers a reply is about. *)
IsWorld(w) == w.at \in Nat \ {0} /\ w.until \in Nat

(* A row that a reader accepts says what the ledger of its reply holds. *)
LEMMA AcceptedRow ==
    ASSUME NEW w, NEW l \in Ledgers, NEW K, NEW row, NEW latest \in {0, l},
           EndpointAssumption, IsWorld(w), Honest(row, w, l, K),
           row.key # "unasked", ~(row.mod > latest), HasTtl(row.key) => Timed(row)
    PROVE  /\ row.key \in K
           /\ latest = l /\ Present(w, l, row.key) /\ Kept(row) = EntryAt(w, l, row.key)
           /\ Dead(row, latest) <=> Archived(w, l, row.key)
<1>1. PICK k \in K : /\ Present(w, l, k) /\ row.key = k
                     /\ row.val = EntryAt(w, l, k).val /\ row.mod \in {EntryAt(w, l, k).mod, l + 1}
                     /\ row.ttl \in {EntryAt(w, l, k).ttl, NoTtl}
    BY DEF Honest
<1> DEFINE e == EntryAt(w, l, k)
<1>2. l \in Nat /\ l >= 1
    BY DEF EndpointAssumption
<1>3. e = [val |-> e.val, mod |-> e.mod, ttl |-> e.ttl] /\ e.mod \in Nat /\ e.mod >= 1
    BY DEF EntryAt, IsWorld
<1>4. ~HasTtl(k) => e.ttl = NoTtl
    BY DEF EntryAt
<1> HIDE DEF e
<1>5. latest = l /\ row.mod = e.mod
    BY <1>1, <1>2, <1>3 DEF e
<1>6. row.ttl = e.ttl
    BY <1>1, <1>4 DEF Timed, e
<1>7. Kept(row) = e
    BY <1>1, <1>3, <1>5, <1>6 DEF Kept, e
<1>8. Dead(row, latest) <=> Archived(w, l, k)
    BY <1>1, <1>4, <1>5, <1>6 DEF Dead, Archived, Timed, e
<1> QED BY <1>1, <1>5, <1>7, <1>8 DEF e

(* What a reader keeps of rows that say what a ledger holds. *)
LEMMA EntriesAre ==
    ASSUME NEW rows, NEW w, NEW l, NEW k,
           \A i \in DOMAIN rows : rows[i].key # "unasked" => Kept(rows[i]) = EntryAt(w, l, rows[i].key),
           k \in DOMAIN Entries(rows), k # "unasked"
    PROVE  Entries(rows)[k] = EntryAt(w, l, k)
<1> DEFINE c == CHOOSE i \in DOMAIN rows : rows[i].key = k
<1>1. k \in {rows[i].key : i \in DOMAIN rows}
    BY DEF Entries
<1>2. c \in DOMAIN rows /\ rows[c].key = k
    BY <1>1
<1>3. Entries(rows)[k] = Kept(rows[c])
    BY <1>1 DEF Entries
<1> HIDE DEF c
<1> QED BY <1>2, <1>3

-----------------------------------------------------------------------------
(* What the readers accept *)

LEMMA ExecutableRow ==
    ASSUME NEW r, NEW keys, NEW i, ~Failed(executable_row(r, keys, i))
    PROVE  /\ r.rows[i].key \in ToSet(keys) /\ ~Repeated(r.rows, i) /\ Timed(r.rows[i])
           /\ ~Dead(r.rows[i], r.latest) /\ ~(r.rows[i].mod > r.latest)
<1> DEFINE row == r.rows[i]
           a == row.key \notin ToSet(keys) \/ Repeated(r.rows, i) \/ ~Timed(row)
           b == Dead(row, r.latest)
           c == row.mod > r.latest \/ row.of # row.key
           d == Failed(instance_executable(row))
           t == instance_executable(row)
<1>1. ~Failed(FirstOf(<< <<a, Malformed>>, <<b, NotLive>>, <<c, Malformed>>, <<d, t>> >>))
    BY DEF executable_row
<1>2. d => Failed(t)
    OBVIOUS
<1>3. ~a /\ ~b /\ ~c /\ ~d
    <2> HIDE DEF a, b, c, d, t
    <2> QED BY <1>1, <1>2, ErrorsFail, First4
<1> QED BY <1>3

LEMMA DataRow ==
    ASSUME NEW r, NEW keys, NEW i, ~Failed(data_row(r, keys, i))
    PROVE  /\ r.rows[i].key \in ToSet(keys) /\ Timed(r.rows[i]) /\ ~(r.rows[i].mod > r.latest)
BY ErrorsFail DEF data_row

LEMMA ClassicRow ==
    ASSUME NEW r, NEW keys, NEW i, ~Failed(classic_row(r, keys, i))
    PROVE  r.rows[i].key \in ToSet(keys) /\ ~(r.rows[i].mod > r.latest)
BY ErrorsFail DEF classic_row

LEMMA FootprintRow ==
    ASSUME NEW r, NEW keys, NEW i, ~Failed(footprint_row(r, keys, i))
    PROVE  /\ r.rows[i].key \in ToSet(keys) /\ (HasTtl(r.rows[i].key) => Timed(r.rows[i]))
           /\ ~(r.rows[i].mod > r.latest) /\ ~Dead(r.rows[i], r.latest)
<1> DEFINE row == r.rows[i]
           a == row.key \notin ToSet(keys) \/ Repeated(r.rows, i) \/ row.of # row.key
                   \/ row.mod > r.latest \/ (HasTtl(row.key) /\ ~Timed(row))
           b == Dead(row, r.latest)
           y == Err("ArchivedDeclaredKey", "fixed")
<1>1. ~Failed(FirstOf(<< <<a, Malformed>>, <<b, y>> >>))
    BY DEF footprint_row
<1>2. Failed(y)
    BY ErrorsFail
<1>3. ~a /\ ~b
    <2> HIDE DEF a, b, y
    <2> QED BY <1>1, <1>2, ErrorsFail, First2
<1> QED BY <1>3

LEMMA TargetRow ==
    ASSUME NEW r, NEW keys, NEW i, ~Failed(target_row(r, keys, i))
    PROVE  /\ r.rows[i].key \in ToSet(keys) /\ Timed(r.rows[i]) /\ ~Repeated(r.rows, i)
           /\ ~(r.rows[i].mod > r.latest) /\ ~Dead(r.rows[i], r.latest)
<1> DEFINE row == r.rows[i]
           a == row.key \notin ToSet(keys) \/ Repeated(r.rows, i) \/ row.of # row.key
                   \/ ~Timed(row) \/ row.mod > r.latest
           b == Dead(row, r.latest)
           y == Err("ArchivedLedgerEntry", "fixed")
<1>1. ~Failed(FirstOf(<< <<a, Malformed>>, <<b, y>> >>))
    BY DEF target_row
<1>2. Failed(y)
    BY ErrorsFail
<1>3. ~a /\ ~b
    <2> HIDE DEF a, b, y
    <2> QED BY <1>1, <1>2, ErrorsFail, First2
<1> QED BY <1>3

(* The rows of a reply say what the ledger it is of holds, and that they are *)
(* alive there.                                                              *)
Faithful(r, w, l) ==
    \A i \in DOMAIN r.rows : r.rows[i].key # "unasked" =>
        /\ r.latest = l /\ Present(w, l, r.rows[i].key)
        /\ Kept(r.rows[i]) = EntryAt(w, l, r.rows[i].key)
        /\ Dead(r.rows[i], r.latest) <=> Archived(w, l, r.rows[i].key)

Living(r) == \A i \in DOMAIN r.rows : ~Dead(r.rows[i], r.latest)

LEMMA AcceptedReply ==
    ASSUME NEW w, NEW l \in Ledgers, NEW keys, NEW U, keys \in Seq(U), NEW d, NEW r,
           r = EntriesReply(w, l, keys, d), EndpointAssumption, IsWorld(w),
           \A i \in DOMAIN r.rows : /\ ~(r.rows[i].mod > r.latest)
                                    /\ HasTtl(r.rows[i].key) => Timed(r.rows[i])
    PROVE  Faithful(r, w, l)
<1>1. r.latest \in {0, l} /\ \A i \in DOMAIN r.rows : Honest(r.rows[i], w, l, ToSet(keys))
    BY RepliesAre
<1> QED BY <1>1, AcceptedRow DEF Faithful

LEMMA RowNumbers ==
    ASSUME NEW w, NEW l, NEW keys, NEW U, keys \in Seq(U), NEW d, NEW r,
           r = EntriesReply(w, l, keys, d)
    PROVE  DOMAIN r.rows \subseteq Nat
<1>1. Len(r.rows) \in Nat /\ DOMAIN r.rows = 1 .. Len(r.rows)
    BY RepliesAre
<1> QED BY <1>1

LEMMA ExecutablesAccepted ==
    ASSUME NEW w, NEW l \in Ledgers, NEW keys, NEW U, keys \in Seq(U), NEW d, NEW r,
           r = EntriesReply(w, l, keys, d), EndpointAssumption, IsWorld(w),
           ~Failed(parse_contract_executables(r, keys))
    PROVE  /\ Faithful(r, w, l) /\ Living(r) /\ Len(r.rows) = Len(keys)
           /\ \A i \in DOMAIN r.rows : r.rows[i].key \in ToSet(keys) /\ ~Repeated(r.rows, i)
<1> DEFINE errors == [i \in DOMAIN r.rows |-> executable_row(r, keys, i)]
           a == ~r.shape
           y == FirstRow(errors)
           b == Failed(y)
           c == Len(r.rows) # Len(keys)
           z == Err("Evidence", "fixed")
<1>1. ~Failed(FirstOf(<< <<a, Malformed>>, <<b, y>>, <<c, z>> >>))
    BY DEF parse_contract_executables
<1>2. Failed(z) /\ (b => Failed(y))
    BY ErrorsFail
<1>3. ~a /\ ~b /\ ~c
    <2> HIDE DEF a, b, c, y, z
    <2> QED BY <1>1, <1>2, ErrorsFail, First3
<1>4. DOMAIN r.rows \subseteq Nat
    BY RowNumbers
<1>5. \A i \in DOMAIN r.rows : ~Failed(executable_row(r, keys, i))
    <2>1. DOMAIN errors = DOMAIN r.rows
        OBVIOUS
    <2>2. \A i \in DOMAIN errors : ~Failed(errors[i])
        <3> HIDE DEF errors
        <3> QED BY <1>3, <1>4, <2>1, NoRowRefused
    <2> QED BY <2>1, <2>2
<1>6. \A i \in DOMAIN r.rows :
          /\ r.rows[i].key \in ToSet(keys) /\ ~Repeated(r.rows, i) /\ Timed(r.rows[i])
          /\ ~Dead(r.rows[i], r.latest) /\ ~(r.rows[i].mod > r.latest)
    BY <1>5, ExecutableRow
<1>7. Faithful(r, w, l)
    BY <1>6, AcceptedReply
<1> QED BY <1>3, <1>6, <1>7 DEF Living

LEMMA CodesAccepted ==
    ASSUME NEW r, NEW keys, ~Failed(parse_contract_wasm_hashes(r, keys))
    PROVE  ~Failed(parse_contract_executables(r, keys)) /\ r.latest # 0
<1> DEFINE e == parse_contract_executables(r, keys)
           y == code_read(e)
           a == r.latest = 0
           b == Failed(y)
           c == \E i \in DOMAIN r.rows : ~wasm_hash(r.rows[i])
           z == Err("CodeRead", "fixed")
<1>1. ~Failed(FirstOf(<< <<a, Malformed>>, <<b, y>>, <<c, z>> >>))
    BY DEF parse_contract_wasm_hashes
<1>2. Failed(z) /\ (b => Failed(y))
    BY ErrorsFail
<1>3. ~a /\ ~b /\ ~c
    <2> HIDE DEF a, b, c, y, z
    <2> QED BY <1>1, <1>2, ErrorsFail, First3
<1>4. Failed(e) => Failed(y)
    <2> DEFINE q == [e EXCEPT !.code = "CodeRead"]
    <2>1. CASE e.code = "Evidence"
        <3>1. y = q
            BY <2>1 DEF code_read
        <3> QED BY <3>1, <2>1, <1>3 DEF Failed
    <2>2. CASE e.code # "Evidence"
        BY <2>2 DEF code_read
    <2> QED BY <2>1, <2>2
<1> QED BY <1>3, <1>4

LEMMA DataAccepted ==
    ASSUME NEW w, NEW l \in Ledgers, NEW keys, NEW U, keys \in Seq(U), NEW d, NEW r,
           r = EntriesReply(w, l, keys, d), EndpointAssumption, IsWorld(w),
           ~Failed(parse_contract_data(r, keys))
    PROVE  /\ Faithful(r, w, l) /\ r.latest = l
           /\ \A i \in DOMAIN r.rows : r.rows[i].key \in ToSet(keys)
<1> DEFINE errors == [i \in DOMAIN r.rows |-> data_row(r, keys, i)]
           a == ~r.shape \/ r.latest = 0
           y == FirstRow(errors)
           b == Failed(y)
<1>1. ~Failed(FirstOf(<< <<a, Malformed>>, <<b, y>> >>))
    BY DEF parse_contract_data
<1>2. b => Failed(y)
    OBVIOUS
<1>3. ~a /\ ~b
    <2> HIDE DEF a, b, y
    <2> QED BY <1>1, <1>2, ErrorsFail, First2
<1>4. DOMAIN r.rows \subseteq Nat
    BY RowNumbers
<1>5. \A i \in DOMAIN r.rows : ~Failed(data_row(r, keys, i))
    <2>1. DOMAIN errors = DOMAIN r.rows
        OBVIOUS
    <2>2. \A i \in DOMAIN errors : ~Failed(errors[i])
        <3> HIDE DEF errors
        <3> QED BY <1>3, <1>4, <2>1, NoRowRefused
    <2> QED BY <2>1, <2>2
<1>6. \A i \in DOMAIN r.rows :
          r.rows[i].key \in ToSet(keys) /\ Timed(r.rows[i]) /\ ~(r.rows[i].mod > r.latest)
    BY <1>5, DataRow
<1>7. Faithful(r, w, l)
    BY <1>6, AcceptedReply
<1>8. r.latest \in {0, l}
    BY RepliesAre
<1> QED BY <1>3, <1>6, <1>7, <1>8

LEMMA ClassicAccepted ==
    ASSUME NEW w, NEW l \in Ledgers, NEW keys, NEW U, keys \in Seq(U), NEW d, NEW r,
           r = EntriesReply(w, l, keys, d), EndpointAssumption, IsWorld(w),
           \A k \in ToSet(keys) : ~HasTtl(k),
           ~Failed(parse_classic_accounts(r, keys))
    PROVE  /\ Faithful(r, w, l) /\ r.latest = l
           /\ \A i \in DOMAIN r.rows : r.rows[i].key \in ToSet(keys)
<1> DEFINE errors == [i \in DOMAIN r.rows |-> classic_row(r, keys, i)]
           a == ~r.shape \/ r.latest = 0
           y == FirstRow(errors)
           b == Failed(y)
<1>1. ~Failed(FirstOf(<< <<a, Malformed>>, <<b, y>> >>))
    BY DEF parse_classic_accounts
<1>2. b => Failed(y)
    OBVIOUS
<1>3. ~a /\ ~b
    <2> HIDE DEF a, b, y
    <2> QED BY <1>1, <1>2, ErrorsFail, First2
<1>4. DOMAIN r.rows \subseteq Nat
    BY RowNumbers
<1>5. \A i \in DOMAIN r.rows : ~Failed(classic_row(r, keys, i))
    <2>1. DOMAIN errors = DOMAIN r.rows
        OBVIOUS
    <2>2. \A i \in DOMAIN errors : ~Failed(errors[i])
        <3> HIDE DEF errors
        <3> QED BY <1>3, <1>4, <2>1, NoRowRefused
    <2> QED BY <2>1, <2>2
<1>6. \A i \in DOMAIN r.rows : r.rows[i].key \in ToSet(keys) /\ ~(r.rows[i].mod > r.latest)
    BY <1>5, ClassicRow
<1>7. Faithful(r, w, l)
    BY <1>6, AcceptedReply
<1>8. r.latest \in {0, l}
    BY RepliesAre
<1> QED BY <1>3, <1>6, <1>7, <1>8

LEMMA FootprintAccepted ==
    ASSUME NEW w, NEW l \in Ledgers, NEW keys, NEW U, keys \in Seq(U), NEW d, NEW r,
           r = EntriesReply(w, l, keys, d), EndpointAssumption, IsWorld(w),
           ~Failed(parse_footprint(r, keys))
    PROVE  /\ Faithful(r, w, l) /\ r.latest = l /\ Living(r)
           /\ {r.rows[i].key : i \in DOMAIN r.rows} = ToSet(keys)
<1> DEFINE errors == [i \in DOMAIN r.rows |-> footprint_row(r, keys, i)]
           returned == {r.rows[i].key : i \in DOMAIN r.rows}
           Lacks(row) == IsInstance(row.key) /\ IsCode(row.val) /\ row.val \notin returned
           a1 == ~r.shape \/ r.latest = 0
           y == FirstRow(errors)
           a2 == Failed(y)
           a3 == returned # ToSet(keys)
           a4 == \E i \in DOMAIN r.rows : IsCode(r.rows[i].key) /\ ~r.rows[i].sound
           a5 == \E i \in DOMAIN r.rows : Lacks(r.rows[i])
           a6 == \E i \in DOMAIN r.rows : IsInstance(r.rows[i].key) /\ r.rows[i].val = "external"
           x3 == Err("MissingDeclaredKey", "fixed")
           x4 == Err("CodeHashMismatch", "fixed")
           x5 == Err("MissingCodeKey", "fixed")
           x6 == Err("ExternalExecutable", "fixed")
<1>1. ~Failed(FirstOf(<< <<a1, Malformed>>, <<a2, y>>, <<a3, x3>>, <<a4, x4>>, <<a5, x5>>,
                         <<a6, x6>> >>))
    BY DEF parse_footprint
<1>2. (a2 => Failed(y)) /\ Failed(x3) /\ Failed(x4) /\ Failed(x5) /\ Failed(x6)
    BY ErrorsFail
<1>3. ~a1 /\ ~a2 /\ ~a3
    <2> HIDE DEF a1, a2, a3, a4, a5, a6, y, x3, x4, x5, x6
    <2> QED BY <1>1, <1>2, ErrorsFail, First6
<1>4. DOMAIN r.rows \subseteq Nat
    BY RowNumbers
<1>5. \A i \in DOMAIN r.rows : ~Failed(footprint_row(r, keys, i))
    <2>1. DOMAIN errors = DOMAIN r.rows
        OBVIOUS
    <2>2. \A i \in DOMAIN errors : ~Failed(errors[i])
        <3> HIDE DEF errors
        <3> QED BY <1>3, <1>4, <2>1, NoRowRefused
    <2> QED BY <2>1, <2>2
<1>6. \A i \in DOMAIN r.rows :
          /\ r.rows[i].key \in ToSet(keys) /\ (HasTtl(r.rows[i].key) => Timed(r.rows[i]))
          /\ ~(r.rows[i].mod > r.latest) /\ ~Dead(r.rows[i], r.latest)
    BY <1>5, FootprintRow
<1>7. Faithful(r, w, l)
    BY <1>6, AcceptedReply
<1>8. r.latest \in {0, l}
    BY RepliesAre
<1> QED BY <1>3, <1>6, <1>7, <1>8 DEF Living

LEMMA TargetAccepted ==
    ASSUME NEW w, NEW l \in Ledgers, NEW keys, NEW U, keys \in Seq(U), NEW d, NEW r,
           r = EntriesReply(w, l, keys, d), EndpointAssumption, IsWorld(w), NEW code, NEW seen,
           ~Failed(parse_target_capture(r, keys, code, seen))
    PROVE  /\ Faithful(r, w, l) /\ r.latest = l /\ Living(r)
           /\ \A i \in DOMAIN r.rows : r.rows[i].key \in ToSet(keys)
           /\ IsCode(code) /\ EntryAt(w, l, "t_instance").val = code
<1> DEFINE errors == [i \in DOMAIN r.rows |-> target_row(r, keys, i)]
           runs == {r.rows[i].val : i \in {j \in DOMAIN r.rows : r.rows[j].key = "t_instance"}}
           a1 == ~r.shape \/ r.latest = 0 \/ r.latest < seen
           y == FirstRow(errors)
           a2 == Failed(y)
           a3 == Len(r.rows) # Len(keys)
           a4 == \E c \in runs : ~IsCode(c)
           a5 == runs # {code}
           a6 == \E i \in DOMAIN r.rows : r.rows[i].key = code /\ ~r.rows[i].sound
           x3 == Err("MissingLedgerEntry", "fixed")
           x5 == Err("CodeHashMismatch", "fixed")
<1>1. ~Failed(FirstOf(<< <<a1, Malformed>>, <<a2, y>>, <<a3, x3>>, <<a4, Malformed>>, <<a5, x5>>,
                         <<a6, x5>> >>))
    BY DEF parse_target_capture
<1>2. (a2 => Failed(y)) /\ Failed(x3) /\ Failed(x5)
    BY ErrorsFail
<1>3. ~a1 /\ ~a2 /\ ~a4 /\ ~a5
    <2> HIDE DEF a1, a2, a3, a4, a5, a6, y, x3, x5
    <2> QED BY <1>1, <1>2, ErrorsFail, First6
<1>4. DOMAIN r.rows \subseteq Nat
    BY RowNumbers
<1>5. \A i \in DOMAIN r.rows : ~Failed(target_row(r, keys, i))
    <2>1. DOMAIN errors = DOMAIN r.rows
        OBVIOUS
    <2>2. \A i \in DOMAIN errors : ~Failed(errors[i])
        <3> HIDE DEF errors
        <3> QED BY <1>3, <1>4, <2>1, NoRowRefused
    <2> QED BY <2>1, <2>2
<1>6. \A i \in DOMAIN r.rows :
          /\ r.rows[i].key \in ToSet(keys) /\ Timed(r.rows[i])
          /\ ~(r.rows[i].mod > r.latest) /\ ~Dead(r.rows[i], r.latest)
    BY <1>5, TargetRow
<1>7. Faithful(r, w, l)
    BY <1>6, AcceptedReply
<1>8. r.latest = l
    <2>1. r.latest \in {0, l}
        BY RepliesAre
    <2> QED BY <1>3, <2>1
<1>9. IsCode(code)
    BY <1>3
<1>10. EntryAt(w, l, "t_instance").val = code
    <2>1. code \in runs
        BY <1>3
    <2>2. PICK i \in DOMAIN r.rows : r.rows[i].key = "t_instance" /\ r.rows[i].val = code
        BY <2>1
    <2>3. Kept(r.rows[i]) = EntryAt(w, l, "t_instance")
        BY <1>7, <2>2 DEF Faithful
    <2>4. Kept(r.rows[i]).val = r.rows[i].val
        BY DEF Kept
    <2> QED BY <2>2, <2>3, <2>4
<1> QED BY <1>6, <1>7, <1>8, <1>9, <1>10 DEF Living

(* What is kept of an accepted reply is what its ledger holds. *)
LEMMA KeptKeys ==
    ASSUME NEW rows
    PROVE  DOMAIN Entries(rows) = {rows[i].key : i \in DOMAIN rows}
BY DEF Entries

LEMMA KeptIsTrue ==
    ASSUME NEW w, NEW l, NEW r, Faithful(r, w, l), NEW k, k \in DOMAIN Entries(r.rows), k # "unasked"
    PROVE  /\ Present(w, l, k) /\ Entries(r.rows)[k] = EntryAt(w, l, k)
           /\ r.latest = l
           /\ Living(r) => ~Archived(w, l, k)
<1>1. \A i \in DOMAIN r.rows : r.rows[i].key # "unasked" => Kept(r.rows[i]) = EntryAt(w, l, r.rows[i].key)
    BY DEF Faithful
<1>2. Entries(r.rows)[k] = EntryAt(w, l, k)
    <2> DEFINE rows == r.rows
    <2>1. \A i \in DOMAIN rows : rows[i].key # "unasked" => Kept(rows[i]) = EntryAt(w, l, rows[i].key)
        BY <1>1
    <2>2. k \in DOMAIN Entries(rows)
        OBVIOUS
    <2> HIDE DEF rows
    <2>3. Entries(rows)[k] = EntryAt(w, l, k)
        BY <2>1, <2>2, EntriesAre
    <2> QED BY <2>3 DEF rows
<1>3. PICK i \in DOMAIN r.rows : r.rows[i].key = k
    BY DEF Entries
<1> QED BY <1>2, <1>3 DEF Faithful, Living

-----------------------------------------------------------------------------
(* What a simulation says *)

LEMMA ToSetSmall ==
    /\ ToSet(<<>>) = {}
    /\ \A a : ToSet(<<a>>) = {a}
    /\ \A a, b : ToSet(<<a, b>>) = {a, b}
    /\ \A a, b, c : ToSet(<<a, b, c>>) = {a, b, c}
<1>1. ToSet(<<>>) = {}
    BY DEF ToSet
<1>2. ASSUME NEW a PROVE ToSet(<<a>>) = {a}
    <2>1. DOMAIN <<a>> = {1} /\ <<a>>[1] = a
        OBVIOUS
    <2> QED BY <2>1 DEF ToSet
<1>3. ASSUME NEW a, NEW b PROVE ToSet(<<a, b>>) = {a, b}
    <2> DEFINE q == <<a, b>>
    <2>1. DOMAIN q = {1, 2} /\ q[1] = a /\ q[2] = b
        OBVIOUS
    <2> HIDE DEF q
    <2>2. ToSet(q) = {a, b}
        BY <2>1 DEF ToSet
    <2> QED BY <2>2 DEF q
<1>4. ASSUME NEW a, NEW b, NEW c PROVE ToSet(<<a, b, c>>) = {a, b, c}
    <2> DEFINE q == <<a, b, c>>
    <2>1. DOMAIN q = {1, 2, 3} /\ q[1] = a /\ q[2] = b /\ q[3] = c
        OBVIOUS
    <2> HIDE DEF q
    <2>2. ToSet(q) = {a, b, c}
        BY <2>1 DEF ToSet
    <2> QED BY <2>2 DEF q
<1> QED BY <1>1, <1>2, <1>3, <1>4

(* The keys of a call. *)
Words(v) == {"acct_instance", v, "sac_instance", "acct_store", "nonce", "balance", "recipient",
             "config"}

LEMMA ReadOnlyKeys ==
    ASSUME NEW w, NEW l, NEW op
    PROVE  LET v == EntryAt(w, l, "acct_instance").val IN
           /\ ReadOnly(w, l, op) \in Seq(Words(v))
           /\ ToSet(ReadOnly(w, l, op))
                = {"acct_instance", v} \cup (IF op = "assembly" THEN {} ELSE {"sac_instance"})
<1> DEFINE v == EntryAt(w, l, "acct_instance").val
           a == <<"acct_instance", v>>
           b == IF op = "assembly" THEN <<>> ELSE <<"sac_instance">>
<1>1. ReadOnly(w, l, op) = a \o b
    BY DEF ReadOnly
<1> HIDE DEF v
<1>2. a \in Seq(Words(v)) /\ ToSet(a) = {"acct_instance", v}
    BY ToSetSmall DEF Words
<1>3. CASE op = "assembly"
    <2>1. b \in Seq(Words(v)) /\ ToSet(b) = {}
        BY <1>3, ToSetSmall
    <2> HIDE DEF a, b
    <2> QED BY <1>1, <1>2, <1>3, <2>1, ToSetConcat DEF v
<1>4. CASE op # "assembly"
    <2>1. b \in Seq(Words(v)) /\ ToSet(b) = {"sac_instance"}
        BY <1>4, ToSetSmall DEF Words
    <2> HIDE DEF a, b
    <2> QED BY <1>1, <1>2, <1>4, <2>1, ToSetConcat DEF v
<1> QED BY <1>3, <1>4

LEMMA ReadWriteKeys ==
    ASSUME NEW v, NEW op
    PROVE  /\ ReadWrite(op) \in Seq(Words(v))
           /\ op # "assembly" => ToSet(ReadWrite(op)) = {"balance", "recipient", "nonce"}
<1>1. CASE op = "assembly"
    BY <1>1 DEF ReadWrite, Words
<1>2. CASE op # "assembly"
    BY <1>2, ToSetSmall DEF ReadWrite, Words
<1> QED BY <1>1, <1>2

(* The keys of the call that are archived at a ledger. *)
CallArchived(w, l, op) ==
    {k \in ToSet(ReadOnly(w, l, op)) \cup ToSet(ReadWrite(op)) : Archived(w, l, k)}

AutoRestored(w, l, op) ==
    Chosen(ReadOnly(w, l, op), {k \in ToSet(ReadOnly(w, l, op)) : Archived(w, l, k)})

Text(w, l, op, d) ==
    \/ op # "assembly" /\ ~Present(w, l, "recipient")
    \/ d \in {"failed", "failedZero", "errorMixed"}

Inside(w, l, op, how) == how = "auto" /\ CallArchived(w, l, op) # {}

(* The fields of a simulation. *)
SimulationSays(sim, w, l, op, how, d) ==
    LET rw == AutoRestored(w, l, op) \o ReadWrite(op) IN
    /\ sim.latest \in {0, l} /\ sim.fee = 100
    /\ sim.error = IF d = "errorOther" THEN "other" ELSE IF Text(w, l, op, d) THEN "text" ELSE "none"
    /\ sim.preamble = IF CallArchived(w, l, op) = {} \/ Inside(w, l, op, how) \/ Text(w, l, op, d)
                      THEN "none"
                      ELSE IF d = "badPreamble" THEN "unsound" ELSE "sound"
    /\ sim.rw = IF Inside(w, l, op, how) THEN rw ELSE ReadWrite(op)
    /\ sim.archived = IF d = "outside" THEN {Len(rw) + 1}
                      ELSE IF Inside(w, l, op, how)
                      THEN {i \in DOMAIN rw : rw[i] \in CallArchived(w, l, op)} ELSE {}
    /\ ~Inside(w, l, op, how) =>
          sim.ro = ReadOnly(w, l, op) \o (IF d = "config" THEN <<"config">> ELSE <<>>)
                     \o (IF d = "storage" THEN <<"acct_store">> ELSE <<>>)
                     \o (IF d = "repeat" THEN <<"acct_instance">> ELSE <<>>)

LEMMA SimulationFields ==
    ASSUME NEW w, NEW l, NEW op, NEW how, NEW d, NEW sim, sim = SimulationReply(w, l, op, how, d)
    PROVE  SimulationSays(sim, w, l, op, how, d)
<1> DEFINE ro == ReadOnly(w, l, op)
           auto == Chosen(ro, {k \in ToSet(ro) : Archived(w, l, k)})
           all == ro \o ReadWrite(op)
           archived == {all[i] : i \in Expired(w, l, all)}
           rw == auto \o ReadWrite(op)
           text == (op # "assembly" /\ ~Present(w, l, "recipient"))
                     \/ d \in {"failed", "failedZero", "errorMixed"}
           inside == how = "auto" /\ archived # {}
<1>1. archived = CallArchived(w, l, op)
    <2>1. PICK v : ro \in Seq(Words(v))
        BY ReadOnlyKeys
    <2>2. ReadWrite(op) \in Seq(Words(v))
        BY ReadWriteKeys
    <2> HIDE DEF ro
    <2>3. ToSet(all) = ToSet(ro) \cup ToSet(ReadWrite(op))
        BY <2>1, <2>2, ToSetConcat
    <2> HIDE DEF all
    <2>4. archived = {k \in ToSet(all) : Archived(w, l, k)}
        BY DEF Expired, ToSet
    <2> QED BY <2>3, <2>4 DEF CallArchived, ro
<1>2. auto = AutoRestored(w, l, op) /\ rw = AutoRestored(w, l, op) \o ReadWrite(op)
    BY DEF AutoRestored
<1>3. (text <=> Text(w, l, op, d)) /\ (inside <=> Inside(w, l, op, how))
    BY <1>1 DEF Text, Inside
<1>4. /\ sim.latest = IF d \in {"zero", "failedZero"} THEN 0 ELSE l
      /\ sim.fee = 100
      /\ sim.error = IF d = "errorOther" THEN "other" ELSE IF text THEN "text" ELSE "none"
    BY DEF SimulationReply
<1>5. sim.preamble = IF archived = {} \/ inside \/ text THEN "none"
                     ELSE IF d = "badPreamble" THEN "unsound" ELSE "sound"
    BY DEF SimulationReply
<1>6. sim.rw = IF inside THEN rw ELSE ReadWrite(op)
    BY DEF SimulationReply
<1>7. sim.archived = IF d = "outside" THEN {Len(rw) + 1}
                      ELSE IF inside THEN {i \in DOMAIN rw : rw[i] \in archived} ELSE {}
    BY DEF SimulationReply
<1>10. sim.ro = (IF inside THEN Chosen(ro, {k \in ToSet(ro) : ~Archived(w, l, k)}) ELSE ro)
                  \o (IF d = "config" THEN <<"config">> ELSE <<>>)
                  \o (IF d = "storage" THEN <<"acct_store">> ELSE <<>>)
                  \o (IF d = "repeat" THEN <<"acct_instance">> ELSE <<>>)
    BY DEF SimulationReply
<1>11. ~inside => (IF inside THEN Chosen(ro, {k \in ToSet(ro) : ~Archived(w, l, k)}) ELSE ro) = ro
    OBVIOUS
<1> HIDE DEF archived, auto, rw, text, inside
<1>8. sim.latest \in {0, l}
    BY <1>4
<1>9. sim.archived = IF d = "outside" THEN {Len(AutoRestored(w, l, op) \o ReadWrite(op)) + 1}
                      ELSE IF Inside(w, l, op, how)
                      THEN {i \in DOMAIN (AutoRestored(w, l, op) \o ReadWrite(op)) :
                           (AutoRestored(w, l, op) \o ReadWrite(op))[i] \in CallArchived(w, l, op)}
                      ELSE {}
    BY <1>1, <1>2, <1>3, <1>7
<1>12. ~Inside(w, l, op, how) =>
          sim.ro = ReadOnly(w, l, op) \o (IF d = "config" THEN <<"config">> ELSE <<>>)
                     \o (IF d = "storage" THEN <<"acct_store">> ELSE <<>>)
                     \o (IF d = "repeat" THEN <<"acct_instance">> ELSE <<>>)
    BY <1>3, <1>10, <1>11
<1> QED BY <1>1, <1>2, <1>3, <1>4, <1>5, <1>6, <1>8, <1>9, <1>12 DEF SimulationSays

(* Without an error, a simulation asks for no restoration exactly when no    *)
(* key of the call is archived.                                              *)
LEMMA RestorationIsNeeded ==
    ASSUME NEW w, NEW l, NEW op, NEW how, NEW d, NEW sim, sim = SimulationReply(w, l, op, how, d),
           sim.error = "none", ~(sim.preamble = "none" /\ OutOfFootprint(sim))
    PROVE  (sim.preamble = "none" /\ sim.archived = {}) <=> CallArchived(w, l, op) = {}
<1> DEFINE ro == ReadOnly(w, l, op)
           auto == AutoRestored(w, l, op)
           rw == auto \o ReadWrite(op)
           gone == CallArchived(w, l, op)
<1>1. PICK v : ro \in Seq(Words(v))
    BY ReadOnlyKeys
<1>2. ReadWrite(op) \in Seq(Words(v))
    BY ReadWriteKeys
<1>3. auto \in Seq(Words(v)) /\ ToSet(auto) = ToSet(ro) \cap {k \in ToSet(ro) : Archived(w, l, k)}
    BY <1>1, ChosenAre DEF AutoRestored
<1>4. ToSet(rw) = ToSet(auto) \cup ToSet(ReadWrite(op))
    <2> HIDE DEF auto
    <2> QED BY <1>2, <1>3, ToSetConcat
<1>0. /\ sim.error = IF d = "errorOther" THEN "other"
                      ELSE IF Text(w, l, op, d) THEN "text" ELSE "none"
      /\ sim.preamble = IF gone = {} \/ Inside(w, l, op, how) \/ Text(w, l, op, d)
                        THEN "none"
                        ELSE IF d = "badPreamble" THEN "unsound" ELSE "sound"
      /\ sim.rw = IF Inside(w, l, op, how) THEN rw ELSE ReadWrite(op)
      /\ sim.archived = IF d = "outside" THEN {Len(rw) + 1}
                        ELSE IF Inside(w, l, op, how) THEN {i \in DOMAIN rw : rw[i] \in gone} ELSE {}
    <2>1. SimulationSays(sim, w, l, op, how, d)
        BY SimulationFields
    <2> QED BY ONLY <2>1 DEF SimulationSays
<1>5. ~Text(w, l, op, d)
    BY <1>0
<1>6. sim.preamble = "none" <=> gone = {} \/ Inside(w, l, op, how)
    BY <1>0, <1>5
<1>7. ASSUME gone = {} PROVE sim.preamble = "none" /\ sim.archived = {}
    <2>1. ~Inside(w, l, op, how) /\ sim.preamble = "none"
        BY <1>6, <1>7 DEF Inside
    <2>2. d # "outside" => sim.archived = {}
        BY <2>1, <1>0
    <2>3. sim.rw = ReadWrite(op)
        BY <2>1, <1>0
    <2>4. ASSUME d = "outside" PROVE FALSE
        <3>1. sim.archived = {Len(rw) + 1}
            BY <2>4, <1>0
        <3>2. Len(rw) = Len(auto) + Len(ReadWrite(op)) /\ Len(auto) \in Nat /\ Len(ReadWrite(op)) \in Nat
            <4> HIDE DEF auto
            <4> QED BY <1>2, <1>3
        <3>3. Len(rw) + 1 > Len(sim.rw)
            <4> HIDE DEF rw, auto
            <4> QED BY <2>3, <3>2
        <3> QED BY <2>1, <3>1, <3>3 DEF OutOfFootprint
    <2> QED BY <2>1, <2>2, <2>4
<1>8. ASSUME gone # {}, sim.preamble = "none" PROVE sim.archived # {}
    <2>1. Inside(w, l, op, how)
        BY <1>6, <1>8
    <2>2. CASE d = "outside"
        BY <2>2, <1>0
    <2>3. CASE d # "outside"
        <3>1. sim.archived = {i \in DOMAIN rw : rw[i] \in gone}
            BY <2>1, <2>3, <1>0
        <3>2. PICK k \in gone : TRUE
            BY <1>8
        <3>3. k \in ToSet(rw)
            BY <1>3, <1>4, <3>2 DEF CallArchived
        <3> HIDE DEF rw, gone
        <3>4. PICK i \in DOMAIN rw : rw[i] = k
            BY <3>3 DEF ToSet
        <3> QED BY <3>1, <3>2, <3>4
    <2> QED BY <2>2, <2>3
<1> QED BY <1>7, <1>8

(* Two lists of checks, one after the other. *)
LEMMA BothLists ==
    ASSUME NEW S, NEW p \in Seq(S), NEW q \in Seq(S),
           \A i \in DOMAIN p : p[i][1] => Failed(p[i][2]),
           \A i \in DOMAIN q : q[i][1] => Failed(q[i][2]),
           ~Failed(FirstOf(p \o q))
    PROVE  (\A i \in DOMAIN p : ~p[i][1]) /\ (\A i \in DOMAIN q : ~q[i][1])
<1> DEFINE n == Len(p)
           m == Len(q)
           checks == p \o q
<1>1. /\ n \in Nat /\ m \in Nat /\ DOMAIN p = 1 .. n /\ DOMAIN q = 1 .. m
      /\ DOMAIN checks = 1 .. n + m
      /\ \A i \in 1 .. n : checks[i] = p[i]
    OBVIOUS
<1>2. \A i \in 1 .. m : checks[n + i] = q[i]
    OBVIOUS
<1>3. \A i \in DOMAIN checks : checks[i] = IF i <= n THEN p[i] ELSE q[i - n]
    OBVIOUS
<1> HIDE DEF n, m
<1>4. ASSUME NEW i \in DOMAIN checks PROVE checks[i][1] => Failed(checks[i][2])
    <2>1. CASE i <= n
        BY <1>1, <1>3, <2>1
    <2>2. CASE ~(i <= n)
        <3>1. i - n \in DOMAIN q /\ checks[i] = q[i - n]
            BY <1>1, <1>3, <2>2
        <3> QED BY <3>1
    <2> QED BY <2>1, <2>2
<1>5. ~Failed(FirstOf(checks)) /\ DOMAIN checks \subseteq Nat
    BY <1>1
<1> HIDE DEF checks
<1>6. \A i \in DOMAIN checks : ~checks[i][1]
    BY <1>4, <1>5, NoneRefuses
<1>7. \A i \in 1 .. n : i \in DOMAIN checks
    BY <1>1
<1>8. \A i \in 1 .. m : n + i \in DOMAIN checks
    BY <1>1
<1> QED BY <1>1, <1>2, <1>6, <1>7, <1>8

LEMMA SimulatedChecks ==
    ASSUME NEW sim, ~Failed(capture_simulated(sim))
    PROVE  /\ sim.error # "other" /\ ~Says(sim) /\ sim.latest # 0
           /\ sim.preamble # "sound" /\ sim.preamble # "unsound" /\ ~OutOfFootprint(sim)
           /\ sim.archived = {} /\ "config" \notin ToSet(sim.ro)
<1> DEFINE a1 == sim.error = "other"
           a2 == Says(sim) /\ (sim.results > 0 \/ sim.preamble # "none")
           a3 == ~sim.shape
           a4 == sim.latest = 0
           x4 == IF Says(sim) THEN Err("Rpc", "fixed") ELSE Malformed
           a5 == Says(sim)
           x5 == Err("TargetRefused", "fixed")
           x6 == validate_restoration(sim)
           a6 == Failed(x6)
           a7 == sim.preamble = "sound"
           a8 == sim.results # 1 \/ ~sim.void \/ sim.auth \notin {<<"exact">>, <<"signed">>} \/ ~sim.agrees
           a9 == OutOfFootprint(sim)
           a10 == restores_archived_entries(sim)
           a11 == "config" \in ToSet(sim.ro) \cup ToSet(sim.rw)
           p == << <<a1, Malformed>>, <<a2, Malformed>>, <<a3, Malformed>>, <<a4, x4>>, <<a5, x5>>,
                   <<a6, x6>> >>
           q == << <<a7, TargetArchived>>, <<a8, Malformed>>, <<a9, Malformed>>, <<a10, TargetArchived>>,
                   <<a11, Malformed>> >>
<1>1. ~Failed(FirstOf(p \o q))
    BY DEF capture_simulated, simulation_head
<1>2. Failed(x4) /\ Failed(x5) /\ (a6 => Failed(x6))
    BY ErrorsFail
<1>3. ~a1 /\ ~a4 /\ ~a5 /\ ~a6 /\ ~a7 /\ ~a9 /\ ~a10 /\ ~a11
    <2> HIDE DEF a1, a2, a3, a4, a5, a6, a7, a8, a9, a10, a11, x4, x5, x6
    <2>1. /\ DOMAIN p = {1, 2, 3, 4, 5, 6} /\ p[1] = <<a1, Malformed>> /\ p[2] = <<a2, Malformed>>
          /\ p[3] = <<a3, Malformed>> /\ p[4] = <<a4, x4>> /\ p[5] = <<a5, x5>> /\ p[6] = <<a6, x6>>
        OBVIOUS
    <2>2. /\ DOMAIN q = {1, 2, 3, 4, 5} /\ q[1] = <<a7, TargetArchived>> /\ q[2] = <<a8, Malformed>>
          /\ q[3] = <<a9, Malformed>> /\ q[4] = <<a10, TargetArchived>> /\ q[5] = <<a11, Malformed>>
        OBVIOUS
    <2> DEFINE S == {p[i] : i \in DOMAIN p} \cup {q[i] : i \in DOMAIN q}
    <2>3. p \in Seq(S) /\ q \in Seq(S)
        <3>1. /\ p[1] \in S /\ p[2] \in S /\ p[3] \in S /\ p[4] \in S /\ p[5] \in S /\ p[6] \in S
              /\ q[1] \in S /\ q[2] \in S /\ q[3] \in S /\ q[4] \in S /\ q[5] \in S
            <4> HIDE DEF p, q
            <4> QED BY <2>1, <2>2
        <3> HIDE DEF S
        <3>2. p \in Seq(S)
            BY <3>1, <2>1
        <3>3. q \in Seq(S)
            BY <3>1, <2>2
        <3> QED BY <3>2, <3>3
    <2>4. \A i \in DOMAIN p : p[i][1] => Failed(p[i][2])
        <3> HIDE DEF p, q
        <3> QED BY <1>2, <2>1, ErrorsFail
    <2>5. \A i \in DOMAIN q : q[i][1] => Failed(q[i][2])
        <3> HIDE DEF p, q
        <3> QED BY <2>2, ErrorsFail
    <2> HIDE DEF p, q, S
    <2>6. (\A i \in DOMAIN p : ~p[i][1]) /\ (\A i \in DOMAIN q : ~q[i][1])
        BY <1>1, <2>3, <2>4, <2>5, BothLists
    <2> QED BY <2>1, <2>2, <2>6
<1>4. sim.preamble # "unsound"
    BY <1>3, ErrorsFail DEF validate_restoration
<1>5. sim.archived = {}
    BY <1>3 DEF restores_archived_entries
<1> QED BY <1>3, <1>4, <1>5

LEMMA AtMostOne ==
    ASSUME NEW S, NEW x \in S, NEW q, q \in {<<x>>, <<>>}
    PROVE  q \in Seq(S) /\ ToSet(q) \subseteq {x}
<1>1. CASE q = <<x>>
    BY <1>1, ToSetSmall
<1>2. CASE q = <<>>
    BY <1>2, ToSetSmall
<1> QED BY <1>1, <1>2

(* The keys of an accepted simulation of a native transfer. *)
TransferNamed(sim, w, l, v) ==
    /\ sim.latest = l
    /\ sim.ro \in Seq(Words(v)) /\ sim.rw \in Seq(Words(v))
    /\ ToSet(ReadOnly(w, l, "native")) \subseteq ToSet(sim.ro)
    /\ ToSet(sim.ro) \subseteq ToSet(ReadOnly(w, l, "native")) \cup {"acct_store"}
    /\ ToSet(sim.rw) = {"balance", "recipient", "nonce"}

LEMMA NativeSimulated ==
    ASSUME NEW w, NEW l, NEW how, NEW d, NEW sim, sim = SimulationReply(w, l, "native", how, d),
           ~Failed(capture_simulated(sim)), NEW v, v = EntryAt(w, l, "acct_instance").val
    PROVE  TransferNamed(sim, w, l, v)
<1> DEFINE ro == ReadOnly(w, l, "native")
           a == IF d = "config" THEN <<"config">> ELSE <<>>
           b == IF d = "storage" THEN <<"acct_store">> ELSE <<>>
           c == IF d = "repeat" THEN <<"acct_instance">> ELSE <<>>
<1>1. /\ sim.error # "other" /\ ~Says(sim) /\ sim.latest # 0
      /\ sim.preamble # "sound" /\ sim.preamble # "unsound" /\ ~OutOfFootprint(sim)
      /\ sim.archived = {} /\ "config" \notin ToSet(sim.ro)
    BY SimulatedChecks
<1>2. SimulationSays(sim, w, l, "native", how, d)
    BY SimulationFields
<1>3. sim.error = "none" /\ sim.preamble = "none" /\ sim.latest = l
    BY <1>1, <1>2 DEF SimulationSays, Says
<1>4. CallArchived(w, l, "native") = {}
    BY <1>1, <1>3, RestorationIsNeeded
<1>5. ~Inside(w, l, "native", how)
    BY <1>4 DEF Inside
<1>6. sim.rw = ReadWrite("native") /\ sim.ro = ro \o a \o b \o c
    BY <1>2, <1>5 DEF SimulationSays
<1>7. ro \in Seq(Words(v)) /\ ToSet(ro) = {"acct_instance", v, "sac_instance"}
    BY ReadOnlyKeys
<1>8. sim.rw \in Seq(Words(v)) /\ ToSet(sim.rw) = {"balance", "recipient", "nonce"}
    BY <1>6, ReadWriteKeys
<1>9. /\ a \in Seq(Words(v)) /\ ToSet(a) \subseteq {"config"}
      /\ b \in Seq(Words(v)) /\ ToSet(b) \subseteq {"acct_store"}
      /\ c \in Seq(Words(v)) /\ ToSet(c) \subseteq {"acct_instance"}
    <2>1. a \in Seq(Words(v)) /\ ToSet(a) \subseteq {"config"}
        <3>1. "config" \in Words(v) /\ a \in {<<"config">>, <<>>}
            BY DEF Words
        <3> HIDE DEF a
        <3> QED BY <3>1, AtMostOne
    <2>2. b \in Seq(Words(v)) /\ ToSet(b) \subseteq {"acct_store"}
        <3>1. "acct_store" \in Words(v) /\ b \in {<<"acct_store">>, <<>>}
            BY DEF Words
        <3> HIDE DEF b
        <3> QED BY <3>1, AtMostOne
    <2>3. c \in Seq(Words(v)) /\ ToSet(c) \subseteq {"acct_instance"}
        <3>1. "acct_instance" \in Words(v) /\ c \in {<<"acct_instance">>, <<>>}
            BY DEF Words
        <3> HIDE DEF c
        <3> QED BY <3>1, AtMostOne
    <2> QED BY <2>1, <2>2, <2>3
<1> HIDE DEF a, b, c, ro
<1>10. ro \o a \in Seq(Words(v)) /\ ToSet(ro \o a) = ToSet(ro) \cup ToSet(a)
    BY <1>7, <1>9, ToSetConcat
<1> DEFINE p == ro \o a
           q == p \o b
<1>11. q \in Seq(Words(v)) /\ ToSet(q) = ToSet(p) \cup ToSet(b)
    <2>1. p \in Seq(Words(v))
        BY <1>10
    <2> HIDE DEF p
    <2> QED BY <1>9, <2>1, ToSetConcat
<1>12. q \o c \in Seq(Words(v)) /\ ToSet(q \o c) = ToSet(q) \cup ToSet(c)
    <2> HIDE DEF q
    <2> QED BY <1>9, <1>11, ToSetConcat
<1>13. sim.ro \in Seq(Words(v)) /\ ToSet(sim.ro) = ToSet(ro) \cup ToSet(a) \cup ToSet(b) \cup ToSet(c)
    BY <1>6, <1>10, <1>11, <1>12
<1> QED BY <1>1, <1>3, <1>7, <1>8, <1>9, <1>13 DEF ro, TransferNamed

-----------------------------------------------------------------------------
(* An install transaction, and the label of a recording *)

LEMMA SequenceAccepted ==
    ASSUME NEW w, NEW l \in Ledgers, NEW d, NEW r, r = EntriesReply(w, l, <<"payer">>, d), NEW j,
           EndpointAssumption, j.validity \in Nat, ~Failed(sequence_read(r, j))
    PROVE  /\ r.latest = l /\ l + j.validity <= MAX_U32
           /\ Only(r).val = EntryAt(w, l, "payer").val
<1> DEFINE a1 == ~r.shape \/ r.latest = 0 \/ ~ordered_ledgers(j.authority, r.latest)
           a2 == Len(r.rows) # 1 \/ Only(r).key # "payer" \/ Only(r).of # "payer"
           a3 == Only(r).mod = 0 \/ Only(r).mod > r.latest
           a4 == r.latest + j.validity > MAX_U32
<1>1. ~Failed(FirstOf(<< <<a1, Malformed>>, <<a2, Malformed>>, <<a3, Malformed>>, <<a4, Malformed>> >>))
    BY DEF sequence_read
<1>2. ~a1 /\ ~a2 /\ ~a3 /\ ~a4
    <2> HIDE DEF a1, a2, a3, a4
    <2> QED BY <1>1, ErrorsFail, First4
<1>3. <<"payer">> \in Seq({"payer"}) /\ ToSet(<<"payer">>) = {"payer"}
    BY ToSetSmall
<1>4. /\ r.latest \in {0, l} /\ DOMAIN r.rows = 1 .. Len(r.rows)
      /\ \A i \in DOMAIN r.rows : Honest(r.rows[i], w, l, {"payer"})
    <2> DEFINE keys == <<"payer">>
               U == {"payer"}
    <2>1. r = EntriesReply(w, l, keys, d) /\ keys \in Seq(U) /\ ToSet(keys) = {"payer"}
        BY <1>3
    <2> HIDE DEF keys, U
    <2>2. r.latest \in {0, l} /\ \A i \in DOMAIN r.rows : Honest(r.rows[i], w, l, ToSet(keys))
        BY <2>1, RepliesAre
    <2>3. Len(r.rows) \in Nat /\ DOMAIN r.rows = 1 .. Len(r.rows)
        BY <2>1, RepliesAre
    <2> QED BY <2>1, <2>2, <2>3
<1>5. r.latest = l
    BY <1>2, <1>4
<1>6. 1 \in DOMAIN r.rows /\ r.rows # <<>>
    BY <1>2, <1>4
<1>7. Only(r) = r.rows[1] /\ Honest(r.rows[1], w, l, {"payer"})
    BY <1>4, <1>6 DEF Only
<1>8. Only(r).val = EntryAt(w, l, "payer").val
    BY <1>7 DEF Honest
<1>9. l + j.validity <= MAX_U32
    BY <1>2, <1>5 DEF EndpointAssumption
<1> QED BY <1>5, <1>8, <1>9

LEMMA Larger ==
    ASSUME NEW x \in Nat, NEW y \in Nat
    PROVE  Max({x, y}) \in Nat /\ Max({x, y}) >= x /\ Max({x, y}) >= y
<1>1. \E z \in {x, y} : \A u \in {x, y} : z >= u
    OBVIOUS
<1> QED BY <1>1 DEF Max

LEMMA FeeAccepted ==
    ASSUME NEW seen, NEW j, NEW r, r.p90 \in Nat, ~Failed(fee_read(r, seen, j))
    PROVE  /\ r.latest >= seen
           /\ InclusionFee(r) \in Nat /\ InclusionFee(r) >= MIN_INCLUSION_FEE
<1> DEFINE a1 == r.latest = 0 \/ ~ordered_ledgers(seen, r.latest) \/ ~r.decimal
           a2 == InclusionFee(r) > j.max_fee
           x2 == Err("InvalidRequest", "fixed")
<1>1. ~Failed(FirstOf(<< <<a1, Malformed>>, <<a2, x2>> >>))
    BY DEF fee_read
<1>2. Failed(x2)
    BY ErrorsFail
<1>3. ~a1
    <2> HIDE DEF a1, a2, x2
    <2> QED BY <1>1, <1>2, ErrorsFail, First2
<1>4. r.latest >= seen
    BY <1>3 DEF ordered_ledgers
<1>6. r.p90 \in Nat /\ MIN_INCLUSION_FEE \in Nat
    BY DEF MIN_INCLUSION_FEE
<1>7. InclusionFee(r) \in Nat /\ InclusionFee(r) >= MIN_INCLUSION_FEE
    BY <1>6, Larger DEF InclusionFee
<1> QED BY <1>4, <1>7

LEMMA InstallAccepted ==
    ASSUME NEW sim, NEW seen, NEW cap, NEW fee, NEW j, ~Failed(install_simulated(sim, seen, cap, fee, j))
    PROVE  /\ sim.latest # 0 /\ sim.latest >= seen /\ sim.error = "none"
           /\ ~(sim.latest + 1 >= cap) /\ ~(fee + sim.fee > j.max_fee)
           /\ ~(sim.preamble = "none" /\ OutOfFootprint(sim))
<1> DEFINE a1 == ~sim.shape \/ sim.latest = 0 \/ ~ordered_ledgers(seen, sim.latest)
                   \/ ~ordered_ledgers(j.authority, sim.latest)
           a2 == AlreadyExpired(sim.latest, cap)
           a3 == sim.error # "none" \/ ~transaction_data(sim)
           a4 == sim.results # 1 \/ sim.auth # <<"exact">>
           a5 == sim.preamble = "unsound" \/ (sim.preamble = "none" /\ OutOfFootprint(sim))
           a6 == fee + sim.fee > j.max_fee
           x6 == Err("InvalidRequest", "fixed")
<1>1. ~Failed(FirstOf(<< <<a1, Malformed>>, <<a2, Malformed>>, <<a3, Malformed>>, <<a4, Malformed>>,
                         <<a5, Malformed>>, <<a6, x6>> >>))
    BY DEF install_simulated
<1>2. Failed(x6)
    BY ErrorsFail
<1>3. ~a1 /\ ~a2 /\ ~a3 /\ ~a5 /\ ~a6
    <2> HIDE DEF a1, a2, a3, a4, a5, a6, x6
    <2> QED BY <1>1, <1>2, ErrorsFail, First6
<1>4. sim.latest >= seen
    BY <1>3 DEF ordered_ledgers
<1>5. ~(sim.latest + 1 >= cap)
    BY <1>3 DEF AlreadyExpired
<1> QED BY <1>3, <1>4, <1>5

LEMMA TransactionAccepted ==
    ASSUME NEW j, j.applied \in BOOLEAN, NEW d, NEW r, r = TransactionReply(j, d),
           ~Failed(parse_get_transaction(r))
    PROVE  (r.status = "SUCCESS") = j.applied
<1> DEFINE a1 == r.status = "NOT_FOUND"
           x1 == Err("NotFound", "fixed")
           a2 == r.status \notin {"SUCCESS", "FAILED"}
           x2 == Err("Rpc", "endpoint")
           a3 == ~r.hash \/ ~r.envelope
           a4 == r.result = "absent"
           a5 == (r.status = "SUCCESS") # (r.result = "applied")
           a6 == ~r.fields
<1>1. ~Failed(FirstOf(<< <<a1, x1>>, <<a2, x2>>, <<a3, Malformed>>, <<a4, Malformed>>,
                         <<a5, Malformed>>, <<a6, Malformed>> >>))
    BY DEF parse_get_transaction
<1>2. Failed(x1) /\ Failed(x2)
    BY ErrorsFail
<1>3. ~a4 /\ ~a5
    <2> HIDE DEF a1, a2, a3, a4, a5, a6, x1, x2
    <2> QED BY <1>1, <1>2, ErrorsFail, First6
<1>4. r.result = IF d = "noResult" THEN "absent" ELSE IF j.applied THEN "applied" ELSE "failed"
    BY DEF TransactionReply
<1>5. (r.result = "applied") <=> j.applied
    BY <1>3, <1>4
<1>6. (r.status = "SUCCESS") <=> (r.result = "applied")
    BY <1>3
<1> QED BY <1>5, <1>6

-----------------------------------------------------------------------------
(* The batches of a recording *)

(* As many rows as keys, each under a key of its own, are one of each. *)
LEMMA OneOfEach ==
    ASSUME NEW n \in Nat, NEW K, NEW keys, NEW names, keys \in Surjection(1 .. n, K),
           names \in Injection(1 .. n, K)
    PROVE  names \in Surjection(1 .. n, K)
<1> DEFINE I == 1 .. n
<1>1. IsFiniteSet(I) /\ Cardinality(I) = n
    BY FS_Interval
<1>2. keys \in Surjection(I, K)
    OBVIOUS
<1>4. names \in Injection(I, K)
    OBVIOUS
<1> HIDE DEF I
<1>5. IsFiniteSet(K) /\ Cardinality(K) <= n
    BY <1>1, <1>2, FS_Surjection
<1>6. n <= Cardinality(K) /\ (Cardinality(I) = Cardinality(K) <=> names \in Surjection(I, K))
    BY <1>1, <1>4, <1>5, FS_Injection
<1>7. Cardinality(K) \in Nat
    BY <1>5, FS_CardinalityType
<1>8. names \in Surjection(I, K)
    BY <1>1, <1>5, <1>6, <1>7
<1> QED BY <1>8 DEF I

LEMMA ReturnedAll ==
    ASSUME NEW keys, NEW U, keys \in Seq(U), NEW rows, Len(rows) = Len(keys),
           DOMAIN rows = 1 .. Len(rows),
           \A i \in DOMAIN rows : rows[i].key \in ToSet(keys) /\ ~Repeated(rows, i)
    PROVE  {rows[i].key : i \in DOMAIN rows} = ToSet(keys)
<1> DEFINE n == Len(keys)
           K == ToSet(keys)
           names == [i \in 1 .. n |-> rows[i].key]
<1>1. n \in Nat /\ DOMAIN keys = 1 .. n /\ keys \in [1 .. n -> U]
    OBVIOUS
<1>2. keys \in [1 .. n -> K] /\ \A k \in K : \E i \in 1 .. n : keys[i] = k
    <2> HIDE DEF n
    <2>1. \A i \in 1 .. n : keys[i] \in K
        BY <1>1 DEF ToSet
    <2>2. \A k \in K : \E i \in 1 .. n : keys[i] = k
        BY <1>1 DEF ToSet
    <2> HIDE DEF K
    <2> QED BY <1>1, <2>1, <2>2
<1>3. DOMAIN rows = 1 .. n
    OBVIOUS
<1> HIDE DEF n, K
<1>4. names \in [1 .. n -> K]
    BY <1>3 DEF K
<1>5. ASSUME NEW i \in 1 .. n, NEW j \in 1 .. n, j < i PROVE names[j] # names[i]
    <2>1. j \in 1 .. i - 1 /\ ~Repeated(rows, i)
        BY <1>1, <1>3, <1>5
    <2> QED BY <2>1 DEF Repeated
<1>6. \A i \in 1 .. n : names[i] = rows[i].key
    OBVIOUS
<1> HIDE DEF names
<1>9. \A i \in 1 .. n, j \in 1 .. n : names[i] = names[j] => i = j
    BY <1>1, <1>5
<1>10. names \in Injection(1 .. n, K)
    BY <1>4, <1>9 DEF Injection, IsInjective
<1>11. keys \in Surjection(1 .. n, K)
    BY <1>2 DEF Surjection
<1>12. names \in Surjection(1 .. n, K)
    BY <1>1, <1>10, <1>11, OneOfEach
<1>7. {names[i] : i \in 1 .. n} = K
    BY <1>12 DEF Surjection
<1>8. {names[i] : i \in 1 .. n} = {rows[i].key : i \in DOMAIN rows}
    BY <1>3, <1>6
<1> QED BY <1>7, <1>8 DEF K

LEMMA Smaller ==
    ASSUME NEW x \in Nat, NEW y \in Nat
    PROVE  Min({x, y}) = IF x <= y THEN x ELSE y
<1>1. \E z \in {x, y} : \A u \in {x, y} : z =< u
    OBVIOUS
<1> QED BY <1>1 DEF Min

(* The elements of a list from m to n. *)
Part(s, m, n) == {s[i] : i \in m .. n}

LEMMA NextBatch ==
    ASSUME NEW b \in Nat \ {0}, NEW M \in Nat
    PROVE  /\ (b - 1) * M \in Nat /\ b * M = (b - 1) * M + M
           /\ (b + 1 - 1) * M = b * M
<1> DEFINE c == b - 1
<1>1. c \in Nat /\ b = c + 1 /\ b + 1 - 1 = b
    OBVIOUS
<1> HIDE DEF c
<1>2. (c + 1) * M = c * M + M /\ c * M \in Nat
    BY <1>1
<1> QED BY <1>1, <1>2 DEF c

(* A batch starts after the contracts of those before it. *)
Start(batch) == (batch - 1) * MAX_LEDGER_ENTRY_KEYS

End(s, batch) == Min({batch * MAX_LEDGER_ENTRY_KEYS, Len(s)})

LEMMA BatchKeys ==
    ASSUME NEW U, NEW s \in Seq(U), NEW batch \in Nat \ {0}, Start(batch) < Len(s)
    PROVE  /\ BatchOf(s, batch) \in Seq(U)
           /\ ToSet(BatchOf(s, batch)) = Part(s, Start(batch) + 1, End(s, batch))
           /\ Start(batch) \in Nat /\ End(s, batch) \in Nat
           /\ Start(batch) < End(s, batch) /\ End(s, batch) <= Len(s)
           /\ End(s, batch) = IF batch * MAX_LEDGER_ENTRY_KEYS <= Len(s)
                              THEN batch * MAX_LEDGER_ENTRY_KEYS ELSE Len(s)
           /\ Start(batch + 1) = batch * MAX_LEDGER_ENTRY_KEYS
<1> DEFINE M == MAX_LEDGER_ENTRY_KEYS
           a == Start(batch)
           b == IF a + M <= Len(s) THEN a + M ELSE Len(s)
<1>0. M \in Nat \ {0}
    BY EndpointAssumption
<1> HIDE DEF M
<1>1. batch * M = a + M /\ a \in Nat /\ Start(batch + 1) = batch * M
    BY <1>0, NextBatch DEF Start, M
<1> HIDE DEF a
<1>9. a < Len(s)
    BY DEF a
<1>2. a < b /\ b <= Len(s) /\ b \in Nat
    BY <1>0, <1>1, <1>9
<1>3. Min({batch * M, Len(s)}) = b
    <2> DEFINE x == batch * M
               y == Len(s)
    <2>1. x = a + M /\ x \in Nat /\ y \in Nat
        BY <1>0, <1>1
    <2>2. Min({x, y}) = IF x <= y THEN x ELSE y
        <3> HIDE DEF x, y
        <3> QED BY <2>1, Smaller
    <2> HIDE DEF x
    <2>3. Min({x, y}) = b
        BY <2>1, <2>2
    <2> QED BY <2>3 DEF x
<1>4. BatchOf(s, batch) = SubSeq(s, a + 1, b) /\ End(s, batch) = b
    BY <1>3 DEF BatchOf, End, Start, a, M
<1>10. b = IF batch * M <= Len(s) THEN batch * M ELSE Len(s)
    BY <1>1
<1> HIDE DEF b
<1> DEFINE q == BatchOf(s, batch)
           k == b - a
<1>5. q \in Seq(U) /\ DOMAIN q = 1 .. k /\ \A i \in 1 .. k : q[i] = s[a + i]
    <2>1. q = SubSeq(s, a + 1, b)
        BY <1>4
    <2>2. s \in Seq(U) /\ a \in Nat
        BY <1>1
    <2> HIDE DEF q
    <2> QED BY ONLY <1>2, <2>1, <2>2
<1> HIDE DEF q
<1>6. ASSUME NEW i \in a + 1 .. b PROVE s[i] \in ToSet(q)
    <2>1. i - a \in 1 .. k /\ a + (i - a) = i
        BY <1>1, <1>2
    <2>2. q[i - a] = s[i]
        BY <1>5, <2>1
    <2> QED BY <1>5, <2>1, <2>2 DEF ToSet
<1>7. ASSUME NEW i \in 1 .. k PROVE q[i] \in Part(s, a + 1, b)
    <2>1. a + i \in a + 1 .. b
        BY <1>1, <1>2
    <2> QED BY <1>5, <2>1 DEF Part
<1>8. ToSet(q) = Part(s, a + 1, b)
    <2>1. \A x \in ToSet(q) : x \in Part(s, a + 1, b)
        BY <1>5, <1>7 DEF ToSet
    <2>2. \A x \in Part(s, a + 1, b) : x \in ToSet(q)
        BY <1>6 DEF Part
    <2> QED BY <2>1, <2>2
<1>11. /\ BatchOf(s, batch) \in Seq(U) /\ ToSet(BatchOf(s, batch)) = Part(s, Start(batch) + 1, b)
       /\ Start(batch) \in Nat /\ b \in Nat /\ Start(batch) < b /\ b <= Len(s)
    BY <1>1, <1>2, <1>5, <1>8 DEF q, a
<1> QED BY <1>1, <1>4, <1>10, <1>11 DEF M

-----------------------------------------------------------------------------
(* What the acquisition knows at each of its requests *)

Stages ==
    /\ pc = "transaction" => job.op = "transaction"
    /\ pc = "simulate" => job.op = "simulation"
    /\ pc = "executables" => job.op \in {"transaction", "simulation"}
    /\ pc = "preflight" => job.op = "preflight"
    /\ pc \in {"capture", "header"} => job.op = "native"
    /\ pc = "footprint" => job.op \in {"native", "footprint"}
    /\ pc \in {"instance", "code", "selected"} => job.op = "target"
    /\ pc = "codes" => job.op = "code"
    /\ pc = "data" => job.op = "data"
    /\ pc = "classics" => job.op = "classic"
    /\ pc \in {"sequence", "fees", "install"} => job.op = "assembly"

Dated(w, kept) ==
    \A k \in DOMAIN kept : /\ kept[k].entry = EntryAt(w, kept[k].at, k)
                           /\ ~Archived(w, kept[k].at, k)

(* The contracts of the batches before this one have been observed.          *)
RecordingSoFar(w, j, g) ==
    /\ g.batch \in Nat \ {0}
    /\ Start(g.batch) = 0 \/ Start(g.batch) < Len(j.contracts)
    /\ DOMAIN g.kept = Part(j.contracts, 1, Start(g.batch))
    /\ Dated(w, g.kept)
    /\ j.op = "transaction" => ((g.snapshot = "SUCCESS") <=> j.applied)

(* The keys a native capture needs at a ledger; a simulation may name the    *)
(* account's storage as well, which the capture refuses later.               *)
NativeKeys(w, l) ==
    {"acct_instance", EntryAt(w, l, "acct_instance").val, "sac_instance", "balance", "recipient",
     "config"}

NativeNamed(w, l, named) ==
    l \in Ledgers /\ NativeKeys(w, l) \subseteq named /\ named \subseteq NativeKeys(w, l) \cup {"acct_store"}

FootprintNamed(w, g) ==
    /\ \E U : g.ro \o g.rw \in Seq(U)
    /\ NativeNamed(w, g.ledger, ToSet(g.ro \o g.rw))

FootprintHeld(w, g) ==
    /\ NativeNamed(w, g.ledger, DOMAIN g.kept)
    /\ \A k \in DOMAIN g.kept \ {"unasked"} :
           /\ Present(w, g.ledger, k) /\ g.kept[k] = EntryAt(w, g.ledger, k)
           /\ ~Archived(w, g.ledger + 1, k)

SequenceHeld(w, j, g) ==
    /\ g.ledger \in Ledgers
    /\ g.cap = g.ledger + j.validity /\ g.cap <= MAX_U32
    /\ g.seq = SequenceOf(EntryAt(w, g.ledger, "payer").val)

FeeHeld(g) ==
    g.seen \in Nat /\ g.seen >= g.ledger /\ g.fee \in Nat /\ g.fee >= MIN_INCLUSION_FEE

ReadInv ==
    /\ \E s \in Setups : job = s.job /\ world = s.world
    /\ faults \in Nat /\ faults <= Faults
    /\ pc # "done" => answer = NoAnswer
    /\ pc \in {"start", "network", "transaction", "simulate"} => got = Nothing
    /\ Stages
    /\ pc = "executables" => RecordingSoFar(world, job, got)
    /\ pc = "footprint" /\ job.op = "native" => FootprintNamed(world, got)
    /\ pc = "header" => FootprintHeld(world, got)
    /\ pc \in {"fees", "install"} => SequenceHeld(world, job, got)
    /\ pc = "install" => FeeHeld(got)

(* The three properties, of any world, request and answer.                   *)
CapturedIs(w, j, f, a) ==
    (a.ok /\ j.op \in {"native", "footprint", "target", "code", "data", "classic"}) =>
        /\ \A k \in DOMAIN a.kept :
               /\ Present(w, a.ledger, k)
               /\ a.kept[k] = EntryAt(w, a.ledger, k)
               /\ Archived(w, IF j.op = "native" THEN a.ledger + 1 ELSE a.ledger, k)
                    <=> (j.op = "data" /\ k \in a.archived)
        /\ j.op = "native" =>
               /\ a.runs = EntryAt(w, a.ledger, "acct_instance").val
               /\ DOMAIN a.kept
                    = ToSet(ReadOnly(w, a.ledger, j.op) \o ReadWrite(j.op))
                        \ {"nonce", "acct_instance", a.runs}
        /\ j.op = "target" => a.runs = EntryAt(w, a.ledger, "t_instance").val
        /\ (j.op \in {"data", "classic"} /\ f = Faults) =>
               \A k \in a.absent : ~Present(w, a.ledger, k)

RecordedIs(w, j, a) ==
    (a.ok /\ j.op \in {"transaction", "simulation"}) =>
        /\ DOMAIN a.kept = ToSet(j.contracts)
        /\ Dated(w, a.kept)
        /\ j.op = "transaction" => ((a.snapshot = "SUCCESS") <=> j.applied)

AssembledIs(w, j, a) ==
    (a.ok /\ j.op = "assembly") =>
        /\ a.ledger >= a.min /\ a.ledger + 1 \in a.min..(a.max - 1)
        /\ \A l \in a.min..(a.max - 1) : l <= a.expires
        /\ a.seq = SequenceOf(EntryAt(w, a.min, "payer").val) + 1
        /\ a.fee \in MIN_INCLUSION_FEE..j.max_fee
        /\ a.max <= MAX_U32
        /\ (a.restoration = "None")
              <=> \A k \in ToSet(ReadOnly(w, a.ledger, j.op) \o ReadWrite(j.op)) : ~Archived(w, a.ledger, k)

Answers(w, j, f, a) == CapturedIs(w, j, f, a) /\ RecordedIs(w, j, a) /\ AssembledIs(w, j, a)

LEMMA AnswersAre ==
    ASSUME ReadInv
    PROVE  Answers(world, job, faults, answer) =>
               CapturedIsOneLedger /\ RecordingIsTrue /\ AssembledFits
<1> SUFFICES ASSUME Answers(world, job, faults, answer)
             PROVE  CapturedIsOneLedger /\ RecordingIsTrue /\ AssembledFits
    OBVIOUS
<1>1. CapturedIsOneLedger
    BY DEF Answers, CapturedIs, CapturedIsOneLedger, CallKeys, Archived
<1>2. RecordingIsTrue
    <2>1. job.op = "transaction" => job.applied \in BOOLEAN
        BY SetupsAssumption DEF ReadInv
    <2> QED BY <2>1 DEF Answers, RecordedIs, RecordingIsTrue, Dated
<1>3. AssembledFits
    BY DEF Answers, AssembledIs, AssembledFits, CallKeys
<1> QED BY <1>1, <1>2, <1>3

(* A refusal and an acquisition under way have no answer to be true. *)
LEMMA NoAnswerIsTrue ==
    ASSUME NEW w, NEW j, NEW f, NEW a, ~a.ok
    PROVE  Answers(w, j, f, a)
BY DEF Answers, CapturedIs, RecordedIs, AssembledIs

(* The request of an acquisition. *)
LEMMA Requested ==
    ASSUME ReadInv
    PROVE  /\ IsWorld(world) /\ job.op \in Operations
           /\ job.op \in {"transaction", "simulation", "code"} => IsKeys(job.contracts)
           /\ job.op = "transaction" => job.applied \in BOOLEAN
           /\ job.op = "footprint" => IsKeys(job.envelope.ro) /\ IsKeys(job.envelope.rw)
           /\ job.op = "target" => IsKeys(job.selected)
           /\ job.op = "data" => IsKeys(job.keys)
           /\ job.op = "classic" => /\ IsKeys(job.accounts)
                                    /\ \A k \in ToSet(job.accounts) : ~HasTtl(k)
           /\ job.op = "assembly" => job.validity \in Nat /\ job.max_fee \in Nat
<1>1. PICK s \in Setups : job = s.job /\ world = s.world
    BY DEF ReadInv
<1>2. /\ s.world.at \in Nat \ {0} /\ s.world.until \in Nat /\ s.job.op \in Operations
      /\ s.job.op \in {"transaction", "simulation", "code"} => IsKeys(s.job.contracts)
      /\ s.job.op = "transaction" => s.job.applied \in BOOLEAN
      /\ s.job.op = "footprint" => IsKeys(s.job.envelope.ro) /\ IsKeys(s.job.envelope.rw)
      /\ s.job.op = "target" => IsKeys(s.job.selected)
      /\ s.job.op = "data" => IsKeys(s.job.keys)
      /\ s.job.op = "classic" => /\ IsKeys(s.job.accounts)
                                 /\ \A k \in ToSet(s.job.accounts) : ~HasTtl(k)
      /\ s.job.op = "assembly" => {s.job.validity, s.job.authority, s.job.max_fee} \subseteq Nat
    BY SetupsAssumption
<1> QED BY <1>1, <1>2 DEF IsWorld

(* A step that leaves the request alone and may use up a fault.              *)
Stepped == world' = world /\ job' = job /\ faults' \in Nat /\ faults' <= faults

LEMMA Faulted ==
    ASSUME ReadInv, NEW d, NEW defects, Defect(d, defects), Keep
    PROVE  Stepped /\ (d # "none" => faults' # Faults)
<1>1. faults \in Nat /\ faults <= Faults /\ Faults \in Nat
    BY ReadsAssumption DEF ReadInv
<1> QED BY <1>1 DEF Defect, Keep, Stepped

(* What ends keeps the invariant; what is refused has no answer.             *)
LEMMA Ended ==
    ASSUME ReadInv, Stepped, pc' = "done"
    PROVE  ReadInv'
BY ReadsAssumption DEF ReadInv, Stepped, Stages

LEMMA Refused ==
    ASSUME ReadInv, Stepped, pc' = "done", ~answer'.ok
    PROVE  ReadInv' /\ Answers(world', job', faults', answer')
BY Ended, NoAnswerIsTrue

LEMMA RefusedBy ==
    ASSUME ReadInv, Stepped, NEW e, NEW at, Refuse(e, at)
    PROVE  ReadInv' /\ Answers(world', job', faults', answer')
<1>1. pc' = "done" /\ ~answer'.ok
    BY DEF Refuse
<1> QED BY <1>1, Refused

LEMMA Pending ==
    ASSUME ReadInv, pc # "done", NEW next, NEW kept, Continue(next, kept)
    PROVE  Answers(world', job', faults', answer') /\ pc' = next /\ got' = kept /\ answer' = NoAnswer
<1>1. answer' = NoAnswer /\ ~answer'.ok
    BY DEF ReadInv, Continue, NoAnswer
<1> QED BY <1>1, NoAnswerIsTrue DEF Continue

-----------------------------------------------------------------------------
(* The steps *)

(* What a step must keep. *)
Preserved == ReadInv' /\ Answers(world', job', faults', answer')

(* A request after another keeps the invariant when it knows what it needs. *)
Known(p, g) ==
    /\ p \in {"start", "network", "transaction", "simulate"} => g = Nothing
    /\ p = "executables" => RecordingSoFar(world, job, g)
    /\ p = "footprint" /\ job.op = "native" => FootprintNamed(world, g)
    /\ p = "header" => FootprintHeld(world, g)
    /\ p \in {"fees", "install"} => SequenceHeld(world, job, g)
    /\ p = "install" => FeeHeld(g)

LEMMA Advanced ==
    ASSUME ReadInv, Stepped, pc # "done", NEW p, NEW g, Continue(p, g), Stages', Known(p, g)
    PROVE  Preserved
<1>1. Answers(world', job', faults', answer') /\ pc' = p /\ got' = g /\ answer' = NoAnswer
    BY Pending
<1>2. /\ \E s \in Setups : job' = s.job /\ world' = s.world
      /\ faults' \in Nat /\ faults' <= Faults
    BY ReadsAssumption DEF ReadInv, Stepped
<1>3. /\ pc' \in {"start", "network", "transaction", "simulate"} => got' = Nothing
      /\ pc' = "executables" => RecordingSoFar(world', job', got')
      /\ pc' = "footprint" /\ job'.op = "native" => FootprintNamed(world', got')
      /\ pc' = "header" => FootprintHeld(world', got')
      /\ pc' \in {"fees", "install"} => SequenceHeld(world', job', got')
      /\ pc' = "install" => FeeHeld(got')
    BY <1>1 DEF Known, Stepped
<1> QED BY <1>1, <1>2, <1>3 DEF ReadInv, Preserved

LEMMA BeginStep ==
    ASSUME ReadInv, Begin
    PROVE  Preserved
<1> DEFINE e == RequestError(job)
<1>1. Stepped
    BY ReadsAssumption DEF Begin, Keep, Stepped, ReadInv
<1>2. CASE Failed(e)
    <2>1. Refuse(e, "local")
        BY <1>2 DEF Begin
    <2> QED BY <1>1, <2>1, RefusedBy DEF Preserved
<1>3. CASE ~Failed(e)
    <2>1. Continue("network", got) /\ pc = "start"
        BY <1>3 DEF Begin
    <2>2. Known("network", got)
        BY <2>1 DEF ReadInv, Known
    <2>3. Stages'
        BY <2>1 DEF Continue, Stages
    <2> QED BY <1>1, <2>1, <2>2, <2>3, Advanced
<1> QED BY <1>2, <1>3

LEMMA RequestFailsStep ==
    ASSUME ReadInv, RequestFails
    PROVE  Preserved
<1>1. Stepped
    BY ReadsAssumption DEF RequestFails, Keep, Stepped, ReadInv
<1>2. PICK e : Refuse(request_error(job.op, pc, e), pc)
    BY DEF RequestFails
<1> QED BY <1>1, <1>2, RefusedBy DEF Preserved

(* Where an acquisition begins. *)
LEMMA FirstStage ==
    ASSUME NEW op \in Operations
    PROVE  LET p == FirstRequest(op) IN
           /\ p = "transaction" => op = "transaction"
           /\ p = "simulate" => op = "simulation"
           /\ p = "preflight" => op = "preflight"
           /\ p = "capture" => op = "native"
           /\ p = "footprint" => op = "footprint"
           /\ p = "instance" => op = "target"
           /\ p = "codes" => op = "code"
           /\ p = "data" => op = "data"
           /\ p = "classics" => op = "classic"
           /\ p = "sequence" => op = "assembly"
           /\ p \notin {"done", "executables", "header", "code", "selected", "fees", "install"}
BY DEF FirstRequest, Operations

LEMMA VerifyNetworkStep ==
    ASSUME ReadInv, VerifyNetwork
    PROVE  Preserved
<1>1. PICK r : /\ Defect(IF r \in NetworkReplies THEN "none" ELSE "network", {"network"})
               /\ IF Failed(verify_network(r))
                  THEN Refuse(request_error(job.op, "network", verify_network(r)), "network")
                  ELSE Continue(FirstRequest(job.op), got)
    BY DEF VerifyNetwork
<1>2. Stepped /\ pc = "network"
    BY <1>1, Faulted DEF VerifyNetwork
<1>3. CASE Failed(verify_network(r))
    BY <1>1, <1>2, <1>3, RefusedBy DEF Preserved
<1>4. CASE ~Failed(verify_network(r))
    <2> DEFINE p == FirstRequest(job.op)
    <2>1. job.op \in Operations
        BY Requested
    <2>3. /\ p = "transaction" => job.op = "transaction"
          /\ p = "simulate" => job.op = "simulation"
          /\ p = "preflight" => job.op = "preflight"
          /\ p = "capture" => job.op = "native"
          /\ p = "footprint" => job.op = "footprint"
          /\ p = "instance" => job.op = "target"
          /\ p = "codes" => job.op = "code"
          /\ p = "data" => job.op = "data"
          /\ p = "classics" => job.op = "classic"
          /\ p = "sequence" => job.op = "assembly"
          /\ p \notin {"done", "executables", "header", "code", "selected", "fees", "install"}
        BY <2>1, FirstStage
    <2>2. Continue(p, got)
        BY <1>1, <1>4
    <2> HIDE DEF p
    <2>4. Known(p, got)
        BY <1>2, <2>3 DEF ReadInv, Known
    <2>5. Stages'
        BY <1>2, <2>2, <2>3 DEF Continue, Stages, Stepped
    <2> QED BY <1>2, <2>2, <2>4, <2>5, Advanced
<1> QED BY <1>3, <1>4

(* Nothing has been recorded before the first batch. *)
LEMMA NothingRecorded ==
    ASSUME NEW w, NEW j, NEW g, g.batch = 1, g.kept = <<>>,
           j.op = "transaction" => ((g.snapshot = "SUCCESS") <=> j.applied)
    PROVE  RecordingSoFar(w, j, g)
<1>1. Start(g.batch) = 0
    BY EndpointAssumption DEF Start
<1>2. DOMAIN g.kept = {}
    OBVIOUS
<1>3. Part(j.contracts, 1, 0) = {}
    BY DEF Part
<1>4. Dated(w, g.kept)
    BY <1>2 DEF Dated
<1> QED BY <1>1, <1>2, <1>3, <1>4 DEF RecordingSoFar

LEMMA GetTransactionStep ==
    ASSUME ReadInv, GetTransaction
    PROVE  Preserved
<1>1. PICK d : /\ Defect(d, TransactionDefects)
               /\ LET r == TransactionReply(job, d)
                      e == parse_get_transaction(r)
                  IN  IF Failed(e) THEN Refuse(e, "transaction")
                      ELSE Continue("executables", [got EXCEPT !.snapshot = r.status])
    BY DEF GetTransaction
<1> DEFINE r == TransactionReply(job, d)
           e == parse_get_transaction(r)
<1>2. Stepped /\ pc = "transaction" /\ job.op = "transaction" /\ got = Nothing
    BY <1>1, Faulted DEF GetTransaction, ReadInv, Stages
<1>3. CASE Failed(e)
    <2>1. Refuse(e, "transaction")
        BY <1>1, <1>3
    <2> QED BY <1>2, <2>1, RefusedBy DEF Preserved
<1>4. CASE ~Failed(e)
    <2> DEFINE g == [got EXCEPT !.snapshot = r.status]
    <2>1. Continue("executables", g)
        BY <1>1, <1>4
    <2>2. (r.status = "SUCCESS") = job.applied /\ job.applied \in BOOLEAN
        <3>1. job.applied \in BOOLEAN
            BY <1>2, Requested
        <3> QED BY <1>4, <3>1, TransactionAccepted
    <2>3. g.batch = 1 /\ g.kept = <<>> /\ g.snapshot = r.status
        BY <1>2 DEF Nothing
    <2> HIDE DEF g, r, e
    <2>4. (g.snapshot = "SUCCESS") <=> job.applied
        BY <2>2, <2>3
    <2>5. RecordingSoFar(world, job, g)
        BY <2>3, <2>4, NothingRecorded
    <2>6. Known("executables", g)
        BY <2>5 DEF Known
    <2>7. Stages'
        BY <1>2, <2>1 DEF Continue, Stages, Stepped
    <2> QED BY <1>2, <2>1, <2>6, <2>7, Advanced
<1> QED BY <1>3, <1>4

LEMMA SimulateRecordingStep ==
    ASSUME ReadInv, SimulateRecording
    PROVE  Preserved
<1>1. PICK l \in Ledgers, how \in {"preamble", "auto"}, d \in SimulationDefects \cup {"none"} :
          /\ Defect(d, SimulationDefects)
          /\ LET e == parse_simulate(SimulationReply(world, l, job.op, how, d)) IN
             IF Failed(e) THEN Refuse(e, "simulate")
             ELSE Continue("executables", [got EXCEPT !.snapshot = "simulated"])
    BY DEF SimulateRecording
<1> DEFINE e == parse_simulate(SimulationReply(world, l, job.op, how, d))
<1>2. Stepped /\ pc = "simulate" /\ job.op = "simulation" /\ got = Nothing
    BY <1>1, Faulted DEF SimulateRecording, ReadInv, Stages
<1>3. CASE Failed(e)
    <2>1. Refuse(e, "simulate")
        BY <1>1, <1>3
    <2> QED BY <1>2, <2>1, RefusedBy DEF Preserved
<1>4. CASE ~Failed(e)
    <2> DEFINE g == [got EXCEPT !.snapshot = "simulated"]
    <2>1. Continue("executables", g)
        BY <1>1, <1>4
    <2>2. g.batch = 1 /\ g.kept = <<>>
        BY <1>2 DEF Nothing
    <2> HIDE DEF g, e
    <2>3. RecordingSoFar(world, job, g)
        BY <1>2, <2>2, NothingRecorded
    <2>4. Known("executables", g)
        BY <2>3 DEF Known
    <2>5. Stages'
        BY <1>2, <2>1 DEF Continue, Stages, Stepped
    <2> QED BY <1>2, <2>1, <2>4, <2>5, Advanced
<1> QED BY <1>3, <1>4

LEMMA PreflightStep ==
    ASSUME ReadInv, Preflight
    PROVE  Preserved
<1>1. PICK d, r : Defect(d, SimulationDefects) /\ (Return(r) \/ Refuse(r, "preflight"))
    BY DEF Preflight
<1>2. Stepped /\ job.op = "preflight"
    BY <1>1, Faulted DEF Preflight, ReadInv, Stages
<1>3. CASE Refuse(r, "preflight")
    BY <1>2, <1>3, RefusedBy DEF Preserved
<1>4. CASE Return(r)
    <2>1. pc' = "done" /\ job'.op = "preflight"
        BY <1>2, <1>4 DEF Return, Stepped
    <2>2. Answers(world', job', faults', answer')
        BY <2>1 DEF Answers, CapturedIs, RecordedIs, AssembledIs
    <2>3. ReadInv'
        BY <1>2, <2>1, Ended
    <2> QED BY <2>2, <2>3 DEF Preserved
<1> QED BY <1>1, <1>3, <1>4

(* A batch that is accepted adds its contracts to the recording. *)
LEMMA BatchRecorded ==
    ASSUME NEW w, NEW j, NEW g, NEW l \in Ledgers, NEW d, NEW keys, NEW r, NEW kept,
           IsWorld(w), IsKeys(j.contracts), j.contracts # <<>>, RecordingSoFar(w, j, g),
           keys = BatchOf(j.contracts, g.batch), r = EntriesReply(w, l, keys, d),
           ~Failed(parse_contract_executables(r, keys)), kept = Observed(r, g.kept)
    PROVE  DOMAIN kept = Part(j.contracts, 1, End(j.contracts, g.batch)) /\ Dated(w, kept)
<1> DEFINE s == j.contracts
           U == ToSet(s)
           a == Start(g.batch)
           b == End(s, g.batch)
           old == g.kept
           new == Entries(r.rows)
<1>1. s \in Seq(U) /\ "unasked" \notin U /\ Len(s) \in Nat /\ Len(s) > 0
    BY DEF IsKeys
<1>2. g.batch \in Nat \ {0} /\ a < Len(s) /\ DOMAIN old = Part(s, 1, a) /\ Dated(w, old)
    BY <1>1 DEF RecordingSoFar
<1>4. keys = BatchOf(s, g.batch)
    OBVIOUS
<1> HIDE DEF s, U
<1>7. /\ keys \in Seq(U) /\ ToSet(keys) = Part(s, a + 1, b)
      /\ a \in Nat /\ b \in Nat /\ a < b /\ b <= Len(s)
    BY <1>1, <1>2, <1>4, BatchKeys
<1> HIDE DEF a, b
<1>8. /\ Faithful(r, w, l) /\ Living(r) /\ Len(r.rows) = Len(keys)
      /\ \A i \in DOMAIN r.rows : r.rows[i].key \in ToSet(keys) /\ ~Repeated(r.rows, i)
    BY <1>7, EndpointAssumption, ExecutablesAccepted
<1>9. DOMAIN r.rows = 1 .. Len(r.rows)
    BY <1>7, RepliesAre
<1>10. {r.rows[i].key : i \in DOMAIN r.rows} = ToSet(keys)
    <2> DEFINE rows == r.rows
    <2>1. /\ Len(rows) = Len(keys) /\ DOMAIN rows = 1 .. Len(rows)
          /\ \A i \in DOMAIN rows : rows[i].key \in ToSet(keys) /\ ~Repeated(rows, i)
        BY <1>8, <1>9
    <2> HIDE DEF rows
    <2>2. {rows[i].key : i \in DOMAIN rows} = ToSet(keys)
        BY <1>7, <2>1, ReturnedAll
    <2> QED BY <2>2 DEF rows
<1>11. DOMAIN new = ToSet(keys)
    BY <1>10, KeptKeys
<1>12. \A k \in ToSet(keys) : k # "unasked"
    <2>2. \A i \in a + 1 .. b : i \in 1 .. Len(s)
        BY <1>1, <1>7
    <2>3. \A i \in 1 .. Len(s) : s[i] \in U
        BY <1>1
    <2> QED BY <1>1, <1>7, <2>2, <2>3 DEF Part
<1>13. ASSUME NEW k \in DOMAIN new
       PROVE  new[k] = EntryAt(w, l, k) /\ r.latest = l /\ ~Archived(w, l, k)
    <2>1. k \in DOMAIN Entries(r.rows) /\ k # "unasked"
        BY <1>11, <1>12
    <2> QED BY <1>8, <2>1, KeptIsTrue
<1>14. kept = [k \in DOMAIN new \cup DOMAIN old |->
                  IF k \in DOMAIN new THEN [at |-> r.latest, entry |-> new[k]] ELSE old[k]]
    BY DEF Observed
<1> HIDE DEF new, old
<1>15. DOMAIN kept = DOMAIN new \cup DOMAIN old
    BY <1>14
<1>16. /\ \A k \in DOMAIN new : kept[k].at = r.latest /\ kept[k].entry = new[k]
       /\ \A k \in DOMAIN old : k \notin DOMAIN new => kept[k] = old[k]
    BY <1>14
<1>17. Dated(w, kept)
    <2> SUFFICES ASSUME NEW k \in DOMAIN kept
                 PROVE  kept[k].entry = EntryAt(w, kept[k].at, k) /\ ~Archived(w, kept[k].at, k)
        BY DEF Dated
    <2>1. CASE k \in DOMAIN new
        BY <1>13, <1>16, <2>1
    <2>2. CASE k \notin DOMAIN new
        <3>1. k \in DOMAIN old /\ kept[k] = old[k]
            BY <1>15, <1>16, <2>2
        <3> QED BY <1>2, <3>1 DEF Dated
    <2> QED BY <2>1, <2>2
<1>18. Part(s, a + 1, b) \cup Part(s, 1, a) = Part(s, 1, b)
    <2>2. \A i : i \in 1 .. b <=> (i \in a + 1 .. b \/ i \in 1 .. a)
        BY <1>7
    <2>3. \A x \in Part(s, 1, b) : x \in Part(s, a + 1, b) \cup Part(s, 1, a)
        BY <2>2 DEF Part
    <2>4. \A x \in Part(s, a + 1, b) \cup Part(s, 1, a) : x \in Part(s, 1, b)
        BY <2>2 DEF Part
    <2> QED BY <2>3, <2>4
<1>19. DOMAIN kept = Part(s, 1, b)
    BY <1>2, <1>7, <1>11, <1>15, <1>18 DEF old
<1> QED BY <1>17, <1>19 DEF s, b

LEMMA ReturnedBy ==
    ASSUME ReadInv, Stepped, NEW v, Return(v), Answers(world, job, faults', v)
    PROVE  Preserved
<1>1. pc' = "done" /\ answer' = v
    BY DEF Return
<1>2. Answers(world', job', faults', answer')
    BY <1>1 DEF Stepped
<1>3. ReadInv'
    BY <1>1, Ended
<1> QED BY <1>2, <1>3 DEF Preserved

LEMMA AcquireExecutablesStep ==
    ASSUME ReadInv, AcquireExecutables
    PROVE  Preserved
<1>1. /\ pc = "executables" /\ job.op \in {"transaction", "simulation"} /\ Keep
      /\ RecordingSoFar(world, job, got)
    BY DEF AcquireExecutables, ReadInv, Stages
<1>2. IsWorld(world) /\ IsKeys(job.contracts)
    BY <1>1, Requested
<1>3. \A kept : /\ Recorded(kept).ok /\ Recorded(kept).kept = kept
                /\ Recorded(kept).snapshot = got.snapshot
    BY DEF Recorded
<1>4. ASSUME NEW kept, NEW f, DOMAIN kept = ToSet(job.contracts), Dated(world, kept)
      PROVE  Answers(world, job, f, Recorded(kept))
    <2> DEFINE v == Recorded(kept)
    <2>1. v.kept = kept /\ v.snapshot = got.snapshot
        BY <1>3
    <2> HIDE DEF v
    <2>2. RecordedIs(world, job, v)
        BY <1>1, <1>4, <2>1 DEF RecordedIs, RecordingSoFar
    <2>3. CapturedIs(world, job, f, v) /\ AssembledIs(world, job, v)
        BY <1>1 DEF CapturedIs, AssembledIs
    <2> QED BY <2>2, <2>3 DEF Answers, v
<1>5. CASE job.contracts = <<>>
    <2>1. Return(Recorded(<<>>)) /\ UNCHANGED faults
        BY <1>5 DEF AcquireExecutables
    <2>2. Stepped
        BY <1>1, <2>1, ReadsAssumption DEF Keep, Stepped, ReadInv
    <2>3. ToSet(job.contracts) = {} /\ DOMAIN <<>> = {}
        BY <1>5, ToSetSmall
    <2>4. Dated(world, <<>>)
        BY <2>3 DEF Dated
    <2>5. Answers(world, job, faults', Recorded(<<>>))
        BY <1>4, <2>3, <2>4
    <2> QED BY <2>1, <2>2, <2>5, ReturnedBy
<1>6. CASE job.contracts # <<>>
    <2>1. PICK l \in Ledgers, d \in EntryDefects \cup {"none"} :
              /\ Defect(d, EntryDefects)
              /\ \E keys \in {BatchOf(job.contracts, got.batch)} :
                 \E r \in {EntriesReply(world, l, keys, d)} :
                 \E e \in {parse_contract_executables(r, keys)}, kept \in {Observed(r, got.kept)} :
                 IF Failed(e) THEN Refuse(e, "executables")
                 ELSE IF got.batch * MAX_LEDGER_ENTRY_KEYS >= Len(job.contracts)
                 THEN Return(Recorded(kept))
                 ELSE Continue("executables", [got EXCEPT !.batch = @ + 1, !.kept = kept])
        BY <1>6 DEF AcquireExecutables
    <2> DEFINE keys == BatchOf(job.contracts, got.batch)
               r == EntriesReply(world, l, keys, d)
               e == parse_contract_executables(r, keys)
               kept == Observed(r, got.kept)
               g == [got EXCEPT !.batch = @ + 1, !.kept = kept]
               M == MAX_LEDGER_ENTRY_KEYS
               b == End(job.contracts, got.batch)
    <2>2. IF Failed(e) THEN Refuse(e, "executables")
          ELSE IF got.batch * M >= Len(job.contracts) THEN Return(Recorded(kept))
          ELSE Continue("executables", g)
        BY <2>1
    <2>3. Stepped
        BY <1>1, <2>1, Faulted
    <2>4. ASSUME ~Failed(e) PROVE DOMAIN kept = Part(job.contracts, 1, b) /\ Dated(world, kept)
        BY <1>1, <1>2, <1>6, <2>4, BatchRecorded
    <2>5. /\ got.batch \in Nat \ {0} /\ got.batch * M \in Nat
          /\ b = IF got.batch * M <= Len(job.contracts) THEN got.batch * M ELSE Len(job.contracts)
          /\ Start(got.batch + 1) = got.batch * M
        <3> DEFINE s == job.contracts
                   U == ToSet(s)
        <3>1. s \in Seq(U) /\ Len(s) \in Nat /\ Len(s) > 0
            BY <1>2, <1>6 DEF IsKeys
        <3>2. got.batch \in Nat \ {0} /\ Start(got.batch) < Len(s) /\ M \in Nat
            BY <1>1, <3>1, EndpointAssumption DEF RecordingSoFar
        <3>3. got.batch * M \in Nat
            <4> HIDE DEF M
            <4> QED BY <3>2
        <3> HIDE DEF s, U
        <3>4. /\ End(s, got.batch) = IF got.batch * M <= Len(s) THEN got.batch * M ELSE Len(s)
              /\ Start(got.batch + 1) = got.batch * M
            BY <3>1, <3>2, BatchKeys
        <3> QED BY <3>2, <3>3, <3>4 DEF s
    <2>6. \E n \in Nat : Len(job.contracts) = n /\ DOMAIN job.contracts = 1 .. n
        BY <1>2 DEF IsKeys
    <2>7. CASE Failed(e)
        <3>1. Refuse(e, "executables")
            BY <2>2, <2>7
        <3> QED BY <2>3, <3>1, RefusedBy DEF Preserved
    <2>8. CASE ~Failed(e) /\ got.batch * M >= Len(job.contracts)
        <3>1. Return(Recorded(kept))
            BY <2>2, <2>8
        <3>2. b = Len(job.contracts)
            BY <2>5, <2>6, <2>8
        <3>3. Part(job.contracts, 1, Len(job.contracts)) = ToSet(job.contracts)
            BY <2>6 DEF Part, ToSet
        <3>4. DOMAIN kept = ToSet(job.contracts) /\ Dated(world, kept)
            BY <2>4, <2>8, <3>2, <3>3
        <3> HIDE DEF kept
        <3>5. Answers(world, job, faults', Recorded(kept))
            BY <1>4, <3>4
        <3> QED BY <2>3, <3>1, <3>5, ReturnedBy
    <2>9. CASE ~Failed(e) /\ ~(got.batch * M >= Len(job.contracts))
        <3>1. Continue("executables", g)
            BY <2>2, <2>9
        <3> HIDE DEF kept
        <3>2. g.batch = got.batch + 1 /\ g.kept = kept /\ g.snapshot = got.snapshot
            OBVIOUS
        <3> HIDE DEF g
        <3>3. Start(g.batch) = got.batch * M
            BY <2>5, <3>2
        <3>4. b = got.batch * M /\ got.batch * M < Len(job.contracts)
            BY <2>5, <2>6, <2>9
        <3>5. DOMAIN g.kept = Part(job.contracts, 1, Start(g.batch)) /\ Dated(world, g.kept)
            BY <2>4, <2>9, <3>2, <3>3, <3>4
        <3>6. g.batch \in Nat \ {0}
            BY <2>5, <3>2
        <3>7. RecordingSoFar(world, job, g)
            BY <1>1, <3>2, <3>3, <3>4, <3>5, <3>6 DEF RecordingSoFar
        <3>8. Known("executables", g)
            BY <3>7 DEF Known
        <3>9. Stages'
            BY <1>1, <2>3, <3>1 DEF Continue, Stages, Stepped
        <3> QED BY <1>1, <2>3, <3>1, <3>8, <3>9, Advanced
    <2> QED BY <2>7, <2>8, <2>9
<1> QED BY <1>5, <1>6


(* The keys a native capture reads after an accepted simulation. *)
LEMMA FootprintIsNamed ==
    ASSUME NEW w, NEW l \in Ledgers, NEW how, NEW d, NEW sim, sim = SimulationReply(w, l, "native", how, d),
           ~Failed(capture_simulated(sim)), NEW g, g.ledger = sim.latest,
           g.ro = Append(sim.ro, "config"), g.rw = Chosen(sim.rw, ToSet(sim.rw) \ {"nonce"})
    PROVE  FootprintNamed(w, g)
<1>0. PICK v : v = EntryAt(w, l, "acct_instance").val
    OBVIOUS
<1> DEFINE ro == sim.ro
           rw == sim.rw
           base == ToSet(ReadOnly(w, l, "native"))
           W == Words(v)
           keys == g.ro \o g.rw
<1>1. /\ sim.latest = l /\ ro \in Seq(W) /\ rw \in Seq(W) /\ base \subseteq ToSet(ro)
      /\ ToSet(ro) \subseteq base \cup {"acct_store"}
      /\ ToSet(rw) = {"balance", "recipient", "nonce"}
    <2>1. TransferNamed(sim, w, l, v)
        BY <1>0, NativeSimulated
    <2> QED BY <2>1 DEF TransferNamed
<1>2. base = {"acct_instance", v, "sac_instance"}
    BY <1>0, ReadOnlyKeys
<1>3. "config" \in W
    BY DEF Words
<1>4. g.ro = Append(ro, "config") /\ g.rw = Chosen(rw, ToSet(rw) \ {"nonce"}) /\ g.ledger = l
    BY <1>1
<1>5. NativeKeys(w, l) = {"acct_instance", v, "sac_instance", "balance", "recipient", "config"}
    BY <1>0 DEF NativeKeys
<1> HIDE DEF ro, rw, base, W
<1>11. ro \in Seq(W) /\ rw \in Seq(W)
    BY <1>1
<1>6. ToSet(g.ro) = ToSet(ro) \cup {"config"} /\ g.ro \in Seq(W)
    <2>1. ToSet(Append(ro, "config")) = ToSet(ro) \cup {"config"} /\ Append(ro, "config") \in Seq(W)
        BY ONLY <1>3, <1>11, ToSetAppend
    <2> QED BY <1>4, <2>1
<1>7. ToSet(g.rw) = ToSet(rw) \cap (ToSet(rw) \ {"nonce"}) /\ g.rw \in Seq(W)
    <2> DEFINE C == ToSet(rw) \ {"nonce"}
    <2> HIDE DEF C
    <2>1. Chosen(rw, C) \in Seq(W) /\ ToSet(Chosen(rw, C)) = ToSet(rw) \cap C
        BY ONLY <1>11, ChosenAre
    <2> QED BY <1>4, <2>1 DEF C
<1>8. ToSet(keys) = ToSet(g.ro) \cup ToSet(g.rw) /\ keys \in Seq(W)
    BY <1>6, <1>7, ToSetConcat
<1>9. ToSet(g.rw) = {"balance", "recipient"}
    BY <1>1, <1>7
<1> HIDE DEF keys
<1>10. NativeNamed(w, l, ToSet(keys))
    BY <1>1, <1>2, <1>5, <1>6, <1>8, <1>9 DEF NativeNamed
<1> QED BY <1>4, <1>8, <1>10 DEF FootprintNamed, keys

LEMMA CaptureSimulateStep ==
    ASSUME ReadInv, CaptureSimulate
    PROVE  Preserved
<1>1. PICK l \in Ledgers, how \in {"preamble", "auto"}, d \in SimulationDefects \cup {"none"} :
          /\ Defect(d, SimulationDefects)
          /\ \E sim \in {SimulationReply(world, l, job.op, how, d)} :
             \E ro \in {Append(sim.ro, "config")}, rw \in {Chosen(sim.rw, ToSet(sim.rw) \ {"nonce"})} :
             \E e \in {FirstOf(<< <<Failed(capture_simulated(sim)), capture_simulated(sim)>>,
                                  <<Failed(footprint_checks(ro, rw)), Malformed>> >>)} :
             IF Failed(e)
             THEN /\ answer' = [ok |-> FALSE, code |-> e.code, text |-> e.text, at |-> "capture",
                                 ledger |-> sim.latest]
                  /\ pc' = "done" /\ UNCHANGED got
             ELSE Continue("footprint", [got EXCEPT !.ledger = sim.latest, !.ro = ro, !.rw = rw])
    BY DEF CaptureSimulate
<1> DEFINE sim == SimulationReply(world, l, job.op, how, d)
           ro == Append(sim.ro, "config")
           rw == Chosen(sim.rw, ToSet(sim.rw) \ {"nonce"})
           a == Failed(capture_simulated(sim))
           b == Failed(footprint_checks(ro, rw))
           e == FirstOf(<< <<a, capture_simulated(sim)>>, <<b, Malformed>> >>)
           g == [got EXCEPT !.ledger = sim.latest, !.ro = ro, !.rw = rw]
<1>2. IF Failed(e) THEN pc' = "done" /\ ~answer'.ok ELSE Continue("footprint", g)
    <2>1. PICK x : /\ IF Failed(e) THEN pc' = "done" /\ answer' = x ELSE Continue("footprint", g)
                   /\ ~x.ok
        <3>1. PICK s \in {sim} : \E u \in {Append(s.ro, "config")}, v \in {Chosen(s.rw, ToSet(s.rw) \ {"nonce"})} :
                  \E f \in {FirstOf(<< <<Failed(capture_simulated(s)), capture_simulated(s)>>,
                                       <<Failed(footprint_checks(u, v)), Malformed>> >>)} :
                  IF Failed(f)
                  THEN /\ answer' = [ok |-> FALSE, code |-> f.code, text |-> f.text, at |-> "capture",
                                      ledger |-> s.latest]
                       /\ pc' = "done" /\ UNCHANGED got
                  ELSE Continue("footprint", [got EXCEPT !.ledger = s.latest, !.ro = u, !.rw = v])
            BY <1>1
        <3> HIDE DEF sim
        <3>2. PICK u \in {ro}, v \in {rw} :
                  \E f \in {FirstOf(<< <<Failed(capture_simulated(sim)), capture_simulated(sim)>>,
                                       <<Failed(footprint_checks(u, v)), Malformed>> >>)} :
                  IF Failed(f)
                  THEN /\ answer' = [ok |-> FALSE, code |-> f.code, text |-> f.text, at |-> "capture",
                                      ledger |-> sim.latest]
                       /\ pc' = "done" /\ UNCHANGED got
                  ELSE Continue("footprint", [got EXCEPT !.ledger = sim.latest, !.ro = u, !.rw = v])
            BY <3>1
        <3> HIDE DEF ro, rw
        <3>3. PICK f \in {e} :
                  IF Failed(f)
                  THEN /\ answer' = [ok |-> FALSE, code |-> f.code, text |-> f.text, at |-> "capture",
                                      ledger |-> sim.latest]
                       /\ pc' = "done" /\ UNCHANGED got
                  ELSE Continue("footprint", g)
            BY <3>2
        <3> HIDE DEF e, g
        <3> DEFINE x == [ok |-> FALSE, code |-> f.code, text |-> f.text, at |-> "capture",
                         ledger |-> sim.latest]
        <3>4. ~x.ok
            OBVIOUS
        <3> HIDE DEF x
        <3>5. IF Failed(e) THEN pc' = "done" /\ answer' = x ELSE Continue("footprint", g)
            BY <3>3 DEF x
        <3> QED BY <3>4, <3>5
    <2> QED BY <2>1
<1>3. Stepped /\ pc = "capture" /\ job.op = "native"
    BY <1>1, Faulted DEF CaptureSimulate, ReadInv, Stages
<1>4. CASE Failed(e)
    BY <1>2, <1>3, <1>4, Refused DEF Preserved
<1>5. CASE ~Failed(e)
    <2>1. Continue("footprint", g)
        BY <1>2, <1>5
    <2>2. ~Failed(capture_simulated(sim))
        <3> DEFINE x == capture_simulated(sim)
        <3>1. a => Failed(x)
            OBVIOUS
        <3>2. ~Failed(FirstOf(<< <<a, x>>, <<b, Malformed>> >>))
            BY <1>5
        <3> HIDE DEF a, b, x
        <3>3. ~a
            BY <3>1, <3>2, First2, ErrorsFail
        <3> QED BY <3>3 DEF a
    <2>3. sim = SimulationReply(world, l, "native", how, d)
        BY <1>3
    <2>4. g.ledger = sim.latest /\ g.ro = ro /\ g.rw = rw
        <3> HIDE DEF sim
        <3> QED OBVIOUS
    <2> HIDE DEF g
    <2>5. FootprintNamed(world, g)
        BY <2>2, <2>3, <2>4, FootprintIsNamed
    <2>6. Known("footprint", g)
        BY <2>5 DEF Known
    <2>7. Stages'
        BY <1>3, <2>1 DEF Continue, Stages, Stepped
    <2> QED BY <1>3, <2>1, <2>6, <2>7, Advanced
<1> QED BY <1>4, <1>5

(* What is live at a ledger and does not expire in it is live in the next. *)
LEMMA LivesOn ==
    ASSUME NEW w, NEW l \in Nat, NEW k, IsWorld(w), EndpointAssumption, l # 0, ~Archived(w, l, k),
           LET e == EntryAt(w, l, k) IN ~(e.ttl # NoTtl /\ e.ttl <= l)
    PROVE  ~Archived(w, l + 1, k)
<1> DEFINE t == IF k = w.expiring THEN w.until ELSE Far
<1>1. CASE ~HasTtl(k)
    BY <1>1 DEF Archived
<1>2. CASE HasTtl(k)
    <2>1. EntryAt(w, l, k).ttl = t /\ EntryAt(w, l + 1, k).ttl = t
        BY <1>2 DEF EntryAt
    <2>2. t \in Nat
        BY DEF IsWorld, EndpointAssumption, Far
    <2>3. ~(t < l)
        BY <1>2, <2>1 DEF Archived
    <2>4. ~(t # 0 /\ t <= l)
        BY <2>1 DEF NoTtl
    <2> HIDE DEF t
    <2>5. ~(t < l + 1)
        BY <2>2, <2>3, <2>4
    <2> QED BY <2>1, <2>5 DEF Archived
<1> QED BY <1>1, <1>2

(* What a capture keeps of its footprint is alive in the next ledger too. *)
LEMMA FootprintIsHeld ==
    ASSUME NEW w, NEW l \in Ledgers, NEW keys, NEW U, keys \in Seq(U), NEW d, NEW r,
           r = EntriesReply(w, l, keys, d), IsWorld(w), ~Failed(parse_footprint(r, keys)),
           NEW at, SameLedger(r.latest, at), ~ExpiresAt(Entries(r.rows), at),
           NativeNamed(w, at, ToSet(keys)), NEW g, g.ledger = at, g.kept = Entries(r.rows)
    PROVE  FootprintHeld(w, g)
<1> DEFINE kept == Entries(r.rows)
<1>1. Faithful(r, w, l) /\ r.latest = l /\ Living(r) /\ {r.rows[i].key : i \in DOMAIN r.rows} = ToSet(keys)
    BY EndpointAssumption, FootprintAccepted
<1>2. DOMAIN kept = ToSet(keys)
    BY <1>1, KeptKeys
<1>3. at = l
    BY <1>1 DEF SameLedger
<1>4. l \in Nat /\ l # 0
    BY EndpointAssumption
<1>5. ASSUME NEW k \in DOMAIN kept \ {"unasked"}
      PROVE  Present(w, l, k) /\ kept[k] = EntryAt(w, l, k) /\ ~Archived(w, l + 1, k)
    <2>1. Present(w, l, k) /\ kept[k] = EntryAt(w, l, k) /\ ~Archived(w, l, k)
        BY <1>1, <1>5, KeptIsTrue
    <2>2. ~(kept[k].ttl # NoTtl /\ kept[k].ttl <= l)
        BY <1>3, <1>5 DEF ExpiresAt
    <2> HIDE DEF kept
    <2>3. ~Archived(w, l + 1, k)
        BY <1>4, <2>1, <2>2, EndpointAssumption, LivesOn
    <2> QED BY <2>1, <2>3
<1>6. g.kept = kept /\ g.ledger = l
    BY <1>3
<1> HIDE DEF kept
<1> QED BY <1>2, <1>3, <1>5, <1>6 DEF FootprintHeld

(* What a reader keeps of a faithful reply is a capture of its ledger. *)
LEMMA CaptureIsTrue ==
    ASSUME NEW w, NEW l, NEW r, NEW j, NEW f, NEW a, Faithful(r, w, l), r.latest = l,
           "unasked" \notin DOMAIN Entries(r.rows), a.kept = Entries(r.rows), a.ledger = l,
           j.op \in {"footprint", "target", "code", "data", "classic"},
           \A k \in DOMAIN Entries(r.rows) : Archived(w, l, k) <=> (j.op = "data" /\ k \in a.archived),
           j.op = "target" => a.runs = EntryAt(w, l, "t_instance").val,
           (j.op \in {"data", "classic"} /\ f = Faults) => \A k \in a.absent : ~Present(w, l, k)
    PROVE  Answers(w, j, f, a)
<1> DEFINE kept == Entries(r.rows)
<1>1. ASSUME NEW k \in DOMAIN kept
      PROVE  Present(w, l, k) /\ kept[k] = EntryAt(w, l, k)
    <2>1. k # "unasked"
        BY <1>1
    <2> QED BY <1>1, <2>1, KeptIsTrue
<1>2. RecordedIs(w, j, a) /\ AssembledIs(w, j, a)
    BY DEF RecordedIs, AssembledIs
<1>3. /\ a.kept = kept
      /\ \A k \in DOMAIN kept : Archived(w, l, k) <=> (j.op = "data" /\ k \in a.archived)
    OBVIOUS
<1> HIDE DEF kept
<1>4. CapturedIs(w, j, f, a)
    <2>1. ASSUME NEW k \in DOMAIN a.kept
          PROVE  /\ Present(w, a.ledger, k)
                 /\ a.kept[k] = EntryAt(w, a.ledger, k)
                 /\ Archived(w, IF j.op = "native" THEN a.ledger + 1 ELSE a.ledger, k)
                      <=> (j.op = "data" /\ k \in a.archived)
        BY <1>1, <1>3, <2>1
    <2>2. j.op # "native"
        OBVIOUS
    <2> QED BY <2>1, <2>2 DEF CapturedIs
<1> QED BY <1>2, <1>4 DEF Answers

(* The keys of a reply that lists no row under a key nobody asked for. *)
LEMMA KeptAsked ==
    ASSUME NEW K, NEW rows, \A i \in DOMAIN rows : rows[i].key \in K
    PROVE  DOMAIN Entries(rows) \subseteq K
<1>1. DOMAIN Entries(rows) = {rows[i].key : i \in DOMAIN rows}
    BY KeptKeys
<1> QED BY <1>1

LEMMA FootprintCaptured ==
    ASSUME NEW w, NEW l \in Ledgers, NEW keys, IsKeys(keys), NEW d, NEW r,
           r = EntriesReply(w, l, keys, d), IsWorld(w), ~Failed(parse_footprint(r, keys)),
           NEW j, j.op = "footprint", NEW f, NEW a, a.kept = Entries(r.rows), a.ledger = r.latest
    PROVE  Answers(w, j, f, a)
<1>1. keys \in Seq(ToSet(keys)) /\ "unasked" \notin ToSet(keys)
    BY DEF IsKeys
<1>2. /\ Faithful(r, w, l) /\ r.latest = l /\ Living(r)
      /\ {r.rows[i].key : i \in DOMAIN r.rows} = ToSet(keys)
    BY <1>1, EndpointAssumption, FootprintAccepted
<1>3. DOMAIN Entries(r.rows) = ToSet(keys)
    BY <1>2, KeptKeys
<1>4. ASSUME NEW k \in DOMAIN Entries(r.rows) PROVE ~Archived(w, l, k)
    <2>1. k # "unasked"
        BY <1>1, <1>3, <1>4
    <2> QED BY <1>2, <2>1, KeptIsTrue
<1> QED BY <1>1, <1>2, <1>3, <1>4, CaptureIsTrue

LEMMA KeysJoined ==
    ASSUME NEW p, NEW q, IsKeys(p), IsKeys(q)
    PROVE  IsKeys(p \o q)
<1> DEFINE P == ToSet(p)
           Q == ToSet(q)
           U == P \cup Q
<1>1. p \in Seq(P) /\ q \in Seq(Q) /\ "unasked" \notin U
    BY DEF IsKeys
<1> HIDE DEF P, Q
<1>2. p \in Seq(U) /\ q \in Seq(U)
    BY <1>1
<1> HIDE DEF U
<1>3. ToSet(p \o q) = P \cup Q /\ p \o q \in Seq(U)
    BY <1>2, ToSetConcat DEF P, Q
<1> QED BY <1>1, <1>3 DEF IsKeys, U

LEMMA NextAttemptStep ==
    ASSUME ReadInv, Stepped, pc = "footprint", job.op = "native", NextAttempt
    PROVE  Preserved
<1>1. CASE got.attempt < CAPTURE_ATTEMPTS
    <2> DEFINE g == [got EXCEPT !.attempt = @ + 1]
    <2>1. Continue("capture", g)
        BY <1>1 DEF NextAttempt
    <2> HIDE DEF g
    <2>2. Known("capture", g)
        BY DEF Known
    <2>3. Stages'
        BY <2>1 DEF Continue, Stages, Stepped
    <2> QED BY <2>1, <2>2, <2>3, Advanced
<1>2. CASE ~(got.attempt < CAPTURE_ATTEMPTS)
    <2>1. Refuse(Malformed, "footprint")
        BY <1>2 DEF NextAttempt
    <2> QED BY <2>1, RefusedBy DEF Preserved
<1> QED BY <1>1, <1>2

LEMMA ReadFootprintStep ==
    ASSUME ReadInv, ReadFootprint
    PROVE  Preserved
<1>1. PICK l \in Ledgers, d \in EntryDefects \cup {"none"} :
        /\ Defect(d, EntryDefects)
        /\ \E keys \in {IF job.op = "native" THEN got.ro \o got.rw ELSE job.envelope.ro \o job.envelope.rw} :
           \E r \in {EntriesReply(world, l, keys, d)} :
           \E e \in {parse_footprint(r, keys)} :
           IF job.op = "native" THEN CaptureFootprint(r, e)
           ELSE IF Failed(e) THEN Refuse(e, "footprint")
           ELSE Return([ok |-> TRUE, code |-> "none", text |-> "fixed", ledger |-> r.latest,
                        kept |-> Entries(r.rows), runs |-> "none"])
    BY DEF ReadFootprint
<1>2. PICK keys, r, e :
        /\ keys = IF job.op = "native" THEN got.ro \o got.rw ELSE job.envelope.ro \o job.envelope.rw
        /\ r = EntriesReply(world, l, keys, d) /\ e = parse_footprint(r, keys)
        /\ IF job.op = "native" THEN CaptureFootprint(r, e)
           ELSE IF Failed(e) THEN Refuse(e, "footprint")
           ELSE Return([ok |-> TRUE, code |-> "none", text |-> "fixed", ledger |-> r.latest,
                        kept |-> Entries(r.rows), runs |-> "none"])
    BY <1>1
<1>3. Stepped /\ pc = "footprint" /\ IsWorld(world) /\ job.op \in {"native", "footprint"}
    BY <1>1, Faulted, Requested DEF ReadFootprint, ReadInv, Stages
<1>4. CASE job.op = "native"
    <2>1. CaptureFootprint(r, e) /\ FootprintNamed(world, got) /\ keys = got.ro \o got.rw
        BY <1>2, <1>3, <1>4 DEF ReadInv
    <2>2. CASE \E x : Refuse(x, "footprint")
        BY <1>3, <2>2, RefusedBy DEF Preserved
    <2>3. CASE NextAttempt
        BY <1>3, <1>4, <2>3, NextAttemptStep
    <2>4. CASE /\ ~Failed(e) /\ SameLedger(r.latest, got.ledger) /\ ~ExpiresAt(Entries(r.rows), got.ledger)
               /\ Continue("header", [got EXCEPT !.kept = Entries(r.rows)])
        <3> DEFINE g == [got EXCEPT !.kept = Entries(r.rows)]
        <3>1. Continue("header", g)
            BY <2>4
        <3>2. g.ledger = got.ledger /\ g.kept = Entries(r.rows)
            OBVIOUS
        <3> HIDE DEF g
        <3>3. PICK U : keys \in Seq(U)
            BY <2>1 DEF FootprintNamed
        <3>4. NativeNamed(world, got.ledger, ToSet(keys))
            BY <2>1 DEF FootprintNamed
        <3>5. r = EntriesReply(world, l, keys, d) /\ ~Failed(parse_footprint(r, keys))
            BY <1>2, <2>4
        <3>6. FootprintHeld(world, g)
            BY <1>3, <2>4, <3>2, <3>3, <3>4, <3>5, FootprintIsHeld
        <3>7. Known("header", g)
            BY <3>6 DEF Known
        <3>8. Stages'
            BY <1>3, <1>4, <3>1 DEF Continue, Stages, Stepped
        <3> QED BY <1>3, <3>1, <3>7, <3>8, Advanced
    <2> QED BY <2>1, <2>2, <2>3, <2>4 DEF CaptureFootprint
<1>5. CASE job.op = "footprint" /\ Failed(e)
    <2>1. Refuse(e, "footprint")
        BY <1>2, <1>5
    <2> QED BY <1>3, <2>1, RefusedBy DEF Preserved
<1>6. CASE job.op = "footprint" /\ ~Failed(e)
    <2> DEFINE a == [ok |-> TRUE, code |-> "none", text |-> "fixed", ledger |-> r.latest,
                     kept |-> Entries(r.rows), runs |-> "none"]
    <2>1. Return(a)
        BY <1>2, <1>6
    <2>2. a.kept = Entries(r.rows) /\ a.ledger = r.latest
        OBVIOUS
    <2> HIDE DEF a
    <2>3. IsKeys(job.envelope.ro) /\ IsKeys(job.envelope.rw)
        BY <1>6, Requested
    <2>4. keys = job.envelope.ro \o job.envelope.rw /\ r = EntriesReply(world, l, keys, d)
          /\ ~Failed(parse_footprint(r, keys))
        BY <1>2, <1>6
    <2>5. IsKeys(keys)
        BY <2>3, <2>4, KeysJoined
    <2>6. Answers(world, job, faults', a)
        BY <1>3, <1>6, <2>2, <2>4, <2>5, FootprintCaptured
    <2> QED BY <1>3, <2>1, <2>6, ReturnedBy
<1> QED BY <1>3, <1>4, <1>5, <1>6

(* A footprint that partitions is the one the account's call has. *)
LEMMA PartitionIsTrue ==
    ASSUME NEW w, NEW g, FootprintHeld(w, g), ~Failed(partition(g.kept)), NEW v,
           v = EntryAt(w, g.ledger, "acct_instance").val
    PROVE  /\ IsCode(v) /\ g.kept["acct_instance"].val = v
           /\ DOMAIN g.kept = NativeKeys(w, g.ledger)
           /\ TargetOf(g.kept) = {"sac_instance", "balance", "recipient"}
<1> DEFINE kept == g.kept
           code == kept["acct_instance"].val
           a == kept["config"].val # "settings" \/ kept["config"].ttl # NoTtl
           b == ~IsCode(code) \/ code \notin DOMAIN kept
           c == "acct_store" \in DOMAIN kept
<1>1. ~Failed(FirstOf(<< <<a, Malformed>>, <<b, Malformed>>, <<c, Malformed>> >>))
    BY DEF partition
<1>2. ~a /\ ~b /\ ~c
    <2> HIDE DEF a, b, c
    <2> QED BY <1>1, First3, ErrorsFail
<1>3. IsCode(code) /\ "acct_store" \notin DOMAIN kept
    BY <1>2
<1>4. /\ NativeKeys(w, g.ledger) \subseteq DOMAIN kept
      /\ DOMAIN kept \subseteq NativeKeys(w, g.ledger) \cup {"acct_store"}
    BY DEF FootprintHeld, NativeNamed
<1>5. NativeKeys(w, g.ledger) = {"acct_instance", v, "sac_instance", "balance", "recipient", "config"}
    BY DEF NativeKeys
<1>6. DOMAIN kept = NativeKeys(w, g.ledger)
    BY <1>3, <1>4
<1>7. "acct_instance" \in DOMAIN kept
    BY <1>4, <1>5
<1>8. code = v
    BY <1>7 DEF FootprintHeld
<1> HIDE DEF kept, code
<1>9. TargetOf(kept) = DOMAIN kept \ {"config", "acct_instance", v}
    BY <1>8 DEF TargetOf, code
<1>10. v # "sac_instance" /\ v # "balance" /\ v # "recipient"
    BY <1>3, <1>8 DEF IsCode
<1>11. TargetOf(kept) = {"sac_instance", "balance", "recipient"}
    BY <1>5, <1>6, <1>9, <1>10
<1> QED BY <1>3, <1>6, <1>8, <1>11 DEF kept, code

(* The keys of the transfer itself. *)
LEMMA TransferKeys ==
    ASSUME NEW w, NEW l, NEW v, v = EntryAt(w, l, "acct_instance").val
    PROVE  ToSet(ReadOnly(w, l, "native") \o ReadWrite("native"))
               = {"acct_instance", v, "sac_instance", "balance", "recipient", "nonce"}
<1> DEFINE p == ReadOnly(w, l, "native")
           q == ReadWrite("native")
           W == Words(v)
<1>1. p \in Seq(W) /\ ToSet(p) = {"acct_instance", v, "sac_instance"}
    BY ReadOnlyKeys
<1>2. q \in Seq(W) /\ ToSet(q) = {"balance", "recipient", "nonce"}
    BY ReadWriteKeys
<1> HIDE DEF p, q, W
<1>3. ToSet(p \o q) = ToSet(p) \cup ToSet(q)
    BY <1>1, <1>2, ToSetConcat
<1> QED BY <1>1, <1>2, <1>3 DEF p, q

LEMMA NativeCaptured ==
    ASSUME NEW w, NEW g, FootprintHeld(w, g), ~Failed(partition(g.kept)),
           NEW j, j.op = "native", NEW f, NEW a, a.ledger = g.ledger,
           a.kept = [k \in TargetOf(g.kept) |-> g.kept[k]], a.runs = g.kept["acct_instance"].val
    PROVE  Answers(w, j, f, a)
<1>0. PICK v : v = EntryAt(w, g.ledger, "acct_instance").val
    OBVIOUS
<1>1. /\ IsCode(v) /\ g.kept["acct_instance"].val = v
      /\ DOMAIN g.kept = NativeKeys(w, g.ledger)
      /\ TargetOf(g.kept) = {"sac_instance", "balance", "recipient"}
    BY <1>0, PartitionIsTrue
<1>2. a.runs = v /\ DOMAIN a.kept = {"sac_instance", "balance", "recipient"}
    BY <1>1
<1>3. ToSet(ReadOnly(w, a.ledger, j.op) \o ReadWrite(j.op))
          = {"acct_instance", v, "sac_instance", "balance", "recipient", "nonce"}
    BY <1>0, TransferKeys
<1>4. DOMAIN a.kept = ToSet(ReadOnly(w, a.ledger, j.op) \o ReadWrite(j.op))
                        \ {"nonce", "acct_instance", a.runs}
    <2>1. v # "sac_instance" /\ v # "balance" /\ v # "recipient"
        BY <1>1 DEF IsCode
    <2> DEFINE T == ToSet(ReadOnly(w, a.ledger, j.op) \o ReadWrite(j.op))
    <2>2. T = {"acct_instance", v, "sac_instance", "balance", "recipient", "nonce"}
        BY <1>3
    <2> HIDE DEF T
    <2>3. DOMAIN a.kept = T \ {"nonce", "acct_instance", a.runs}
        BY <1>2, <2>1, <2>2
    <2> QED BY <2>3 DEF T
<1>5. ASSUME NEW k \in DOMAIN a.kept
      PROVE  /\ Present(w, a.ledger, k) /\ a.kept[k] = EntryAt(w, a.ledger, k)
             /\ ~Archived(w, a.ledger + 1, k)
    <2>1. k \in DOMAIN g.kept \ {"unasked"} /\ k \in TargetOf(g.kept)
        BY <1>1, <1>2, <1>5 DEF NativeKeys
    <2>2. a.kept[k] = g.kept[k]
        BY <2>1
    <2> QED BY <2>1, <2>2 DEF FootprintHeld
<1>6. CapturedIs(w, j, f, a)
    BY <1>0, <1>2, <1>4, <1>5 DEF CapturedIs
<1>7. RecordedIs(w, j, a) /\ AssembledIs(w, j, a)
    BY DEF RecordedIs, AssembledIs
<1> QED BY <1>6, <1>7 DEF Answers

LEMMA ReadHeaderStep ==
    ASSUME ReadInv, ReadHeader
    PROVE  Preserved
<1>1. PICK l \in Ledgers, d \in HeaderDefects \cup {"none"} :
        /\ Defect(d, HeaderDefects)
        /\ IF ~header_describes(HeaderReply(l, got.ledger, d)) \/ Failed(partition(got.kept))
           THEN Refuse(Malformed, "header")
           ELSE Return(Captured(got.kept))
    BY DEF ReadHeader
<1>2. Stepped /\ pc = "header" /\ job.op = "native" /\ FootprintHeld(world, got)
    BY <1>1, Faulted DEF ReadHeader, ReadInv, Stages
<1>3. CASE Refuse(Malformed, "header")
    BY <1>2, <1>3, RefusedBy DEF Preserved
<1>4. CASE ~Failed(partition(got.kept)) /\ Return(Captured(got.kept))
    <2> DEFINE a == Captured(got.kept)
    <2>1. /\ a.ledger = got.ledger /\ a.kept = [k \in TargetOf(got.kept) |-> got.kept[k]]
          /\ a.runs = got.kept["acct_instance"].val
        BY DEF Captured
    <2>2. Return(a)
        BY <1>4
    <2> HIDE DEF a
    <2>3. Answers(world, job, faults', a)
        BY <1>2, <1>4, <2>1, NativeCaptured
    <2> QED BY <1>2, <2>2, <2>3, ReturnedBy
<1> QED BY <1>1, <1>3, <1>4

LEMMA ReadInstanceStep ==
    ASSUME ReadInv, ReadInstance
    PROVE  Preserved
<1>1. PICK d, e, g : /\ Defect(d, EntryDefects)
                     /\ Refuse(e, "instance") \/ Continue("code", g)
    BY DEF ReadInstance
<1>2. Stepped /\ pc = "instance" /\ job.op = "target"
    BY <1>1, Faulted DEF ReadInstance, ReadInv, Stages
<1>3. CASE Refuse(e, "instance")
    BY <1>2, <1>3, RefusedBy DEF Preserved
<1>4. CASE Continue("code", g)
    <2>1. Known("code", g)
        BY DEF Known
    <2>2. Stages'
        BY <1>2, <1>4 DEF Continue, Stages, Stepped
    <2> QED BY <1>2, <1>4, <2>1, <2>2, Advanced
<1> QED BY <1>1, <1>3, <1>4

LEMMA ReadCodeStep ==
    ASSUME ReadInv, ReadCode
    PROVE  Preserved
<1>1. PICK d, e, g : /\ Defect(d, EntryDefects)
                     /\ Refuse(e, "code") \/ Continue("selected", g)
    BY DEF ReadCode
<1>2. Stepped /\ pc = "code" /\ job.op = "target"
    BY <1>1, Faulted DEF ReadCode, ReadInv, Stages
<1>3. CASE Refuse(e, "code")
    BY <1>2, <1>3, RefusedBy DEF Preserved
<1>4. CASE Continue("selected", g)
    <2>1. Known("selected", g)
        BY DEF Known
    <2>2. Stages'
        BY <1>2, <1>4 DEF Continue, Stages, Stepped
    <2> QED BY <1>2, <1>4, <2>1, <2>2, Advanced
<1> QED BY <1>1, <1>3, <1>4

LEMMA TargetCaptured ==
    ASSUME NEW w, NEW l \in Ledgers, NEW s, IsKeys(s), NEW code, NEW keys,
           keys = <<"t_instance", code>> \o s, NEW d, NEW r, r = EntriesReply(w, l, keys, d), IsWorld(w),
           NEW seen, ~Failed(parse_target_capture(r, keys, code, seen)),
           NEW j, j.op = "target", NEW f, NEW a, a.kept = Entries(r.rows), a.ledger = r.latest,
           a.runs = code
    PROVE  Answers(w, j, f, a)
<1> DEFINE p == <<"t_instance", code>>
           U == {"t_instance", code} \cup ToSet(s)
<1>1. p \in Seq(U) /\ s \in Seq(ToSet(s)) /\ ToSet(p) = {"t_instance", code}
    BY ToSetSmall DEF IsKeys
<1>2. s \in Seq(U)
    <2> DEFINE T == ToSet(s)
    <2>1. s \in Seq(T) /\ T \subseteq U
        BY <1>1
    <2> HIDE DEF T, U
    <2> QED BY <2>1
<1>3. keys = p \o s
    OBVIOUS
<1> HIDE DEF p
<1>4. keys \in Seq(U) /\ ToSet(keys) = {"t_instance", code} \cup ToSet(s)
    <2>1. p \in Seq(U) /\ s \in Seq(U)
        BY <1>1, <1>2
    <2> HIDE DEF U
    <2>2. ToSet(p \o s) = ToSet(p) \cup ToSet(s) /\ p \o s \in Seq(U)
        BY <2>1, ToSetConcat
    <2> QED BY <1>1, <1>3, <2>2
<1> HIDE DEF U
<1>5. /\ Faithful(r, w, l) /\ r.latest = l /\ Living(r)
      /\ \A i \in DOMAIN r.rows : r.rows[i].key \in ToSet(keys)
      /\ IsCode(code) /\ EntryAt(w, l, "t_instance").val = code
    <2>1. /\ keys \in Seq(U) /\ r = EntriesReply(w, l, keys, d) /\ IsWorld(w) /\ l \in Ledgers
          /\ ~Failed(parse_target_capture(r, keys, code, seen))
        BY <1>4
    <2> QED BY ONLY <2>1, EndpointAssumption, TargetAccepted
<1>6. "unasked" \notin ToSet(keys)
    BY <1>4, <1>5 DEF IsKeys, IsCode
<1>7. DOMAIN Entries(r.rows) \subseteq ToSet(keys)
    BY <1>5, KeptAsked
<1>8. ASSUME NEW k \in DOMAIN Entries(r.rows) PROVE ~Archived(w, l, k)
    <2>1. k # "unasked"
        BY <1>6, <1>7, <1>8
    <2> QED BY <1>5, <2>1, KeptIsTrue
<1>9. "unasked" \notin DOMAIN Entries(r.rows)
    BY <1>6, <1>7
<1> QED BY <1>5, <1>8, <1>9, CaptureIsTrue

LEMMA CodesCaptured ==
    ASSUME NEW w, NEW l \in Ledgers, NEW keys, IsKeys(keys), NEW d, NEW r,
           r = EntriesReply(w, l, keys, d), IsWorld(w), ~Failed(parse_contract_wasm_hashes(r, keys)),
           NEW j, j.op = "code", NEW f, NEW a, a.kept = Entries(r.rows), a.ledger = r.latest
    PROVE  Answers(w, j, f, a)
<1>1. keys \in Seq(ToSet(keys)) /\ "unasked" \notin ToSet(keys)
    BY DEF IsKeys
<1>2. ~Failed(parse_contract_executables(r, keys)) /\ r.latest # 0
    BY CodesAccepted
<1>3. /\ Faithful(r, w, l) /\ Living(r)
      /\ \A i \in DOMAIN r.rows : r.rows[i].key \in ToSet(keys)
    BY <1>1, <1>2, EndpointAssumption, ExecutablesAccepted
<1>4. r.latest \in {0, l}
    BY <1>1, RepliesAre
<1>5. r.latest = l
    BY <1>2, <1>4
<1>6. DOMAIN Entries(r.rows) \subseteq ToSet(keys)
    BY <1>3, KeptAsked
<1>7. ASSUME NEW k \in DOMAIN Entries(r.rows) PROVE ~Archived(w, l, k)
    <2>1. k # "unasked"
        BY <1>1, <1>6, <1>7
    <2> QED BY <1>3, <2>1, KeptIsTrue
<1>8. "unasked" \notin DOMAIN Entries(r.rows)
    BY <1>1, <1>6
<1> QED BY <1>3, <1>5, <1>7, <1>8, CaptureIsTrue

(* What a reply without a defect leaves out is not there. *)
LEMMA LeftOut ==
    ASSUME NEW w, NEW l, NEW keys, NEW U, keys \in Seq(U), NEW r,
           r = EntriesReply(w, l, keys, "none")
    PROVE  \A k \in ToSet(keys) \ DOMAIN Entries(r.rows) : ~Present(w, l, k)
<1>1. {r.rows[i].key : i \in DOMAIN r.rows} = {k \in ToSet(keys) : Present(w, l, k)}
    BY RepliesAre
<1>2. DOMAIN Entries(r.rows) = {k \in ToSet(keys) : Present(w, l, k)}
    BY <1>1, KeptKeys
<1> QED BY <1>2

(* The archived rows of a faithful reply are the archived entries. *)
ArchivedIn(r) ==
    {row.key : row \in {x \in ToSet(r.rows) : returned_status(x, r.latest) = "Archived"}}

LEMMA ArchivedRows ==
    ASSUME NEW w, NEW l, NEW r, Faithful(r, w, l), r.latest = l,
           NEW k \in DOMAIN Entries(r.rows), k # "unasked"
    PROVE  Archived(w, l, k) <=> k \in ArchivedIn(r)
<1> DEFINE rows == r.rows
           dead == {x \in ToSet(rows) : returned_status(x, r.latest) = "Archived"}
<1>1. \A x : returned_status(x, r.latest) = "Archived" <=> Dead(x, r.latest)
    BY DEF returned_status
<1>2. \A x : x \in dead <=> \E i \in DOMAIN rows : x = rows[i] /\ Dead(x, r.latest)
    BY <1>1 DEF ToSet
<1>3. \A i \in DOMAIN rows : rows[i].key # "unasked" =>
          (Dead(rows[i], r.latest) <=> Archived(w, l, rows[i].key))
    BY DEF Faithful
<1>4. \E i \in DOMAIN rows : rows[i].key = k
    <2>1. DOMAIN Entries(rows) = {rows[i].key : i \in DOMAIN rows} /\ k \in DOMAIN Entries(rows)
        BY KeptKeys
    <2> QED BY <2>1
<1> HIDE DEF rows, dead
<1>5. Archived(w, l, k) <=> \E x \in dead : x.key = k
    BY <1>2, <1>3, <1>4
<1>6. Archived(w, l, k) <=> k \in {x.key : x \in dead}
    BY <1>5
<1> QED BY <1>6 DEF rows, dead, ArchivedIn

LEMMA DataCaptured ==
    ASSUME NEW w, NEW l \in Ledgers, NEW keys, IsKeys(keys), NEW d, NEW r,
           r = EntriesReply(w, l, keys, d), IsWorld(w), ~Failed(parse_contract_data(r, keys)),
           NEW j, j.op = "data", NEW f, d # "none" => f # Faults,
           NEW a, a.kept = Entries(r.rows), a.ledger = r.latest,
           a.archived = ArchivedIn(r),
           a.absent = ToSet(keys) \ DOMAIN Entries(r.rows)
    PROVE  Answers(w, j, f, a)
<1>1. keys \in Seq(ToSet(keys)) /\ "unasked" \notin ToSet(keys)
    BY DEF IsKeys
<1>2. /\ Faithful(r, w, l) /\ r.latest = l
      /\ \A i \in DOMAIN r.rows : r.rows[i].key \in ToSet(keys)
    BY <1>1, EndpointAssumption, DataAccepted
<1>4. DOMAIN Entries(r.rows) \subseteq ToSet(keys)
    BY <1>2, KeptAsked
<1>5. ASSUME NEW k \in DOMAIN Entries(r.rows) PROVE Archived(w, l, k) <=> k \in a.archived
    <2>1. k # "unasked"
        BY <1>1, <1>4, <1>5
    <2>2. Archived(w, l, k) <=> k \in ArchivedIn(r)
        BY <1>2, <2>1, ArchivedRows
    <2> QED BY <2>2
<1>6. "unasked" \notin DOMAIN Entries(r.rows)
    BY <1>1, <1>4
<1>7. f = Faults => \A k \in a.absent : ~Present(w, l, k)
    <2> SUFFICES ASSUME d = "none" PROVE \A k \in a.absent : ~Present(w, l, k)
        OBVIOUS
    <2>1. r = EntriesReply(w, l, keys, "none")
        OBVIOUS
    <2>2. \A k \in ToSet(keys) \ DOMAIN Entries(r.rows) : ~Present(w, l, k)
        BY <1>1, <2>1, LeftOut
    <2> QED BY <2>2
<1> QED BY <1>2, <1>5, <1>6, <1>7, CaptureIsTrue

LEMMA ClassicsCaptured ==
    ASSUME NEW w, NEW l \in Ledgers, NEW keys, IsKeys(keys), \A k \in ToSet(keys) : ~HasTtl(k),
           NEW d, NEW r, r = EntriesReply(w, l, keys, d), IsWorld(w),
           ~Failed(parse_classic_accounts(r, keys)),
           NEW j, j.op = "classic", NEW f, d # "none" => f # Faults,
           NEW a, a.kept = Entries(r.rows), a.ledger = r.latest,
           a.absent = ToSet(keys) \ DOMAIN Entries(r.rows)
    PROVE  Answers(w, j, f, a)
<1>1. keys \in Seq(ToSet(keys)) /\ "unasked" \notin ToSet(keys)
    BY DEF IsKeys
<1>2. /\ Faithful(r, w, l) /\ r.latest = l
      /\ \A i \in DOMAIN r.rows : r.rows[i].key \in ToSet(keys)
    BY <1>1, EndpointAssumption, ClassicAccepted
<1>4. DOMAIN Entries(r.rows) \subseteq ToSet(keys)
    BY <1>2, KeptAsked
<1>5. \A k \in DOMAIN Entries(r.rows) : ~Archived(w, l, k)
    BY <1>4 DEF Archived
<1>6. "unasked" \notin DOMAIN Entries(r.rows)
    BY <1>1, <1>4
<1>7. f = Faults => \A k \in a.absent : ~Present(w, l, k)
    <2> SUFFICES ASSUME d = "none" PROVE \A k \in a.absent : ~Present(w, l, k)
        OBVIOUS
    <2>1. r = EntriesReply(w, l, keys, "none")
        OBVIOUS
    <2>2. \A k \in ToSet(keys) \ DOMAIN Entries(r.rows) : ~Present(w, l, k)
        BY <1>1, <2>1, LeftOut
    <2> QED BY <2>2
<1> QED BY <1>2, <1>5, <1>6, <1>7, CaptureIsTrue

LEMMA ReadSelectedStep ==
    ASSUME ReadInv, ReadSelected
    PROVE  Preserved
<1>1. PICK l \in Ledgers, d \in EntryDefects \cup {"none"} :
        /\ Defect(d, EntryDefects)
        /\ \E keys \in {<<"t_instance", got.code>> \o job.selected} :
           \E r \in {EntriesReply(world, l, keys, d)} :
           \E e \in {parse_target_capture(r, keys, got.code, got.seen)} :
           IF Failed(e) THEN Refuse(e, "selected")
           ELSE Return([ok |-> TRUE, code |-> "none", text |-> "fixed", ledger |-> r.latest,
                        kept |-> Entries(r.rows), runs |-> got.code])
    BY DEF ReadSelected
<1>2. PICK keys, r, e :
        /\ keys = <<"t_instance", got.code>> \o job.selected
        /\ r = EntriesReply(world, l, keys, d) /\ e = parse_target_capture(r, keys, got.code, got.seen)
        /\ IF Failed(e) THEN Refuse(e, "selected")
           ELSE Return([ok |-> TRUE, code |-> "none", text |-> "fixed", ledger |-> r.latest,
                        kept |-> Entries(r.rows), runs |-> got.code])
    BY <1>1
<1>3. Stepped /\ IsWorld(world) /\ job.op = "target"
    BY <1>1, Faulted, Requested DEF ReadSelected, ReadInv, Stages
<1>4. CASE Failed(e)
    BY <1>2, <1>3, <1>4, RefusedBy DEF Preserved
<1>5. CASE ~Failed(e)
    <2> DEFINE a == [ok |-> TRUE, code |-> "none", text |-> "fixed", ledger |-> r.latest,
                     kept |-> Entries(r.rows), runs |-> got.code]
    <2>1. Return(a)
        BY <1>2, <1>5
    <2>2. a.kept = Entries(r.rows) /\ a.ledger = r.latest /\ a.runs = got.code
        OBVIOUS
    <2> HIDE DEF a
    <2>3. IsKeys(job.selected) /\ ~Failed(parse_target_capture(r, keys, got.code, got.seen))
        BY <1>2, <1>3, <1>5, Requested
    <2>4. keys = <<"t_instance", got.code>> \o job.selected /\ r = EntriesReply(world, l, keys, d)
        BY <1>2
    <2>5. Answers(world, job, faults', a)
        BY <1>3, <2>2, <2>3, <2>4, TargetCaptured
    <2> QED BY <1>3, <2>1, <2>5, ReturnedBy
<1> QED BY <1>4, <1>5

LEMMA ReadCodesStep ==
    ASSUME ReadInv, ReadCodes
    PROVE  Preserved
<1>1. PICK l \in Ledgers, d \in EntryDefects \cup {"none"} :
        /\ Defect(d, EntryDefects)
        /\ \E r \in {EntriesReply(world, l, job.contracts, d)} :
           \E e \in {parse_contract_wasm_hashes(r, job.contracts)} :
           IF Failed(e) THEN Refuse(e, "codes")
           ELSE Return([ok |-> TRUE, code |-> "none", text |-> "fixed", ledger |-> r.latest,
                        kept |-> Entries(r.rows), runs |-> "none"])
    BY DEF ReadCodes
<1>2. PICK r, e :
        /\ r = EntriesReply(world, l, job.contracts, d) /\ e = parse_contract_wasm_hashes(r, job.contracts)
        /\ IF Failed(e) THEN Refuse(e, "codes")
           ELSE Return([ok |-> TRUE, code |-> "none", text |-> "fixed", ledger |-> r.latest,
                        kept |-> Entries(r.rows), runs |-> "none"])
    BY <1>1
<1>3. Stepped /\ IsWorld(world) /\ job.op = "code"
    BY <1>1, Faulted, Requested DEF ReadCodes, ReadInv, Stages
<1>4. CASE Failed(e)
    BY <1>2, <1>3, <1>4, RefusedBy DEF Preserved
<1>5. CASE ~Failed(e)
    <2> DEFINE a == [ok |-> TRUE, code |-> "none", text |-> "fixed", ledger |-> r.latest,
                     kept |-> Entries(r.rows), runs |-> "none"]
    <2>1. Return(a)
        BY <1>2, <1>5
    <2>2. a.kept = Entries(r.rows) /\ a.ledger = r.latest
        OBVIOUS
    <2> HIDE DEF a
    <2>3. IsKeys(job.contracts) /\ ~Failed(parse_contract_wasm_hashes(r, job.contracts))
        BY <1>2, <1>3, <1>5, Requested
    <2>4. Answers(world, job, faults', a)
        BY <1>2, <1>3, <2>2, <2>3, CodesCaptured
    <2> QED BY <1>3, <2>1, <2>4, ReturnedBy
<1> QED BY <1>4, <1>5

LEMMA ReadContractDataStep ==
    ASSUME ReadInv, ReadContractData
    PROVE  Preserved
<1>1. PICK l \in Ledgers, d \in EntryDefects \cup {"none"} :
        /\ Defect(d, EntryDefects)
        /\ \E r \in {EntriesReply(world, l, job.keys, d)} :
           \E e \in {parse_contract_data(r, job.keys)} :
           IF Failed(e) THEN Refuse(e, "data")
           ELSE Return([ok |-> TRUE, code |-> "none", text |-> "fixed", ledger |-> r.latest,
                        kept |-> Entries(r.rows), runs |-> "none", archived |-> ArchivedIn(r),
                        absent |-> ToSet(job.keys) \ DOMAIN Entries(r.rows)])
    BY DEF ReadContractData, ArchivedIn
<1>2. PICK r, e :
        /\ r = EntriesReply(world, l, job.keys, d) /\ e = parse_contract_data(r, job.keys)
        /\ IF Failed(e) THEN Refuse(e, "data")
           ELSE Return([ok |-> TRUE, code |-> "none", text |-> "fixed", ledger |-> r.latest,
                        kept |-> Entries(r.rows), runs |-> "none", archived |-> ArchivedIn(r),
                        absent |-> ToSet(job.keys) \ DOMAIN Entries(r.rows)])
    BY <1>1
<1>3. Stepped /\ IsWorld(world) /\ job.op = "data" /\ (d # "none" => faults' # Faults)
    BY <1>1, Faulted, Requested DEF ReadContractData, ReadInv, Stages
<1>4. CASE Failed(e)
    BY <1>2, <1>3, <1>4, RefusedBy DEF Preserved
<1>5. CASE ~Failed(e)
    <2> DEFINE a == [ok |-> TRUE, code |-> "none", text |-> "fixed", ledger |-> r.latest,
                     kept |-> Entries(r.rows), runs |-> "none", archived |-> ArchivedIn(r),
                     absent |-> ToSet(job.keys) \ DOMAIN Entries(r.rows)]
    <2>1. Return(a)
        BY <1>2, <1>5
    <2>2. /\ a.kept = Entries(r.rows) /\ a.ledger = r.latest /\ a.archived = ArchivedIn(r)
          /\ a.absent = ToSet(job.keys) \ DOMAIN Entries(r.rows)
        OBVIOUS
    <2> HIDE DEF a
    <2>3. IsKeys(job.keys) /\ ~Failed(parse_contract_data(r, job.keys))
        BY <1>2, <1>3, <1>5, Requested
    <2>4. Answers(world, job, faults', a)
        BY <1>2, <1>3, <2>2, <2>3, DataCaptured
    <2> QED BY <1>3, <2>1, <2>4, ReturnedBy
<1> QED BY <1>4, <1>5

LEMMA ReadClassicsStep ==
    ASSUME ReadInv, ReadClassics
    PROVE  Preserved
<1>1. PICK l \in Ledgers, d \in EntryDefects \cup {"none"} :
        /\ Defect(d, EntryDefects)
        /\ \E r \in {EntriesReply(world, l, job.accounts, d)} :
           \E e \in {parse_classic_accounts(r, job.accounts)} :
           IF Failed(e) THEN Refuse(e, "classics")
           ELSE Return([ok |-> TRUE, code |-> "none", text |-> "fixed", ledger |-> r.latest,
                        kept |-> Entries(r.rows), runs |-> "none",
                        absent |-> ToSet(job.accounts) \ DOMAIN Entries(r.rows)])
    BY DEF ReadClassics
<1>2. PICK r, e :
        /\ r = EntriesReply(world, l, job.accounts, d) /\ e = parse_classic_accounts(r, job.accounts)
        /\ IF Failed(e) THEN Refuse(e, "classics")
           ELSE Return([ok |-> TRUE, code |-> "none", text |-> "fixed", ledger |-> r.latest,
                        kept |-> Entries(r.rows), runs |-> "none",
                        absent |-> ToSet(job.accounts) \ DOMAIN Entries(r.rows)])
    BY <1>1
<1>3. Stepped /\ IsWorld(world) /\ job.op = "classic" /\ (d # "none" => faults' # Faults)
    BY <1>1, Faulted, Requested DEF ReadClassics, ReadInv, Stages
<1>4. CASE Failed(e)
    BY <1>2, <1>3, <1>4, RefusedBy DEF Preserved
<1>5. CASE ~Failed(e)
    <2> DEFINE a == [ok |-> TRUE, code |-> "none", text |-> "fixed", ledger |-> r.latest,
                     kept |-> Entries(r.rows), runs |-> "none",
                     absent |-> ToSet(job.accounts) \ DOMAIN Entries(r.rows)]
    <2>1. Return(a)
        BY <1>2, <1>5
    <2>2. /\ a.kept = Entries(r.rows) /\ a.ledger = r.latest
          /\ a.absent = ToSet(job.accounts) \ DOMAIN Entries(r.rows)
        OBVIOUS
    <2> HIDE DEF a
    <2>3. /\ IsKeys(job.accounts) /\ ~Failed(parse_classic_accounts(r, job.accounts))
          /\ \A k \in ToSet(job.accounts) : ~HasTtl(k)
        BY <1>2, <1>3, <1>5, Requested
    <2>4. Answers(world, job, faults', a)
        BY <1>2, <1>3, <2>2, <2>3, ClassicsCaptured
    <2> QED BY <1>3, <2>1, <2>4, ReturnedBy
<1> QED BY <1>4, <1>5

LEMMA LedgerNumbers == \A l \in Ledgers : l \in Nat /\ l # 0
BY EndpointAssumption

LEMMA ReadSequenceStep ==
    ASSUME ReadInv, ReadSequence
    PROVE  Preserved
<1>1. PICK l \in Ledgers, d \in EntryDefects \cup {"none"} :
        /\ Defect(d, EntryDefects)
        /\ \E r \in {EntriesReply(world, l, <<"payer">>, d)} :
           \E e \in {sequence_read(r, job)} :
           IF Failed(e) THEN Refuse(e, "sequence")
           ELSE Continue("fees", [got EXCEPT !.seq = SequenceOf(Only(r).val), !.ledger = r.latest,
                                             !.cap = r.latest + job.validity])
    BY DEF ReadSequence
<1>2. PICK r, e :
        /\ r = EntriesReply(world, l, <<"payer">>, d) /\ e = sequence_read(r, job)
        /\ IF Failed(e) THEN Refuse(e, "sequence")
           ELSE Continue("fees", [got EXCEPT !.seq = SequenceOf(Only(r).val), !.ledger = r.latest,
                                             !.cap = r.latest + job.validity])
    BY <1>1
<1>3. Stepped /\ pc = "sequence" /\ job.op = "assembly" /\ job.validity \in Nat
    BY <1>1, Faulted, Requested DEF ReadSequence, ReadInv, Stages
<1>4. CASE Failed(e)
    BY <1>2, <1>3, <1>4, RefusedBy DEF Preserved
<1>5. CASE ~Failed(e)
    <2> DEFINE g == [got EXCEPT !.seq = SequenceOf(Only(r).val), !.ledger = r.latest,
                                !.cap = r.latest + job.validity]
    <2>1. Continue("fees", g)
        BY <1>2, <1>5
    <2>2. /\ g.seq = SequenceOf(Only(r).val) /\ g.ledger = r.latest /\ g.cap = r.latest + job.validity
        OBVIOUS
    <2> HIDE DEF g
    <2>3. /\ r.latest = l /\ l + job.validity <= MAX_U32
          /\ Only(r).val = EntryAt(world, l, "payer").val
        <3>1. r = EntriesReply(world, l, <<"payer">>, d) /\ ~Failed(sequence_read(r, job))
            BY <1>2, <1>5
        <3> QED BY <1>3, <3>1, EndpointAssumption, SequenceAccepted
    <2>4. SequenceHeld(world, job, g)
        BY <2>2, <2>3 DEF SequenceHeld
    <2>5. Known("fees", g)
        BY <2>4 DEF Known
    <2>6. Stages'
        BY <1>3, <2>1 DEF Continue, Stages, Stepped
    <2> QED BY <1>3, <2>1, <2>5, <2>6, Advanced
<1> QED BY <1>4, <1>5

LEMMA ReadFeesStep ==
    ASSUME ReadInv, ReadFees
    PROVE  Preserved
<1>1. PICK l \in Ledgers, p90 \in {50, 200}, d \in {"none", "zero", "decimal"} :
        /\ Defect(d, {"zero", "decimal"})
        /\ \E r \in {FeeReply(l, p90, d)} :
           \E e \in {fee_read(r, got.ledger, job)} :
           IF Failed(e) THEN Refuse(e, "fees")
           ELSE Continue("install", [got EXCEPT !.seen = r.latest, !.fee = InclusionFee(r)])
    BY DEF ReadFees
<1>2. PICK r, e :
        /\ r = FeeReply(l, p90, d) /\ e = fee_read(r, got.ledger, job)
        /\ IF Failed(e) THEN Refuse(e, "fees")
           ELSE Continue("install", [got EXCEPT !.seen = r.latest, !.fee = InclusionFee(r)])
    BY <1>1
<1>3. Stepped /\ pc = "fees" /\ job.op = "assembly" /\ SequenceHeld(world, job, got)
    BY <1>1, Faulted DEF ReadFees, ReadInv, Stages
<1>4. CASE Failed(e)
    BY <1>2, <1>3, <1>4, RefusedBy DEF Preserved
<1>5. CASE ~Failed(e)
    <2> DEFINE g == [got EXCEPT !.seen = r.latest, !.fee = InclusionFee(r)]
    <2>1. Continue("install", g)
        BY <1>2, <1>5
    <2>2. /\ g.seen = r.latest /\ g.fee = InclusionFee(r) /\ g.ledger = got.ledger
          /\ g.cap = got.cap /\ g.seq = got.seq
        OBVIOUS
    <2> HIDE DEF g
    <2>3. /\ r.latest \in Nat /\ r.latest >= got.ledger
          /\ InclusionFee(r) \in Nat /\ InclusionFee(r) >= MIN_INCLUSION_FEE
        <3>1. r = FeeReply(l, p90, d) /\ ~Failed(fee_read(r, got.ledger, job))
            BY <1>2, <1>5
        <3>2. r.p90 \in Nat
            BY <3>1 DEF FeeReply
        <3>3. l \in Nat
            BY LedgerNumbers
        <3>4. r.latest \in Nat
            BY <3>1, <3>3 DEF FeeReply
        <3>5. ~Failed(fee_read(r, got.ledger, job))
            BY <3>1
        <3> QED BY <3>2, <3>4, <3>5, FeeAccepted
    <2>4. SequenceHeld(world, job, g)
        BY <1>3, <2>2 DEF SequenceHeld
    <2>5. FeeHeld(g)
        BY <2>2, <2>3 DEF FeeHeld
    <2>6. Known("install", g)
        BY <2>4, <2>5 DEF Known
    <2>7. Stages'
        BY <1>3, <2>1 DEF Continue, Stages, Stepped
    <2> QED BY <1>3, <2>1, <2>6, <2>7, Advanced
<1> QED BY <1>4, <1>5

(* What a transaction restores is what its call finds archived. *)
LEMMA CallIsLive ==
    ASSUME NEW w, NEW l, NEW op
    PROVE  CallArchived(w, l, op) = {}
             <=> \A k \in ToSet(ReadOnly(w, l, op) \o ReadWrite(op)) : ~Archived(w, l, k)
<1>0. PICK v : v = EntryAt(w, l, "acct_instance").val
    OBVIOUS
<1> DEFINE p == ReadOnly(w, l, op)
           q == ReadWrite(op)
           W == Words(v)
<1>1. p \in Seq(W)
    BY <1>0, ReadOnlyKeys
<1>2. q \in Seq(W)
    BY ReadWriteKeys
<1>3. CallArchived(w, l, op) = {k \in ToSet(p) \cup ToSet(q) : Archived(w, l, k)}
    BY DEF CallArchived
<1> HIDE DEF p, q, W
<1>4. ToSet(p \o q) = ToSet(p) \cup ToSet(q)
    BY <1>1, <1>2, ToSetConcat
<1>5. CallArchived(w, l, op) = {} <=> \A k \in ToSet(p \o q) : ~Archived(w, l, k)
    BY <1>3, <1>4
<1> QED BY <1>5 DEF p, q

(* The bounds of an assembled transaction, its fee and its expiry. *)
LEMMA BoundsFit ==
    ASSUME NEW l \in Nat, NEW m \in Nat, NEW c \in Nat, NEW s \in Nat, s >= m, l >= s, ~(l + 1 >= c)
    PROVE  /\ l >= m /\ l + 1 \in m .. (c - 1)
           /\ \A x \in m .. (c - 1) : x <= c - 1
OBVIOUS

LEMMA FeeFits ==
    ASSUME NEW p \in Nat, NEW q \in Nat, NEW max \in Nat, NEW min \in Nat, p >= min, ~(p + q > max)
    PROVE  p + q \in min .. max
OBVIOUS

LEMMA InstallAssembled ==
    ASSUME NEW w, NEW l \in Ledgers, NEW j, j.op = "assembly", j.validity \in Nat, j.max_fee \in Nat,
           NEW g, SequenceHeld(w, j, g), FeeHeld(g), NEW how, NEW d, NEW sim,
           sim = SimulationReply(w, l, j.op, how, d),
           ~Failed(install_simulated(sim, g.seen, g.cap, g.fee, j)), NEW f, NEW a,
           a = Assembled(sim, g.seq, g.ledger, g.cap, g.fee)
    PROVE  Answers(w, j, f, a)
<1>1. /\ sim.latest # 0 /\ sim.latest >= g.seen /\ sim.error = "none"
      /\ ~(sim.latest + 1 >= g.cap) /\ ~(g.fee + sim.fee > j.max_fee)
      /\ ~(sim.preamble = "none" /\ OutOfFootprint(sim))
    BY InstallAccepted
<1>2. sim.latest \in {0, l} /\ sim.fee = 100
    BY DEF SimulationReply
<1>3. sim.latest = l /\ l \in Nat
    BY <1>1, <1>2, EndpointAssumption
<1>4. /\ a.ledger = sim.latest /\ a.seq = g.seq + 1 /\ a.min = g.ledger /\ a.max = g.cap
      /\ a.expires = g.cap - 1 /\ a.fee = g.fee + sim.fee
      /\ a.restoration = IF sim.preamble # "none" THEN "SeparateTransaction"
                         ELSE IF restores_archived_entries(sim) THEN "Automatic" ELSE "None"
    BY DEF Assembled
<1>5. /\ g.ledger \in Nat /\ g.cap \in Nat /\ g.seen \in Nat /\ g.seen >= g.ledger
      /\ g.cap <= MAX_U32 /\ g.fee \in Nat /\ g.fee >= MIN_INCLUSION_FEE
      /\ g.seq = SequenceOf(EntryAt(w, g.ledger, "payer").val)
    <2>1. /\ g.ledger \in Ledgers /\ g.cap = g.ledger + j.validity /\ g.cap <= MAX_U32
          /\ g.seq = SequenceOf(EntryAt(w, g.ledger, "payer").val)
        BY DEF SequenceHeld
    <2>2. g.ledger \in Nat
        BY <2>1, LedgerNumbers
    <2>3. g.cap \in Nat
        BY <2>1, <2>2
    <2> QED BY <2>1, <2>2, <2>3 DEF FeeHeld
<1>6. (a.restoration = "None") <=> (sim.preamble = "none" /\ sim.archived = {})
    BY <1>4 DEF restores_archived_entries
<1>7. (sim.preamble = "none" /\ sim.archived = {}) <=> CallArchived(w, l, j.op) = {}
    BY <1>1, RestorationIsNeeded
<1>8. CallArchived(w, l, j.op) = {}
        <=> \A k \in ToSet(ReadOnly(w, l, j.op) \o ReadWrite(j.op)) : ~Archived(w, l, k)
    BY CallIsLive
<1>9. /\ l >= g.ledger /\ l + 1 \in g.ledger .. (g.cap - 1)
      /\ \A x \in g.ledger .. (g.cap - 1) : x <= g.cap - 1
    BY <1>1, <1>3, <1>5, BoundsFit
<1>10. g.fee + sim.fee \in MIN_INCLUSION_FEE .. j.max_fee
    BY <1>1, <1>2, <1>5, FeeFits DEF MIN_INCLUSION_FEE
<1>11. (a.restoration = "None")
         <=> \A k \in ToSet(ReadOnly(w, a.ledger, j.op) \o ReadWrite(j.op)) : ~Archived(w, a.ledger, k)
    BY <1>3, <1>4, <1>6, <1>7, <1>8
<1>12. /\ a.ledger = l /\ a.seq = g.seq + 1 /\ a.min = g.ledger /\ a.max = g.cap
       /\ a.expires = g.cap - 1 /\ a.fee = g.fee + sim.fee
    BY <1>3, <1>4
<1>13. AssembledIs(w, j, a)
    BY <1>5, <1>9, <1>10, <1>11, <1>12 DEF AssembledIs
<1>14. CapturedIs(w, j, f, a) /\ RecordedIs(w, j, a)
    BY DEF CapturedIs, RecordedIs
<1> QED BY <1>13, <1>14 DEF Answers

LEMMA SimulateInstallStep ==
    ASSUME ReadInv, SimulateInstall
    PROVE  Preserved
<1>1. PICK l \in Ledgers, how \in {"preamble", "auto"}, d \in SimulationDefects \cup {"none"} :
        /\ Defect(d, SimulationDefects)
        /\ \E sim \in {SimulationReply(world, l, job.op, how, d)} :
           \E e \in {install_simulated(sim, got.seen, got.cap, got.fee, job)} :
           IF Failed(e) THEN Refuse(e, "install")
           ELSE Return(Assembled(sim, got.seq, got.ledger, got.cap, got.fee))
    BY DEF SimulateInstall
<1>2. PICK sim, e :
        /\ sim = SimulationReply(world, l, job.op, how, d)
        /\ e = install_simulated(sim, got.seen, got.cap, got.fee, job)
        /\ IF Failed(e) THEN Refuse(e, "install")
           ELSE Return(Assembled(sim, got.seq, got.ledger, got.cap, got.fee))
    BY <1>1
<1>3. /\ Stepped /\ job.op = "assembly" /\ job.validity \in Nat /\ job.max_fee \in Nat
      /\ SequenceHeld(world, job, got) /\ FeeHeld(got)
    BY <1>1, Faulted, Requested DEF SimulateInstall, ReadInv, Stages
<1>4. CASE Failed(e)
    BY <1>2, <1>3, <1>4, RefusedBy DEF Preserved
<1>5. CASE ~Failed(e)
    <2> DEFINE a == Assembled(sim, got.seq, got.ledger, got.cap, got.fee)
    <2>1. Return(a)
        BY <1>2, <1>5
    <2>2. /\ sim = SimulationReply(world, l, job.op, how, d)
          /\ ~Failed(install_simulated(sim, got.seen, got.cap, got.fee, job))
        BY <1>2, <1>5
    <2>3. Answers(world, job, faults', a)
        BY <1>3, <2>2, InstallAssembled
    <2> HIDE DEF a
    <2> QED BY <1>3, <2>1, <2>3, ReturnedBy
<1> QED BY <1>4, <1>5

-----------------------------------------------------------------------------
(* The theorems *)

LEMMA FirstState ==
    ASSUME Init
    PROVE  ReadInv /\ Answers(world, job, faults, answer)
<1>1. ~answer.ok
    BY DEF Init, NoAnswer
<1>2. Answers(world, job, faults, answer)
    BY <1>1, NoAnswerIsTrue
<1>3. ReadInv
    BY ReadsAssumption DEF Init, ReadInv, Stages
<1> QED BY <1>2, <1>3

LEMMA EveryStep ==
    ASSUME ReadInv, Answers(world, job, faults, answer), [Next]_vars
    PROVE  Preserved
<1>1. CASE UNCHANGED vars
    BY <1>1 DEF vars, Preserved, ReadInv, Stages
<1>2. CASE Finished
    BY <1>1, <1>2 DEF Finished
<1>3. CASE Step
    BY <1>3, BeginStep, RequestFailsStep, VerifyNetworkStep, GetTransactionStep, SimulateRecordingStep,
       AcquireExecutablesStep, PreflightStep, CaptureSimulateStep, ReadFootprintStep, ReadHeaderStep,
       ReadInstanceStep, ReadCodeStep, ReadSelectedStep, ReadCodesStep, ReadContractDataStep,
       ReadClassicsStep, ReadSequenceStep, ReadFeesStep, SimulateInstallStep DEF Step
<1> QED BY <1>1, <1>2, <1>3 DEF Next

LEMMA AnswersHold == Spec => [](ReadInv /\ Answers(world, job, faults, answer))
<1>1. Init => ReadInv /\ Answers(world, job, faults, answer)
    BY FirstState
<1>2. /\ ReadInv /\ Answers(world, job, faults, answer)
      /\ [Next]_vars
      => (ReadInv /\ Answers(world, job, faults, answer))'
    BY EveryStep DEF Preserved
<1> QED BY <1>1, <1>2, PTL DEF Spec

(* A capture is the state of one ledger, whichever nodes answered: every     *)
(* kept entry is that ledger's, live as the capture says; a native capture   *)
(* has every key the call touches and binds the code that runs there.        *)
(* Behaviour: crates/source-rpc, the readers' row checks and the two ledgers *)
(* a native capture compares.                                                *)
THEOREM CaptureIsOneLedger == Spec => []CapturedIsOneLedger
<1>1. ReadInv /\ Answers(world, job, faults, answer) => CapturedIsOneLedger
    BY AnswersAre
<1> QED BY <1>1, AnswersHold, PTL

(* A recording says of every contract it names what ran at the ledger the    *)
(* observation is dated by, and its success is the transaction's own result. *)
(* Behaviour: crates/source-rpc, the batches of executables and the status   *)
(* of getTransaction against its result.                                     *)
THEOREM RecordingHolds == Spec => []RecordingIsTrue
<1>1. ReadInv /\ Answers(world, job, faults, answer) => RecordingIsTrue
    BY AnswersAre
<1> QED BY <1>1, AnswersHold, PTL

(* An assembled install can still be included: its bounds, expiry, sequence, *)
(* fee and restoration are those of the ledger it was simulated at.          *)
(* Behaviour: crates/source-rpc, the three replies of an assembly in order.  *)
THEOREM AssembledCanLand == Spec => []AssembledFits
<1>1. ReadInv /\ Answers(world, job, faults, answer) => AssembledFits
    BY AnswersAre
<1> QED BY <1>1, AnswersHold, PTL
=============================================================================
