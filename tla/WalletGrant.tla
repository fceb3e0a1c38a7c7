---------------------------- MODULE WalletGrant -----------------------------
(***************************************************************************)
(* The grant lifecycle of the wallet backend (wallet/server/actions.mjs,   *)
(* live-check.mjs, install.mjs, monitor.mjs): review, the two kinds of     *)
(* evidence, the live check with its replay obligations, assembly and      *)
(* submission of an installation, monitoring, revocation and replacement,  *)
(* and a restart of the backend.                                           *)
(*                                                                         *)
(* The HTTP layer admits one wallet request at a time, so no two handlers  *)
(* interleave; the network moves between the awaits of a handler.  A       *)
(* handler that only reads before its one turn of writes is one action,    *)
(* each of its reads answered as of any ledger in Reads.  assemble, submit *)
(* and confirm-revoke write in several turns and are split at them; `task` *)
(* is where the handler in flight stands.                                  *)
(***************************************************************************)
EXTENDS AccountLedger

CONSTANTS
  ReviewIds,     \* reviews kept at once (eight in the code)
  LiveTTL,       \* LIVE_SIGNATURE_LEDGERS
  ConsentMin,    \* LIVE_CONSENT_MIN_LEDGERS
  RunMin,        \* LIVE_RUN_MIN_LEDGERS
  InstallTTL,    \* INSTALL_VALIDITY_LEDGERS
  RemoveTTL,     \* the ledgers a removal is drafted for
  EvidenceAge,   \* INSTALL_EVIDENCE_MAX_AGE_LEDGERS
  Window,        \* the twelve ledgers two reads may lie apart
  MaxSessions    \* bound: backend processes, one after the other

ASSUME GrantAssumption ==
  /\ LiveTTL \in Nat /\ ConsentMin \in Nat /\ RunMin \in Nat
  /\ InstallTTL \in Nat \ {0} /\ RemoveTTL \in Nat \ {0}
  /\ EvidenceAge \in Nat /\ Window \in Nat /\ MaxSessions \in Nat \ {0}
  /\ 0 \notin ReviewIds

VARIABLES
  journal,     \* obligations on disk; survive a restart
  session,     \* which backend process is running
  reviews,     \* reviewed grants with their stored evidence
  records,     \* liveRecords: the entries this process answers for
  closed,      \* closedRecords
  attempts,    \* installAttempts
  allowance,   \* installAllowance
  installs,    \* installations, by the entry that installed
  tokens,      \* the pending action of each kind, at most one
  ambiguous,   \* the fee payer's last result is uncertain
  task         \* the handler in flight

backend == <<session, reviews, records, closed, attempts, allowance, installs, tokens, ambiguous, task>>
vars == <<network, journal, backend>>

Clock == 0 .. MaxLedger

(* A review keeps the account state its authority answer committed to, and *)
(* the ledgers at which the captured and the live evidence were observed,  *)
(* 0 while the layer has not passed.                                       *)
NoReview == [approved |-> NoSnapshot, captured |-> 0, live |-> 0, attempted |-> FALSE]
ReviewRecord == [approved : Snapshots, captured : Clock, live : Clock, attempted : BOOLEAN]

NoInstall == [status |-> "none", rule |-> 0, at |-> 0, drift |-> 0,
              removalAttempted |-> FALSE, removal |-> "none", removedAt |-> 0]
InstallRecord == [status : {"none", "confirmed_unverified", "installed"}, rule : 0 .. MaxRules,
            at : Ledgers, drift : Clock, removalAttempted : BOOLEAN,
            removal : {"none", "confirmed_unverified", "removed"}, removedAt : Ledgers]

(* A pending action keeps the review it is for, the entry it released and  *)
(* the installation it removes, with the rule as that was displayed.       *)
TokenKinds == {"live", "live_sign", "install", "revoke", "replacement"}
NoToken == [held |-> FALSE, review |-> 0, entry |-> 0, install |-> 0, expiry |-> 0,
            edited |-> FALSE, seen |-> NoSnapshot]
Token == [held : BOOLEAN, review : ReviewIds \cup {0}, entry : 0 .. MaxEntries,
          install : 0 .. MaxEntries, expiry : Nat, edited : BOOLEAN, seen : Snapshots]
NoTokens == [k \in TokenKinds |-> NoToken]

Steps == {"idle", "assembling", "rechecking", "polling", "verifying",
          "removing", "polling_removal", "verifying_removal"}
Idle == [step |-> "idle", review |-> 0, entry |-> 0, install |-> 0]
Task == [step : Steps, review : ReviewIds \cup {0}, entry : 0 .. MaxEntries,
         install : 0 .. MaxEntries]

TypeOK ==
  /\ NetworkTypeOK
  /\ journal \subseteq EntryIds
  /\ session \in 1 .. MaxSessions
  /\ reviews \in [ReviewIds -> ReviewRecord]
  /\ records \subseteq EntryIds /\ closed \subseteq EntryIds
  /\ attempts \in Nat /\ allowance \in Nat
  /\ installs \in [EntryIds -> InstallRecord]
  /\ tokens \in [TokenKinds -> Token]
  /\ ambiguous \in BOOLEAN
  /\ task \in Task

FreshBackend ==
  /\ reviews = [r \in ReviewIds |-> NoReview]
  /\ records = {} /\ closed = {}
  /\ attempts = 0 /\ allowance = 0
  /\ installs = [e \in EntryIds |-> NoInstall]
  /\ tokens = NoTokens
  /\ ambiguous = FALSE
  /\ task = Idle

Init == NetworkInit /\ journal = {} /\ session = 1 /\ FreshBackend

-----------------------------------------------------------------------------
CanSubmit == ~ambiguous
Reviewed(r) == reviews[r].approved # NoSnapshot
Open == records \ closed
Recorded == {e \in EntryIds : installs[e].status # "none"}

(* A fault: the ledger of the clock alone decides that they expired. *)
Unchanged_ClockOnly(obligations) ==
  \E clock \in Reads : \A e \in obligations :
    /\ entries[e].expiry < clock
    /\ \E r \in Reads : StateAt(r) = entries[e].seen

(* replayStatus answers "unchanged": at the ledger clock and at the ledger *)
(* of each read every one of these signatures has expired, and the account *)
(* is as it was before any of them existed.                                *)
Unchanged(obligations) ==
  \E clock \in Reads : \A e \in obligations :
    /\ entries[e].expiry < clock
    /\ \E r \in Reads : /\ \A f \in obligations : entries[f].expiry < r
                        /\ StateAt(r) = entries[e].seen

RequireNoReplay(obligations) == obligations # {} /\ Unchanged(obligations)

(* verification.complete, and the gate on how old the evidence is.         *)
Complete(r) == reviews[r].captured # 0 /\ reviews[r].live # 0
Recent(observed, clock) == observed <= clock /\ clock - observed <= EvidenceAge
InstallGate(r, clock) ==
  Complete(r) /\ Recent(reviews[r].captured, clock) /\ Recent(reviews[r].live, clock)

Installable(r) ==
  /\ Reviewed(r) /\ Complete(r)
  /\ ~reviews[r].attempted
  /\ attempts = allowance

InstallPreconditions(r, obligations) ==
  /\ \E clock \in Reads : InstallGate(r, clock)
  /\ RequireNoReplay(obligations)

(* The authority answer computed at ledger r still carries the approved    *)
(* commitment, which covers the account's next rule ID and every rule.     *)
SameAuthority(review, r) == StateAt(r) = reviews[review].approved

(* A new owner entry leaves the backend.                                   *)
FreshEntry(e) == ~Released(e) /\ \A f \in EntryIds : f < e => Released(f)
Release(e, kind, expiry, rule, seen) ==
  entries' = [entries EXCEPT ![e] =
                [kind |-> kind, expiry |-> expiry, rule |-> rule, seen |-> seen]]

Answers(e) == /\ journal' = journal \cup {e}
              /\ records' = records \cup {e}

-----------------------------------------------------------------------------
(* review.  Before a new process reviews anything, the operator waits until *)
(* what an earlier one journaled has expired, and removes the rules it left *)
(* (docs/POLLYWALLET-INTEGRATION.md, "After a restart"): no code does.      *)
OperatorWaited(r) ==
  LET earlier == journal \ records IN
  /\ \A e \in earlier : entries[e].expiry < r
  /\ \A i \in PresentAt(r) : rules[i].by \notin earlier

ReviewGrant(r) ==
  /\ task = Idle /\ ~Reviewed(r)
  /\ \E q \in Reads :
       /\ OperatorWaited(q)
       /\ reviews' = [reviews EXCEPT ![r] = [NoReview EXCEPT !.approved = StateAt(q)]]
  /\ UNCHANGED <<network, journal, session, records, closed, attempts, allowance, installs,
                 tokens, ambiguous, task>>

(* check-account: the captured layer, passed at the ledger of its capture  *)
(* or not.  An aborted check stores nothing.                               *)
CheckAccount(r) ==
  /\ task = Idle /\ Reviewed(r)
  /\ \E observed \in Reads \cup {0} : reviews' = [reviews EXCEPT ![r].captured = observed]
  /\ UNCHANGED <<network, journal, session, records, closed, attempts, allowance, installs,
                 tokens, ambiguous, task>>

-----------------------------------------------------------------------------
(* The live check. *)
EarlierExpired(clock) == \A e \in records : entries[e].expiry < clock

PrepareLive(r) ==
  LET left == [tokens EXCEPT !["live"] = NoToken, !["live_sign"] = NoToken] IN
  /\ task = Idle /\ Reviewed(r)
  /\ \/ /\ \E clock \in Reads : ~EarlierExpired(clock)
        /\ tokens' = left /\ UNCHANGED reviews
     \/ /\ \E clock \in Reads : EarlierExpired(clock)
        /\ tokens' = left
        /\ reviews' = [reviews EXCEPT ![r].live = 0]
     \/ /\ \E clock, q \in Reads :
             /\ EarlierExpired(clock)
             /\ NextIdAt(q) = reviews[r].approved.nextId
             /\ tokens' = [left EXCEPT !["live"] =
                             [NoToken EXCEPT !.held = TRUE, !.review = r,
                                             !.expiry = clock + LiveTTL, !.seen = StateAt(q)]]
        /\ UNCHANGED reviews
  /\ UNCHANGED <<network, journal, session, records, closed, attempts, allowance, installs,
                 ambiguous, task>>

ConsentWindow(expiry) == \E clock \in Reads : clock + ConsentMin <= expiry

ConsentLive ==
  LET t == tokens["live"] IN
  /\ task = Idle /\ t.held
  /\ \/ /\ tokens' = [tokens EXCEPT !["live"] = NoToken]
        /\ UNCHANGED <<entries, journal, records>>
     \/ /\ ConsentWindow(t.expiry)
        /\ \E e \in EntryIds :
             /\ FreshEntry(e)
             /\ Answers(e)
             /\ Release(e, "live", t.expiry, 0, t.seen)
             /\ tokens' = [tokens EXCEPT !["live"] = NoToken,
                                         !["live_sign"] = [t EXCEPT !.entry = e]]
  /\ UNCHANGED <<ledger, rules, used, sent, landed, foreign, session, reviews, closed,
                 attempts, allowance, installs, ambiguous, task>>

(* run-live: both cases pass, simulated on the reviewed next rule ID before *)
(* the signatures expire; or the layer does not pass; or the run is aborted. *)
RunLive ==
  LET t == tokens["live_sign"] IN
  /\ task = Idle /\ t.held
  /\ tokens' = [tokens EXCEPT !["live_sign"] = NoToken]
  /\ \/ UNCHANGED reviews
     \/ /\ Reviewed(t.review)
        /\ reviews' = [reviews EXCEPT ![t.review].live = 0]
     \/ /\ Reviewed(t.review)
        /\ \E clock, s \in Reads :
             /\ clock + RunMin <= t.expiry /\ s <= t.expiry
             /\ NextIdAt(s) = reviews[t.review].approved.nextId
             /\ reviews' = [reviews EXCEPT ![t.review].live = s]
  /\ UNCHANGED <<network, journal, session, records, closed, attempts, allowance, installs,
                 ambiguous, task>>

-----------------------------------------------------------------------------
(* Installation. *)
Assemble(r) ==
  /\ task = Idle /\ Installable(r) /\ CanSubmit
  /\ InstallPreconditions(r, Open)
  /\ task' = [Idle EXCEPT !.step = "assembling", !.review = r]
  /\ UNCHANGED <<network, journal, session, reviews, records, closed, attempts, allowance,
                 installs, tokens, ambiguous>>

(* The CLI's draft is bounded by the ledger m at which it read the payer's *)
(* sequence; the clock is read once more before the entry is released.     *)
ReleaseInstall ==
  LET r == task.review IN
  /\ task.step = "assembling"
  /\ \E o, m, q, clock \in Reads :
       /\ o <= m /\ m <= clock /\ clock - o <= Window
       /\ SameAuthority(r, o)
       /\ InstallGate(r, clock)
       /\ clock + 1 < m + InstallTTL
       /\ \E e \in EntryIds :
            /\ FreshEntry(e)
            /\ Answers(e)
            /\ Release(e, "install", m + InstallTTL - 1, 0, StateAt(q))
            /\ tokens' = [tokens EXCEPT !["install"] =
                            [NoToken EXCEPT !.held = TRUE, !.review = r, !.entry = e]]
  /\ task' = Idle
  /\ UNCHANGED <<ledger, rules, used, sent, landed, foreign, session, reviews, closed,
                 attempts, allowance, installs, ambiguous>>

(* submit, up to the authority recheck.  Consuming the action spends the   *)
(* review whatever follows.                                                *)
Submit ==
  LET t == tokens["install"] r == t.review IN
  /\ task = Idle /\ t.held
  /\ tokens' = [tokens EXCEPT !["install"] = NoToken]
  /\ \/ /\ ~(Installable(r) /\ CanSubmit)
        /\ UNCHANGED <<reviews, attempts, task>>
     \/ /\ Installable(r) /\ CanSubmit
        /\ reviews' = [reviews EXCEPT ![r].attempted = TRUE]
        /\ attempts' = attempts + 1
        /\ \/ UNCHANGED task
           \/ /\ InstallPreconditions(r, Open \ {t.entry})
              /\ task' = [Idle EXCEPT !.step = "rechecking", !.review = r, !.entry = t.entry]
  /\ UNCHANGED <<network, journal, session, records, closed, allowance, installs, ambiguous>>

(* A fault: the result becomes uncertain only once the call has returned. *)
Sends_Unguarded(e) ==
  /\ ambiguous' = FALSE
  /\ sent' \in {sent, sent \cup {e}}

(* submitEnvelope: from the intended record on, the result is uncertain    *)
(* until a verified receipt says otherwise; the call may not have arrived. *)
Sends(e) ==
  /\ ambiguous' = TRUE
  /\ sent' \in {sent, sent \cup {e}}

SendInstall ==
  LET r == task.review IN
  /\ task.step = "rechecking"
  /\ \E o, clock \in Reads :
       /\ o <= clock /\ clock - o <= Window
       /\ SameAuthority(r, o)
       /\ clock < entries[task.entry].expiry
       /\ InstallGate(r, clock)
  /\ Sends(task.entry)
  /\ tokens' = [tokens EXCEPT !["install"] = NoToken]
  /\ task' = [task EXCEPT !.step = "polling"]
  /\ UNCHANGED <<ledger, rules, entries, used, landed, foreign, journal, session, reviews,
                 records, closed, attempts, allowance, installs>>

(* The receipt names the rule the transaction added. *)
ConfirmInstall ==
  LET e == task.entry IN
  /\ task.step = "polling" /\ e \in landed
  /\ \E i \in RuleIds :
       /\ rules[i].by = e
       /\ installs' = [installs EXCEPT ![e] =
            [NoInstall EXCEPT !.status = "confirmed_unverified", !.rule = i, !.at = rules[i].added]]
  /\ ambiguous' = FALSE
  /\ task' = [task EXCEPT !.step = "verifying"]
  /\ UNCHANGED <<network, journal, session, reviews, records, closed, attempts, allowance, tokens>>

(* A verified installation closes every open obligation: its own entry is  *)
(* used, and every earlier signature had expired.                          *)
VerifyInstall ==
  LET i == installs[task.entry] IN
  /\ task.step = "verifying"
  /\ i.rule = reviews[task.review].approved.nextId
  /\ \E q \in Reads : q >= i.at /\ i.rule \in PresentAt(q) \ EditedAt(q)
  /\ installs' = [installs EXCEPT ![task.entry].status = "installed"]
  /\ closed' = closed \cup Open
  /\ task' = Idle
  /\ UNCHANGED <<network, journal, session, reviews, records, attempts, allowance, tokens, ambiguous>>

(* Any read, check or poll may refuse, and the handler ends where it is.   *)
InstallRefused ==
  /\ task.step \in {"assembling", "rechecking", "polling", "verifying"}
  /\ task' = Idle
  /\ UNCHANGED <<network, journal, session, reviews, records, closed, attempts, allowance,
                 installs, tokens, ambiguous>>

-----------------------------------------------------------------------------
(* monitor-grant keeps when it last saw the recorded rule changed or gone. *)
MonitorGrant(e) ==
  /\ task = Idle
  /\ installs[e].status = "installed" /\ installs[e].removal = "none"
  /\ \/ \E q, clock \in Reads :
          /\ installs[e].at <= q /\ q <= clock /\ clock - q <= Window
          /\ LET intact == installs[e].rule \in PresentAt(q) \ EditedAt(q) IN
             installs' = [installs EXCEPT ![e].drift = IF intact THEN 0 ELSE clock]
     \/ installs' = [installs EXCEPT ![e].drift = 0]
  /\ UNCHANGED <<network, journal, session, reviews, records, closed, attempts, allowance,
                 tokens, ambiguous, task>>

(* An edited rule is removed only on a fresh observation of the change. *)
DriftKnown(i, q, clock) ==
  i.drift # 0 /\ i.drift <= q /\ i.drift <= clock /\ clock - i.drift <= Window

PrepareRevoke(e) ==
  LET i == installs[e] IN
  /\ task = Idle /\ e \in Recorded /\ ~i.removalAttempted
  /\ \/ /\ tokens' = [tokens EXCEPT !["revoke"] = NoToken]
        /\ UNCHANGED entries
     \/ /\ CanSubmit
        /\ \E q, m, clock \in Reads :
             /\ i.at <= q /\ q <= clock /\ m <= clock /\ clock - q <= Window
             /\ i.rule \in PresentAt(q)
             /\ i.status = "installed" /\ i.rule \in EditedAt(q) => DriftKnown(i, q, clock)
             /\ clock + 1 < m + RemoveTTL
             /\ \E f \in EntryIds :
                  /\ FreshEntry(f)
                  /\ Release(f, "remove", m + RemoveTTL - 1, i.rule, NoSnapshot)
                  /\ tokens' = [tokens EXCEPT !["revoke"] =
                       [NoToken EXCEPT !.held = TRUE, !.install = e, !.entry = f,
                                       !.edited = i.rule \in EditedAt(q)]]
  /\ UNCHANGED <<ledger, rules, used, sent, landed, foreign, journal, session, reviews, records,
                 closed, attempts, allowance, installs, ambiguous, task>>

ConfirmRevoke ==
  LET t == tokens["revoke"] i == installs[t.install] IN
  /\ task = Idle /\ t.held
  /\ tokens' = [tokens EXCEPT !["revoke"] = NoToken]
  /\ \/ UNCHANGED <<installs, task>>
     \/ /\ ~i.removalAttempted /\ CanSubmit
        /\ \E q, clock \in Reads :
             /\ i.at <= q /\ q <= clock /\ clock - q <= Window
             /\ i.rule \in PresentAt(q) /\ t.edited = (i.rule \in EditedAt(q))
             /\ clock < entries[t.entry].expiry
        /\ installs' = [installs EXCEPT ![t.install].removalAttempted = TRUE]
        /\ task' = [Idle EXCEPT !.step = "removing", !.entry = t.entry, !.install = t.install]
  /\ UNCHANGED <<network, journal, session, reviews, records, closed, attempts, allowance, ambiguous>>

SendRemoval ==
  /\ task.step = "removing"
  /\ Sends(task.entry)
  /\ task' = [task EXCEPT !.step = "polling_removal"]
  /\ UNCHANGED <<ledger, rules, entries, used, landed, foreign, journal, session, reviews,
                 records, closed, attempts, allowance, installs, tokens>>

(* A refusal that leaves the payer able to submit sent nothing. *)
RemovalFailed ==
  /\ task.step \in {"removing", "polling_removal"}
  /\ installs' = [installs EXCEPT ![task.install].removalAttempted = ~CanSubmit]
  /\ task' = Idle
  /\ UNCHANGED <<network, journal, session, reviews, records, closed, attempts, allowance,
                 tokens, ambiguous>>

ConfirmRemoval ==
  LET i == installs[task.install] IN
  /\ task.step = "polling_removal" /\ task.entry \in landed
  /\ installs' = [installs EXCEPT ![task.install].removal = "confirmed_unverified",
                                  ![task.install].removedAt = rules[i.rule].removed]
  /\ ambiguous' = FALSE
  /\ task' = [task EXCEPT !.step = "verifying_removal"]
  /\ UNCHANGED <<network, journal, session, reviews, records, closed, attempts, allowance, tokens>>

VerifyRemoval ==
  LET i == installs[task.install] IN
  /\ task.step = "verifying_removal"
  /\ \/ UNCHANGED installs
     \/ /\ \E q \in Reads : q >= i.removedAt /\ i.rule \notin PresentAt(q)
        /\ installs' = [installs EXCEPT ![task.install].removal = "removed"]
  /\ task' = Idle
  /\ UNCHANGED <<network, journal, session, reviews, records, closed, attempts, allowance,
                 tokens, ambiguous>>

-----------------------------------------------------------------------------
ReadyToReplace_Unremoved ==
  /\ attempts > allowance
  /\ attempts = Cardinality(Recorded)
  /\ \A e \in Recorded : installs[e].status = "installed"

(* Replacement: a fresh allowance only after every attempt is known to     *)
(* have been installed and removed.                                        *)
Replaceable ==
  /\ attempts > allowance
  /\ attempts = Cardinality(Recorded)
  /\ \A e \in Recorded : installs[e].status = "installed" /\ installs[e].removal = "removed"

ReplacementState ==
  \A e \in Recorded :
    \E q \in Reads : q >= installs[e].removedAt /\ installs[e].rule \notin PresentAt(q)

ReadyToReplace == Replaceable /\ ReplacementState

PrepareReplacement ==
  /\ task = Idle /\ ReadyToReplace
  /\ tokens' = [tokens EXCEPT !["replacement"] = [NoToken EXCEPT !.held = TRUE]]
  /\ UNCHANGED <<network, journal, session, reviews, records, closed, attempts, allowance,
                 installs, ambiguous, task>>

ConfirmReplacement ==
  /\ task = Idle /\ tokens["replacement"].held
  /\ \/ /\ tokens' = [tokens EXCEPT !["replacement"] = NoToken]
        /\ UNCHANGED <<reviews, allowance>>
     \/ /\ ReadyToReplace
        /\ Open # {} => RequireNoReplay(Open)
        /\ tokens' = NoTokens
        /\ reviews' = [r \in ReviewIds |-> NoReview]
        /\ allowance' = attempts
  /\ UNCHANGED <<network, journal, session, records, closed, attempts, installs, ambiguous, task>>

-----------------------------------------------------------------------------
(* The backend stops, in the middle of a handler or not, and a new process *)
(* with a new fee payer starts; it does not read the journal.              *)
Restart ==
  /\ session < MaxSessions
  /\ session' = session + 1
  /\ reviews' = [r \in ReviewIds |-> NoReview]
  /\ records' = {} /\ closed' = {}
  /\ attempts' = 0 /\ allowance' = 0
  /\ installs' = [e \in EntryIds |-> NoInstall]
  /\ tokens' = NoTokens
  /\ ambiguous' = FALSE
  /\ task' = Idle
  /\ UNCHANGED <<network, journal>>

NetworkMoves == World /\ UNCHANGED <<journal, backend>>

Next ==
  \/ NetworkMoves
  \/ \E r \in ReviewIds : ReviewGrant(r) \/ CheckAccount(r) \/ PrepareLive(r) \/ Assemble(r)
  \/ ConsentLive \/ RunLive
  \/ ReleaseInstall \/ Submit \/ SendInstall \/ ConfirmInstall \/ VerifyInstall \/ InstallRefused
  \/ \E e \in EntryIds : MonitorGrant(e) \/ PrepareRevoke(e)
  \/ ConfirmRevoke \/ SendRemoval \/ RemovalFailed \/ ConfirmRemoval \/ VerifyRemoval
  \/ PrepareReplacement \/ ConfirmReplacement
  \/ Restart

Spec == Init /\ [][Next]_vars

-----------------------------------------------------------------------------
(* No owner entry other than e that adds a rule can land any more, and no  *)
(* rule one of them added is on the account.                               *)
OthersSpent(e) ==
  \A f \in EntryIds \ {e} : AddsRule(f) =>
    /\ entries[f].expiry < ledger \/ f \in used
    /\ \A i \in RuleIds : rules[i].by = f => ~Present(i)

(* When submit sends an installation, every other signature the wallet     *)
(* ever released for the grant, by this process or an earlier one, is      *)
(* spent: requireNoReplay before the release and again before the send.    *)
SubmitsAlone ==
  [][\A e \in sent' \ sent : entries[e].kind = "install" => OthersSpent(e)]_vars

(* At most one grant the fee payer sent is on the account at any time,     *)
(* through retries, late landings, removals, replacements and restarts:    *)
(* two rules would mean two call caps.                                     *)
OneGrantInForce ==
  \A i, j \in RuleIds :
    Present(i) /\ Present(j) /\ rules[i].by \in sent /\ rules[j].by \in sent => i = j

(* confirm-revoke sends at most one removal of a rule, however stale the   *)
(* reads are from which a second one would be prepared.                    *)
RemovalSentOnce ==
  \A f, g \in sent :
    entries[f].kind = "remove" /\ entries[g].kind = "remove"
      /\ entries[f].rule = entries[g].rule => f = g

=============================================================================
