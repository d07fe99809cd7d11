---------------------------- MODULE Capabilities ----------------------------
(***************************************************************************)
(* Bearer capabilities: the tables `capabilities` and `audit_records`, and *)
(* the four operations of ApplicationRuntime on them, as calls that run    *)
(* concurrently and may be dropped at any await (a client that goes away,  *)
(* a storage error, a crash of the server).                                *)
(*                                                                         *)
(* A transaction of SqliteCapabilityRepository is one action; the load     *)
(* that precedes it in revoke, rotate and authenticate is another.  A call *)
(* that answers a repository error has rolled back and counts as dropped.  *)
(* A token is the identifier it names and whether its secret is the one    *)
(* that was issued with it.                                                *)
(***************************************************************************)
EXTENDS Naturals, FiniteSets

CONSTANTS
    Ids,          \* identifiers that the entropy source may produce
    Calls,        \* calls, each made at most once
    None,         \* SQL NULL, and a row that does not exist
    Practice,     \* the games in practice mode
    Requests,     \* the IssueCapabilityRequests that operators may make
    Tokens,       \* the well-formed tokens that clients may present
    Questions,    \* the (game, scope) that clients may ask for
    Expiries,     \* the expiry times that rotations may ask for
    MaxDelay,     \* how stale the `now` of an issuance can be
    Horizon       \* bound on the clock

VARIABLES
    clock,      \* ApplicationClock, in milliseconds
    rows,       \* table capabilities
    audits,     \* table audit_records, each with the call that wrote it
    calls,      \* the calls in progress
    lineage     \* history: the capability that each one replaces in the end

vars == <<clock, rows, audits, calls, lineage>>

-----------------------------------------------------------------------------
(* Data *)

Roles == {"public", "seat", "human_spectator", "administrator"}
Scopes == {"observe_public", "observe_seat", "act", "preview",
           "observe_human_spectator", "observe_administrator"}
Privileged == {"observe_human_spectator", "observe_administrator"}

\* The scopes that role_allows accepts for a role.
role_allows == [r \in Roles |->
    {"observe_public"} \cup
    CASE r = "public" -> {}
      [] r = "seat" -> {"observe_seat", "act", "preview"}
      [] r = "human_spectator" -> {"observe_human_spectator"}
      [] r = "administrator" -> {"observe_administrator"}]

Games == {q.game : q \in Requests}
Runs == {q.run : q \in Requests}
Request == [game: Games, role: Roles, scopes: SUBSET Scopes, expires: Nat, run: Runs]
CapabilityRecord ==
    [game: Games, role: Roles, scopes: SUBSET Scopes, run: Runs,
     issued: Nat, expires: Nat, revoked: Nat \cup {None}]

ASSUME CapabilitiesAssumption ==
    /\ Requests \subseteq Request
    /\ Tokens \subseteq [id: Ids, genuine: BOOLEAN]
    /\ Questions \subseteq [game: Games, scope: Scopes]
    /\ Expiries \subseteq Nat
    /\ None \notin Ids \cup Nat \cup CapabilityRecord
    /\ MaxDelay \in Nat
    /\ Horizon \in Nat

Authority(row) ==
    [game |-> row.game, role |-> row.role, scopes |-> row.scopes, run |-> row.run]

Denied == {"denied_malformed", "denied_unknown", "denied_revoked",
           "denied_expired", "denied_game", "denied_scope"}

\* called: the clock is read; loaded: the row is read; judged: the outcome is
\* known, not audited; audited: one more audit to write.
Phases == {"idle", "called", "loaded", "judged", "audited", "answered", "dropped"}

Call ==
    [phase: Phases, op: {"none", "issue", "authenticate", "revoke", "rotate"},
     now: Nat, id: Ids \cup {None}, genuine: BOOLEAN, scope: Scopes \cup {None},
     game: Games \cup {None}, expires: Nat, row: CapabilityRecord \cup {None},
     outcome: Denied \cup {"none", "success"},
     \* history: the token was already revoked when the call was made
     late: BOOLEAN]

NoCall ==
    [phase |-> "idle", op |-> "none", now |-> 0, id |-> None, genuine |-> FALSE,
     scope |-> None, game |-> None, expires |-> 0, row |-> None,
     outcome |-> "none", late |-> FALSE]

\* An answered call; what it held is gone.
Answered(op) == [NoCall EXCEPT !.phase = "answered", !.op = op]

AuditRecord ==
    [call: Calls, action: {"issue", "authenticate", "revoke", "rotate", "privileged_access"},
     outcome: Denied \cup {"success"}, id: Ids \cup {None}]

Audit(c, action, outcome, id) ==
    [call |-> c, action |-> action, outcome |-> outcome, id |-> id]

Present(i) == rows[i] # None
Revoked(i) == Present(i) /\ rows[i].revoked # None

\* The values an issuance that commits now may have sampled as its `now`.
Sampled == {t \in 0..clock : t + MaxDelay >= clock}

-----------------------------------------------------------------------------
(* issue_capability *)

validate_issue(game, role, scopes, run, expires, now) ==
    /\ now < expires
    /\ scopes # {}
    /\ run # None => role = "seat"
    /\ scopes \subseteq role_allows[role]

\* The row of insert_capability.  Its primary key answers AlreadyExists.
NewRow(q, now, expires) ==
    [game |-> q.game, role |-> q.role, scopes |-> q.scopes, run |-> q.run,
     issued |-> now, expires |-> expires, revoked |-> None]

issue_capability(c, i, q) ==
    \E now \in Sampled :
        /\ calls[c].phase = "idle"
        /\ validate_issue(q.game, q.role, q.scopes, q.run, q.expires, now)
        /\ "preview" \in q.scopes => q.game \in Practice
        /\ ~Present(i)
        /\ rows' = [rows EXCEPT ![i] = NewRow(q, now, q.expires)]
        /\ audits' = audits \cup {Audit(c, "issue", "success", i)}
        /\ calls' = [calls EXCEPT ![c] = Answered("issue")]
        /\ lineage' = [lineage EXCEPT ![i] = i]
        /\ UNCHANGED clock

-----------------------------------------------------------------------------
(* authenticate_capability *)

\* The clock is read and the token parsed before the row is loaded.
AuthenticateCall(c, t, q) ==
    /\ calls[c].phase = "idle"
    /\ calls' = [calls EXCEPT ![c] =
          [NoCall EXCEPT !.phase = "called", !.op = "authenticate", !.now = clock,
                         !.id = t.id, !.genuine = t.genuine, !.scope = q.scope,
                         !.game = q.game, !.late = Revoked(t.id)]]
    /\ UNCHANGED <<clock, rows, audits, lineage>>

AuthenticateMalformed(c, q) ==
    /\ calls[c].phase = "idle"
    /\ calls' = [calls EXCEPT ![c] =
          [NoCall EXCEPT !.phase = "judged", !.op = "authenticate", !.scope = q.scope,
                         !.outcome = "denied_malformed"]]
    /\ UNCHANGED <<clock, rows, audits, lineage>>

\* The chain of tests on the loaded record, in their order.
Verdict(k, row) ==
    IF row = None \/ ~k.genuine THEN "denied_unknown"
    ELSE IF row.revoked # None THEN "denied_revoked"
    ELSE IF k.now >= row.expires THEN "denied_expired"
    ELSE IF row.game # k.game THEN "denied_game"
    ELSE IF k.scope \notin row.scopes THEN "denied_scope" ELSE "success"

AuthenticateLoad(c) ==
    /\ calls[c].phase = "called"
    /\ calls' = [calls EXCEPT ![c] =
          [@ EXCEPT !.phase = "judged", !.now = 0, !.genuine = FALSE, !.game = None,
                    !.outcome = Verdict(calls[c], rows[calls[c].id])]]
    /\ UNCHANGED <<clock, rows, audits, lineage>>

\* The answer waits for the audit, and for a second one if the scope is
\* privileged and granted.
AuthenticateAudit(c) ==
    /\ calls[c].phase = "judged"
    /\ audits' = audits \cup {Audit(c, "authenticate", calls[c].outcome, calls[c].id)}
    /\ calls' = [calls EXCEPT ![c] = [@ EXCEPT !.phase =
          IF calls[c].outcome = "success" /\ calls[c].scope \in Privileged
          THEN "audited" ELSE "answered"]]
    /\ UNCHANGED <<clock, rows, lineage>>

PrivilegedAudit(c) ==
    /\ calls[c].phase = "audited"
    /\ audits' = audits \cup {Audit(c, "privileged_access", "success", calls[c].id)}
    /\ calls' = [calls EXCEPT ![c] = [@ EXCEPT !.phase = "answered"]]
    /\ UNCHANGED <<clock, rows, lineage>>

-----------------------------------------------------------------------------
(* revoke_capability and rotate_capability *)

\* Both load the record, then read the clock.
RevokeLoad(c, i) ==
    /\ calls[c].phase = "idle"
    /\ Present(i)
    /\ calls' = [calls EXCEPT ![c] =
          [NoCall EXCEPT !.phase = "loaded", !.op = "revoke", !.now = clock,
                         !.id = i, !.row = rows[i]]]
    /\ UNCHANGED <<clock, rows, audits, lineage>>

RotateLoad(c, i, expires) ==
    /\ calls[c].phase = "idle"
    /\ Present(i)
    /\ validate_issue(rows[i].game, rows[i].role, rows[i].scopes, rows[i].run, expires, clock)
    /\ rows[i].revoked = None
    /\ clock < rows[i].expires
    /\ calls' = [calls EXCEPT ![c] =
          [NoCall EXCEPT !.phase = "loaded", !.op = "rotate", !.now = clock,
                         !.id = i, !.row = rows[i], !.expires = expires]]
    /\ UNCHANGED <<clock, rows, audits, lineage>>

\* Mutant: the UPDATE does not ask for revoked_at_ms IS NULL.
UpdatableOnceMore(k) == Present(k.id) /\ rows[k.id].issued <= k.now

\* The WHERE clause of the two UPDATEs, and the CHECK on the new value; any
\* other row answers Conflict, NotFound or Corrupt.
Updatable(k) ==
    /\ Present(k.id)
    /\ rows[k.id].revoked = None
    /\ rows[k.id].issued <= k.now

revoke(c) ==
    LET k == calls[c]
    IN /\ k.phase = "loaded"
       /\ k.op = "revoke"
       /\ Updatable(k)
       /\ rows' = [rows EXCEPT ![k.id] = [@ EXCEPT !.revoked = k.now]]
       /\ audits' = audits \cup {Audit(c, "revoke", "success", k.id)}
       /\ calls' = [calls EXCEPT ![c] = Answered(k.op)]
       /\ UNCHANGED <<clock, lineage>>

\* Mutant: the replacement is inserted in a transaction of its own, and the
\* revocation of the prior record is lost.
RotateWithoutRevoking(c, i) ==
    LET k == calls[c]
    IN /\ k.phase = "loaded"
       /\ k.op = "rotate"
       /\ Updatable(k)
       /\ ~Present(i)
       /\ rows' = [rows EXCEPT ![i] = NewRow(k.row, k.now, k.expires)]
       /\ audits' = audits \cup {Audit(c, "rotate", "success", k.id),
                                 Audit(c, "issue", "success", i)}
       /\ calls' = [calls EXCEPT ![c] = Answered(k.op)]
       /\ lineage' = [lineage EXCEPT ![i] = lineage[k.id]]
       /\ UNCHANGED clock

\* Mutant: the replacement gets every scope that its role allows.
RotateWidening(c, i) ==
    LET k == calls[c]
    IN /\ k.phase = "loaded"
       /\ k.op = "rotate"
       /\ Updatable(k)
       /\ ~Present(i)
       /\ rows' = [rows EXCEPT ![k.id] = [@ EXCEPT !.revoked = k.now],
                               ![i] = [NewRow(k.row, k.now, k.expires)
                                          EXCEPT !.scopes = role_allows[k.row.role]]]
       /\ audits' = audits \cup {Audit(c, "rotate", "success", k.id),
                                 Audit(c, "issue", "success", i)}
       /\ calls' = [calls EXCEPT ![c] = Answered(k.op)]
       /\ lineage' = [lineage EXCEPT ![i] = lineage[k.id]]
       /\ UNCHANGED clock

\* The replacement is built from the record that was loaded.
rotate(c, i) ==
    LET k == calls[c]
    IN /\ k.phase = "loaded"
       /\ k.op = "rotate"
       /\ Updatable(k)
       /\ ~Present(i)
       /\ rows' = [rows EXCEPT ![k.id] = [@ EXCEPT !.revoked = k.now],
                               ![i] = NewRow(k.row, k.now, k.expires)]
       /\ audits' = audits \cup {Audit(c, "rotate", "success", k.id),
                                 Audit(c, "issue", "success", i)}
       /\ calls' = [calls EXCEPT ![c] = Answered(k.op)]
       /\ lineage' = [lineage EXCEPT ![i] = lineage[k.id]]
       /\ UNCHANGED clock

-----------------------------------------------------------------------------
(* Specification *)

\* A call that ends without an answer it could act on: its future is dropped
\* at an await, or the repository answered an error.
Drop(c) ==
    /\ calls[c].phase \in {"called", "loaded", "judged", "audited"}
    /\ calls' = [calls EXCEPT ![c] = [NoCall EXCEPT !.phase = "dropped"]]
    /\ UNCHANGED <<clock, rows, audits, lineage>>

Tick ==
    /\ clock < Horizon
    /\ clock' = clock + 1
    /\ UNCHANGED <<rows, audits, calls, lineage>>

Init ==
    /\ clock = 0
    /\ rows = [i \in Ids |-> None]
    /\ audits = {}
    /\ calls = [c \in Calls |-> NoCall]
    /\ lineage = [i \in Ids |-> None]

Next ==
    \/ Tick
    \/ \E c \in Calls :
          \/ \E q \in Questions :
                \/ AuthenticateMalformed(c, q)
                \/ \E t \in Tokens : AuthenticateCall(c, t, q)
          \/ AuthenticateLoad(c)
          \/ AuthenticateAudit(c)
          \/ PrivilegedAudit(c)
          \/ revoke(c)
          \/ Drop(c)
          \/ \E i \in Ids :
                \/ \E q \in Requests : issue_capability(c, i, q)
                \/ RevokeLoad(c, i)
                \/ \E expires \in Expiries : RotateLoad(c, i, expires)
                \/ rotate(c, i)

Spec == Init /\ [][Next]_vars

-----------------------------------------------------------------------------
(* Properties *)

\* What the constraints of the table and decode_capability ask of a row: any
\* other row is answered Corrupt.
Readable(row) ==
    /\ row.issued < row.expires
    /\ row.revoked # None => row.issued <= row.revoked
    /\ row.scopes # {}
    /\ row.scopes \subseteq role_allows[row.role]
    /\ row.run # None => row.role = "seat"

\* Every row that the operations store can be read back.
TypeOK ==
    /\ clock \in Nat
    /\ \A i \in Ids : Present(i) => Readable(rows[i])
    /\ rows \in [Ids -> CapabilityRecord \cup {None}]
    /\ audits \subseteq AuditRecord
    /\ calls \in [Calls -> Call]
    /\ lineage \in [Ids -> Ids \cup {None}]

Members(r) == {i \in Ids : Present(i) /\ lineage[i] = r}
Valid(r) == {i \in Members(r) : rows[i].revoked = None}

\* However rotations of one capability race each other and its revocation, at
\* most one capability of the lineage is unrevoked: nobody is left with a
\* second working token.
OneValidPerLineage == \A r \in Ids : \A i, k \in Valid(r) : i = k

\* The audit log accounts for the table: every row has the one issue record of
\* the call that created it, and a row is revoked exactly if one revoke or
\* rotate record says so, although calls are dropped between their steps.
AuditExplainsRows ==
    \A i \in Ids :
        LET issues == {a \in audits : a.action = "issue" /\ a.id = i}
            ends == {a \in audits : a.action \in {"revoke", "rotate"} /\ a.id = i}
        IN /\ Present(i) => \E a \in issues : issues = {a}
           /\ ~Present(i) => issues = {} /\ ends = {}
           /\ Revoked(i) => \E a \in ends : ends = {a}
           /\ Present(i) /\ ~Revoked(i) => ends = {}

\* Revocation is immediate: a call made after a capability was revoked or
\* rotated away is never answered with a credential for it.
RevocationIsImmediate ==
    \A c \in Calls :
        calls[c].op = "authenticate" /\ calls[c].phase = "answered"
            /\ calls[c].late => calls[c].outcome # "success"

\* No call is answered before what it decided is in the audit log, and no
\* privileged credential is handed out without a record of its own.
AnswersAreAudited ==
    \A c \in Calls :
        calls[c].op = "authenticate" /\ calls[c].phase = "answered" =>
            /\ Audit(c, "authenticate", calls[c].outcome, calls[c].id) \in audits
            /\ calls[c].outcome = "success" /\ calls[c].scope \in Privileged
                  => Audit(c, "privileged_access", "success", calls[c].id) \in audits

\* A stored capability never changes but for its first revocation, and none is
\* ever deleted.
RevokedOnce ==
    [][\A i \in Ids : Present(i) =>
          \/ rows'[i] = rows[i]
          \/ /\ rows[i].revoked = None
             /\ rows'[i] = [rows[i] EXCEPT !.revoked = rows'[i].revoked]]_vars

Lineage == INSTANCE CapabilityLineage WITH
    Authorities <- [game: Games, role: Roles, scopes: SUBSET Scopes, run: Runs],
    Dead <- "dead",
    used <- {i \in Ids : Present(i)},
    holder <- [r \in Ids |-> IF Members(r) = {} THEN None
                             ELSE IF Valid(r) = {} THEN "dead"
                             ELSE CHOOSE i \in Valid(r) : TRUE],
    authority <- [r \in Ids |-> {Authority(rows[i]) : i \in Members(r)}]

\* Issuance, rotation and revocation keep one holder and one authority for the
\* whole lineage, and a dead lineage stays dead.
ImplementsLineage == Lineage!Spec

\* Of a capability and its replacements at most one is valid, a revoked token
\* is never accepted again, and no row is revoked twice.
CapabilitiesAreSound == [](TypeOK /\ OneValidPerLineage /\ RevocationIsImmediate) /\ RevokedOnce

\* The log explains every row, and no caller was answered without it.
AuditIsComplete == AuditExplainsRows /\ AnswersAreAudited
=============================================================================
