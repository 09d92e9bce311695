---------------------------- MODULE SessionTokens ----------------------------
(***************************************************************************)
(* The sessions of one user: packages/auth/src/tokens.ts behind the routes *)
(* of the identity service that open, refresh and revoke them.             *)
(*                                                                         *)
(* A session is a family of refresh tokens: opening it mints the first, a  *)
(* refresh exchanges the presented token for the next one of the family.   *)
(* Every await is a step: each call of the TokenStore, each query. Between *)
(* two steps of a request any other request, an administrator's change of  *)
(* the user row, or a restart of the process may come.                     *)
(*                                                                         *)
(* A client may present any refresh token it was ever given, also again:   *)
(* that is a retry after a lost reply as well as a stale copy. Signatures, *)
(* expiry, access-token denylists and the MFA challenge are left out.      *)
(*                                                                         *)
(* A login is routed to the database of its school where there is one;     *)
(* every other route reads the one database the process was started with,  *)
(* which may or may not hold the user.                                     *)
(***************************************************************************)
EXTENDS Naturals, FiniteSets

CONSTANTS
    Request,     \* requests the identity service can have in flight
    Family,      \* the familyIds that randomUUID can return
    Depth,       \* bound: tokens minted per family
    MaxPairs,    \* bound: tokens minted in all
    Grant,       \* support grants the console can create
    Self,        \* attribution of a session its own user opened
    MaxChanges   \* bound: changes of the user row

ASSUME SessionAssumption ==
    /\ Depth \in Nat \ {0} /\ MaxPairs \in Nat /\ MaxChanges \in Nat
    /\ Self \notin Grant

Token == Family \X (1 .. Depth)
First(f) == <<f, 1>>
Chain(f) == {f} \X (1 .. Depth)

VARIABLES
    row,      \* the user row: active, version counts its changes, reset pending;
              \* do logins find a school for it, is it in the process's own database
    pair,     \* every token pair minted, with the claims of its access token
    live,     \* the refresh records in the TokenStore
    req,      \* what each request has read so far
    grant,    \* SupportGrant rows: used, revoked
    audit,    \* grants with an activation row in the school's AuditLog
    ended     \* families whose revocation some request has decided on

vars == <<row, pair, live, req, grant, audit, ended>>
people == <<row, grant, audit>>

NoPair == [by |-> {}]
Idle == [pc |-> "idle"]

\* What an access token says of the user; school: does it name the school.
Claims == [active : BOOLEAN, version : 0 .. MaxChanges, school : BOOLEAN]
\* from: the token of the family it was exchanged for, 0 when it opened it.
Pair == [from : 0 .. Depth, by : Grant \cup {Self}, user : Claims,
         since : 0 .. MaxChanges, late : BOOLEAN]

Init ==
    /\ \E routed, here \in BOOLEAN :
         /\ routed \/ here
         /\ row = [active |-> TRUE, version |-> 0, reset |-> FALSE, routed |-> routed,
                   here |-> here]
    /\ pair = [t \in Token |-> NoPair]
    /\ live = {}
    /\ req = [r \in Request |-> Idle]
    /\ grant = [g \in Grant |-> [used |-> FALSE, revoked |-> FALSE]]
    /\ audit = {}
    /\ ended = {}

Minted == {t \in Token : pair[t] # NoPair}
MayMint == Cardinality(Minted) < MaxPairs            \* bound
Opened == {t[1] : t \in Minted}
UserOf(school) == [active |-> row.active, version |-> row.version, school |-> school]
\* loadUser: the authoritative user row, as the claims of a token. It leaves the
\* school empty.
LoadedUser == UserOf(FALSE)

At(r, pc) == req[r].pc = pc
Becomes(r, s) == req' = [req EXCEPT ![r] = s]

\* Requests that hold a token of F and have not yet minted its successor: a
\* revocation of F comes too late for them.
Overtaken(F) == [r \in Request |->
    IF req[r].pc \in {"found", "loaded", "consumed"} /\ req[r].tok[1] \in F
    THEN [req[r] EXCEPT !.late = TRUE] ELSE req[r]]

\* store.delByPrefix(family or user prefix) of request r, its last step.
DeleteFamilies(r, F) ==
    /\ live' = {t \in live : t[1] \notin F}
    /\ req' = [Overtaken(F) EXCEPT ![r] = Idle]

-----------------------------------------------------------------------------
(* Opening a session *)

\* The user is read and found active: a login, whose password no longer matches
\* while a reset is pending, or a branch switch or an impersonation, which need a
\* session and no password. The second factor leaves the school empty, and so may
\* the session of whoever switches or impersonates.
VerifyUser(r, school) ==
    /\ At(r, "idle")
    /\ row.active
    /\ school => row.routed
    /\ row.here \/ school = row.routed
    /\ row.reset => Minted # {}
    /\ Becomes(r, [pc |-> "verified", user |-> UserOf(school), since |-> row.version,
                   by |-> Self])
    /\ UNCHANGED <<people, pair, live, ended>>

\* issueTokenPair with a new familyId.
OpenFamily(r, f) ==
    /\ At(r, "verified") /\ MayMint
    /\ f \notin Opened
    /\ pair' = [pair EXCEPT ![First(f)] =
                  [from |-> 0, by |-> req[r].by, user |-> req[r].user,
                   since |-> req[r].since, late |-> FALSE]]
    /\ live' = live \cup {First(f)}
    /\ Becomes(r, Idle)
    /\ UNCHANGED <<people, ended>>

-----------------------------------------------------------------------------
(* rotateRefreshToken *)

\* Mutation of FindRecord: an unknown token is refused, its family is left alone.
FindRecordNoReplay(r, t) ==
    /\ At(r, "idle") /\ t \in Minted
    /\ IF t \in live
       THEN /\ Becomes(r, [pc |-> "found", tok |-> t, since |-> row.version,
                           late |-> FALSE])
            /\ UNCHANGED ended
       ELSE /\ ended' = ended \cup {t[1]}
            /\ UNCHANGED req
    /\ UNCHANGED <<people, pair, live>>

\* store.get: a record that is missing was exchanged or revoked.
FindRecord(r, t) ==
    /\ At(r, "idle") /\ t \in Minted
    /\ IF t \in live
       THEN /\ Becomes(r, [pc |-> "found", tok |-> t, since |-> row.version,
                           late |-> FALSE])
            /\ UNCHANGED ended
       ELSE /\ Becomes(r, [pc |-> "burn", tok |-> t])
            /\ ended' = ended \cup {t[1]}
    /\ UNCHANGED <<people, pair, live>>

BurnFamily(r) ==
    /\ At(r, "burn")
    /\ DeleteFamilies(r, {req[r].tok[1]})
    /\ UNCHANGED <<people, pair, ended>>

\* The claims a refresh will sign.
Bought(r, user) == [pc |-> "loaded", tok |-> req[r].tok, since |-> req[r].since,
                    late |-> req[r].late, user |-> user]

\* Mutation of ReloadUser: the claims of the old access token are signed again.
ReloadUserFromToken(r) ==
    /\ At(r, "found")
    /\ Becomes(r, Bought(r, pair[req[r].tok].user))
    /\ UNCHANGED <<people, pair, live, ended>>

\* reloadUser reads the process's own database; a user who is not in it, or is
\* inactive, loses every session.
ReloadUser(r) ==
    /\ At(r, "found")
    /\ IF row.active /\ row.here
       THEN /\ Becomes(r, Bought(r, LoadedUser))
            /\ UNCHANGED ended
       ELSE /\ Becomes(r, [pc |-> "revoke all"])
            /\ ended' = ended \cup Opened
    /\ UNCHANGED <<people, pair, live>>

\* Mutation of Consume: the presented token is left in the store.
ConsumeNothing(r) ==
    /\ At(r, "loaded")
    /\ Becomes(r, [req[r] EXCEPT !.pc = "consumed"])
    /\ UNCHANGED <<people, pair, live, ended>>

\* store.del of the presented token. If it is gone by now, another refresh or a
\* revocation came in between; the code does not notice.
Consume(r) ==
    /\ At(r, "loaded")
    /\ live' = live \ {req[r].tok}
    /\ Becomes(r, [req[r] EXCEPT !.pc = "consumed",
                                 !.late = req[r].late \/ req[r].tok \notin live])
    /\ UNCHANGED <<people, pair, ended>>

\* issueTokenPair in the same family: the attribution of the record is kept.
MintNext(r, n) ==
    LET old == req[r].tok
        new == <<old[1], n>>
    IN  /\ At(r, "consumed") /\ MayMint
        /\ pair[new] = NoPair /\ \A m \in 1 .. n - 1 : pair[<<old[1], m>>] # NoPair
        /\ pair' = [pair EXCEPT ![new] =
                      [from |-> old[2], by |-> pair[old].by, user |-> req[r].user,
                       since |-> req[r].since, late |-> req[r].late \/ pair[old].late]]
        /\ live' = live \cup {new}
        /\ Becomes(r, Idle)
        /\ UNCHANGED <<people, ended>>

-----------------------------------------------------------------------------
(* Revocation *)

\* Logout, and DELETE /sessions/:familyId.
RevokeSession(r, f) ==
    /\ At(r, "idle") /\ f \in Opened
    /\ ended' = ended \cup {f}
    /\ DeleteFamilies(r, {f})
    /\ UNCHANGED <<people, pair>>

\* POST /sessions/revoke-all.
StartRevokeAll(r) ==
    /\ At(r, "idle") /\ Minted # {}
    /\ Becomes(r, [pc |-> "revoke all"])
    /\ ended' = ended \cup Opened
    /\ UNCHANGED <<people, pair, live>>

RevokeAllSessions(r) ==
    /\ At(r, "revoke all")
    /\ DeleteFamilies(r, Family)
    /\ UNCHANGED <<people, pair, ended>>

\* POST /password/request-reset overwrites the password hash with a marker.
RequestReset(r) ==
    /\ At(r, "idle") /\ row.active /\ row.here /\ ~row.reset
    /\ row' = [row EXCEPT !.reset = TRUE]
    /\ UNCHANGED <<pair, live, req, grant, audit, ended>>

\* POST /password/confirm-reset: find the marker, check the password's strength,
\* then update by id.
FindReset(r) ==
    /\ At(r, "idle") /\ row.reset
    /\ Becomes(r, [pc |-> "reset found"])
    /\ UNCHANGED <<people, pair, live, ended>>

SaveReset(r) ==
    /\ At(r, "reset found")
    /\ row' = [row EXCEPT !.reset = FALSE]
    /\ ended' = ended \cup Opened
    /\ Becomes(r, [pc |-> "revoke all"])
    /\ UNCHANGED <<pair, live, grant, audit>>

\* DELETE /staff/:id, PUT /staff/:id with a role, an administrator's edits. None
\* of them revokes a session: the next refresh sees the row.
ChangeUser(active) ==
    /\ row.version < MaxChanges                     \* bound
    /\ row' = [row EXCEPT !.active = active, !.version = @ + 1]
    /\ UNCHANGED <<pair, live, req, grant, audit, ended>>

-----------------------------------------------------------------------------
(* Support grants: POST /auth/support/activate *)

FindGrant(r, g) ==
    /\ At(r, "idle")
    /\ ~grant[g].used /\ ~grant[g].revoked
    /\ Becomes(r, [pc |-> "grant found", by |-> g])
    /\ UNCHANGED <<people, pair, live, ended>>

\* Mutation of ClaimGrant: the update carries the id only.
ClaimGrantById(r) ==
    LET g == req[r].by
    IN  /\ At(r, "grant found")
        /\ grant' = [grant EXCEPT ![g].used = TRUE]
        /\ Becomes(r, [req[r] EXCEPT !.pc = "claimed"])
        /\ UNCHANGED <<row, audit, pair, live, ended>>

\* updateMany with usedAt and revokedAt null: of two activations one matches.
ClaimGrant(r) ==
    LET g    == req[r].by
        free == ~grant[g].used /\ ~grant[g].revoked
    IN  /\ At(r, "grant found")
        /\ grant' = IF free THEN [grant EXCEPT ![g].used = TRUE] ELSE grant
        /\ Becomes(r, IF free THEN [req[r] EXCEPT !.pc = "claimed"] ELSE Idle)
        /\ UNCHANGED <<row, audit, pair, live, ended>>

\* The school's owner account is read; without an active one the claim is undone.
ReadOwner(r) ==
    /\ At(r, "claimed")
    /\ Becomes(r, IF row.active /\ row.here
                  THEN [pc |-> "owner", by |-> req[r].by, user |-> UserOf(TRUE),
                        since |-> row.version]
                  ELSE [pc |-> "unclaim", by |-> req[r].by])
    /\ UNCHANGED <<people, pair, live, ended>>

\* The activation is written to the school's audit log before any token exists.
AuditActivation(r, ok) ==
    /\ At(r, "owner")
    /\ audit' = IF ok THEN audit \cup {req[r].by} ELSE audit
    /\ Becomes(r, IF ok THEN [req[r] EXCEPT !.pc = "verified"]
                        ELSE [pc |-> "unclaim", by |-> req[r].by])
    /\ UNCHANGED <<row, grant, pair, live, ended>>

UnclaimGrant(r) ==
    /\ At(r, "unclaim")
    /\ grant' = [grant EXCEPT ![req[r].by].used = FALSE]
    /\ Becomes(r, Idle)
    /\ UNCHANGED <<row, audit, pair, live, ended>>

\* The console's conditional revoke.
RevokeGrant(g) ==
    /\ ~grant[g].revoked
    /\ grant' = [grant EXCEPT ![g].revoked = TRUE]
    /\ UNCHANGED <<row, audit, pair, live, req, ended>>

-----------------------------------------------------------------------------
\* The process dies: its requests are gone, a MemoryTokenStore with them, a
\* RedisTokenStore survives. What a lost request had decided to revoke stays.
Restart ==
    /\ \E r \in Request : ~At(r, "idle")
    /\ live' \in {live, {}}
    /\ req' = [r \in Request |-> Idle]
    /\ ended' = ended \ {t[1] : t \in live'}
    /\ UNCHANGED <<people, pair>>

Open(r) ==
    \/ \E school \in BOOLEAN : VerifyUser(r, school)
    \/ \E f \in Family : OpenFamily(r, f)

Refresh(r) ==
    \/ \E t \in Token : FindRecord(r, t)
    \/ BurnFamily(r) \/ ReloadUser(r) \/ Consume(r)
    \/ \E n \in 2 .. Depth : MintNext(r, n)

Revoke(r) ==
    \/ \E f \in Family : RevokeSession(r, f)
    \/ StartRevokeAll(r) \/ RevokeAllSessions(r)
    \/ RequestReset(r) \/ FindReset(r) \/ SaveReset(r)

Activate(r) ==
    \/ \E g \in Grant : FindGrant(r, g)
    \/ ClaimGrant(r) \/ ReadOwner(r) \/ UnclaimGrant(r)
    \/ \E ok \in BOOLEAN : AuditActivation(r, ok)

Next ==
    \/ \E r \in Request : Open(r) \/ Refresh(r) \/ Revoke(r) \/ Activate(r)
    \/ \E b \in BOOLEAN : ChangeUser(b)
    \/ \E g \in Grant : RevokeGrant(g)
    \/ Restart

Spec == Init /\ [][Next]_vars

-----------------------------------------------------------------------------
(* Properties *)

\* Is a request about to delete family f?
Deleting(f) == \E r \in Request :
    \/ At(r, "revoke all")
    \/ At(r, "burn") /\ req[r].tok[1] = f

\* Logout, revoke-all, a password reset, a deactivated user and a replayed token
\* end a session for good: afterwards the only refresh tokens that work in it
\* descend from a refresh that was already under way when it was revoked.
RevokedStaysRevoked ==
    \A t \in live : t[1] \in ended => pair[t].late \/ Deleting(t[1])

\* A refresh token buys one pair: of two pairs bought with the same token, one
\* was bought by a refresh that overlapped another request on the session.
ExchangedOnce ==
    \A t, u \in Minted :
        /\ t # u /\ t[1] = u[1] /\ pair[t].from = pair[u].from
        => pair[t].late \/ pair[u].late

\* Every pair carries the user as a database had it at some moment of the request
\* that minted it, active at that moment: a deactivation or a change of role
\* reaches a session with its next refresh. A pair is bought with a refresh token
\* only for a user the process itself knows, and it names no school: of what
\* tokens.ts:258-260 has come from the live row, the tenant does not.
ClaimsAreLive ==
    \A t \in Minted :
        /\ pair[t].user.active /\ pair[t].user.version >= pair[t].since
        /\ pair[t].from # 0 => row.here /\ ~pair[t].user.school

\* However many activations race, fail and are tried again, a support grant opens
\* one session, and the school's audit log named the grant before it existed.
GrantOpensOneSession ==
    \A t \in Minted : pair[t].by # Self =>
        /\ pair[t].by \in audit
        /\ \A u \in Minted : pair[u].by = pair[t].by => u[1] = t[1]

\* What is given out once is used once: a refresh token, a support grant.
UsedOnce == ExchangedOnce /\ GrantOpensOneSession
=============================================================================
