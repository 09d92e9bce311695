----------------------------- MODULE WebSession ------------------------------
(***************************************************************************)
(* The web client's side of a session, over the identity service of        *)
(* SessionTokens: the tabs of a browser share the refresh token in         *)
(* localStorage, and each tab has one refresh of its own in flight at a    *)
(* time, however many of its calls came back with a 401.                   *)
(*                                                                         *)
(* The user stays active and the service up: what else ends a session on   *)
(* the server is in SessionTokens. A call may come back with a 401 at any  *)
(* time, and an answer may be lost, as when the tab is closed or reloaded. *)
(***************************************************************************)
EXTENDS SessionTokens

CONSTANT Tab

NoToken == <<>>
Resting == [pc |-> "resting"]

VARIABLES
    stored,     \* erp_refresh_token in localStorage
    flight,     \* the request each refresh, login or branch switch has become
    strained    \* two tabs refreshed at once, or an answer was lost

webVars == <<vars, stored, flight, strained>>

WebInit ==
    /\ Init
    /\ stored = NoToken
    /\ flight = [r \in Request |-> Resting]
    /\ strained = FALSE

Flies(r, pc) == flight[r].pc = pc
Becoming(r, f) == flight' = [flight EXCEPT ![r] = f]
\* The tab of a refresh that has yet to settle.
RefreshOf(r, t) ==
    /\ flight[r].pc \in {"sent", "asked", "answered"}
    /\ flight[r].how = "refresh" /\ flight[r].tab = t

\* Mutation of SingleFlight: every call of the tab refreshes for itself.
EveryCallFlies(t) == TRUE

\* refreshInFlight: the other calls of the tab wait for the same answer.
SingleFlight(t) == ~\E r \in Request : RefreshOf(r, t)

\* tryRefresh reads the token every tab shares and posts it.
SendRefresh(r, t) ==
    /\ flight[r] = Resting /\ At(r, "idle")
    /\ SingleFlight(t)
    /\ stored # NoToken
    /\ Becoming(r, [pc |-> "sent", how |-> "refresh", tab |-> t, tok |-> stored])
    /\ strained' = (strained \/ \E q \in Request, u \in Tab \ {t} : RefreshOf(q, u))
    /\ UNCHANGED <<vars, stored>>

Arrive(r) ==
    /\ Flies(r, "sent")
    /\ FindRecord(r, flight[r].tok)
    /\ Becoming(r, [flight[r] EXCEPT !.pc = "asked"])
    /\ UNCHANGED <<stored, strained>>

\* The refresh never reaches the service.
Lose(r) ==
    /\ Flies(r, "sent")
    /\ Becoming(r, [flight[r] EXCEPT !.pc = "failed"])
    /\ UNCHANGED <<vars, stored, strained>>

\* The service at work on a refresh; a refusal is answered.
Serve(r) ==
    /\ Flies(r, "asked")
    /\ \/ (ReloadUser(r) \/ Consume(r)) /\ UNCHANGED flight
       \/ /\ BurnFamily(r) \/ RevokeAllSessions(r)
          /\ Becoming(r, [flight[r] EXCEPT !.pc = "failed"])
    /\ UNCHANGED <<stored, strained>>

\* The new pair is on its way, and may never arrive.
Answer(r) ==
    /\ Flies(r, "asked")
    /\ \E n \in 2 .. Depth :
          /\ MintNext(r, n)
          /\ \/ /\ Becoming(r, [flight[r] EXCEPT !.pc = "answered",
                                                 !.tok = <<@[1], n>>])
                /\ UNCHANGED strained
             \/ /\ Becoming(r, [flight[r] EXCEPT !.pc = "failed"])
                /\ strained' = TRUE
             \/ /\ Becoming(r, Resting)
                /\ strained' = TRUE
    /\ UNCHANGED stored

\* The pair is stored over whatever is there by now; the call is tried again.
Store(r) ==
    /\ Flies(r, "answered")
    /\ stored' = flight[r].tok
    /\ Becoming(r, Resting)
    /\ UNCHANGED <<vars, strained>>

\* No refresh, and the call's answer is still its 401: apiRequest clears the
\* tokens, whosever they are by now; fetchAuthBlob leaves them.
Forget(r) ==
    /\ Flies(r, "failed")
    /\ stored' \in {NoToken, stored}
    /\ Becoming(r, Resting)
    /\ UNCHANGED <<vars, strained>>

\* login, and switchBranch, which opens a session of its own as well.
SignIn(r, t) ==
    /\ flight[r] = Resting
    /\ \E school \in BOOLEAN : VerifyUser(r, school)
    /\ Becoming(r, [pc |-> "opening", how |-> "sign in", tab |-> t])
    /\ UNCHANGED <<stored, strained>>

SignedIn(r) ==
    /\ Flies(r, "opening")
    /\ \E f \in Family :
          /\ OpenFamily(r, f)
          /\ Becoming(r, [pc |-> "answered", how |-> "sign in", tab |-> flight[r].tab,
                          tok |-> First(f)])
    /\ UNCHANGED <<stored, strained>>

\* logout clears the browser and tells the service nothing.
SignOut ==
    /\ stored # NoToken
    /\ stored' = NoToken
    /\ UNCHANGED <<vars, flight, strained>>

Fly(r) ==
    \/ \E t \in Tab : SendRefresh(r, t) \/ SignIn(r, t)
    \/ Arrive(r) \/ Lose(r) \/ Serve(r) \/ Answer(r) \/ SignedIn(r) \/ Store(r) \/ Forget(r)

WebNext == SignOut \/ \E r \in Request : Fly(r)

WebSpec == WebInit /\ [][WebNext]_webVars

-----------------------------------------------------------------------------
(* Properties *)

\* As long as every answer arrives and no two tabs refresh at once, the service
\* never takes the browser for a thief, and the token it has stored is good, or
\* one of its tabs is just exchanging it: bursts of calls, sign-outs and branch
\* switches in the middle of a refresh included (api.ts:26-31). So it is for a user
\* in the service's own database: the first refresh ends every session of another.
StaysSignedIn ==
    row.here /\ ~strained =>
        /\ \A r \in Request : Flies(r, "asked") => ~At(r, "burn") /\ ~At(r, "revoke all")
        /\ stored \in live \cup {NoToken} \/ \E r \in Request, t \in Tab :
              RefreshOf(r, t) /\ flight[r].tok[1] = stored[1]
=============================================================================
