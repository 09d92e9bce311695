---------------------------- MODULE SessionProofs ----------------------------
(***************************************************************************)
(* Proofs about SessionTokens and WebSession, for any number of requests,  *)
(* families, tokens and support grants: what is revoked stays revoked, a   *)
(* token and a grant are used once, the claims of a pair were true, and a  *)
(* browser that is not strained stays signed in; and about Imports, for    *)
(* any number of uploads and of admission numbers: what an answer says of  *)
(* its file is what became of the pupils; and about TenantGate, for any    *)
(* number of schools, addresses and requests: each reaches the school it   *)
(* is for, and none that has been closed for longer than a minute.         *)
(***************************************************************************)
EXTENDS WebSession, Imports, TenantGate, Integers, FiniteSetTheorems, TLAPS

USE SessionAssumption

-----------------------------------------------------------------------------
(* Types *)

Version == 0 .. MaxChanges

VerifiedReq == [pc : {"verified"}, user : Claims, since : Version, by : Grant \cup {Self}]
FoundReq    == [pc : {"found"}, tok : Token, since : Version, late : BOOLEAN]
BoughtReq   == [pc : {"loaded", "consumed"}, tok : Token, since : Version,
                late : BOOLEAN, user : Claims]
BurnReq     == [pc : {"burn"}, tok : Token]
PlainReq    == [pc : {"revoke all", "reset found"}]
GrantReq    == [pc : {"grant found", "claimed", "unclaim"}, by : Grant]
OwnerReq    == [pc : {"owner"}, by : Grant, user : Claims, since : Version]

UserRow == [active : BOOLEAN, version : Version, reset : BOOLEAN, routed : BOOLEAN,
            here : BOOLEAN]

RequestState == {Idle} \cup VerifiedReq \cup FoundReq \cup BoughtReq \cup BurnReq
                \cup PlainReq \cup GrantReq \cup OwnerReq

Presenting == {"found", "loaded", "consumed"}     \* requests that hold a token

TypeOK ==
    /\ row \in UserRow
    /\ pair \in [Token -> Pair \cup {NoPair}]
    /\ live \subseteq Minted
    /\ req \in [Request -> RequestState]
    /\ \A r \in Request : req[r].pc \in Presenting \cup {"burn"} => req[r].tok \in Minted
    /\ grant \in [Grant -> [used : BOOLEAN, revoked : BOOLEAN]]
    /\ audit \subseteq Grant
    /\ ended \subseteq Opened

-----------------------------------------------------------------------------
(* Claims *)

\* The first half of ClaimsAreLive, and of a user a refresh has read.
ClaimsAreTrue ==
    \A t \in Minted : pair[t].user.active /\ pair[t].user.version >= pair[t].since

BoughtInv ==
    /\ \A t \in Minted : pair[t].from # 0 => row.here /\ ~pair[t].user.school
    /\ \A r \in Request : req[r].pc \in {"loaded", "consumed"} =>
          row.here /\ ~req[r].user.school

\* The user as a refresh lets it pass.
Readable == row.active /\ row.here

HasClaims == {"verified", "owner", "loaded", "consumed"}

ClaimsInv ==
    /\ ClaimsAreTrue
    /\ \A r \in Request :
          /\ req[r].pc = "found" => req[r].since <= row.version
          /\ req[r].pc \in HasClaims =>
                req[r].user.active /\ req[r].user.version >= req[r].since

-----------------------------------------------------------------------------
(* Revocation *)

\* A refresh under way in a revoked family knows it, unless the deletion is yet
\* to come.
Overtook(r) == \A f \in ended :
    req[r].pc \in Presenting /\ req[r].tok[1] = f =>
        req[r].late \/ pair[req[r].tok].late \/ Deleting(f)

RevokedInv == RevokedStaysRevoked /\ \A r \in Request : Overtook(r)

-----------------------------------------------------------------------------
(* Tokens are exchanged once *)

\* u was bought with t by a refresh nobody overlapped.
Buys(u, t) == u \in Minted /\ u[1] = t[1] /\ pair[u].from = t[2] /\ ~pair[u].late

\* r has consumed t, and nobody overlapped it so far.
InTime(r, t) == req[r].pc = "consumed" /\ ~req[r].late /\ req[r].tok = t

ExchangeInv ==
    /\ \A t \in live, u \in Token : ~Buys(u, t)
    /\ \A r \in Request, t \in Token : InTime(r, t) =>
          /\ t \notin live
          /\ \A u \in Token : ~Buys(u, t)
          /\ \A q \in Request : InTime(q, t) => q = r
    /\ \A t, u \in Token : Buys(u, t) => t \in Minted
    /\ \A u \in Minted : pair[u].from = 0 => u[2] = 1
    /\ ExchangedOnce

-----------------------------------------------------------------------------
(* Support grants *)

\* r has claimed grant g and will use it or give it back.
Holds(r, g) ==
    /\ req[r].pc \in {"claimed", "owner", "unclaim", "verified"}
    /\ req[r].by = g

GrantInv ==
    /\ \A g \in Grant, r \in Request : Holds(r, g) =>
          /\ grant[g].used
          /\ \A q \in Request : Holds(q, g) => q = r
          /\ \A t \in Minted : pair[t].by # g
          /\ req[r].pc = "verified" => g \in audit
    /\ \A t \in Minted : pair[t].by # Self => grant[pair[t].by].used
    /\ GrantOpensOneSession

SessionInv == TypeOK /\ ClaimsInv /\ BoughtInv /\ RevokedInv /\ ExchangeInv /\ GrantInv

-----------------------------------------------------------------------------
(* Facts about the definitions *)

LEMMA PcTells ==
    ASSUME TypeOK, NEW r \in Request
    PROVE  /\ req[r].pc = "verified" => req[r] \in VerifiedReq
           /\ req[r].pc = "found" => req[r] \in FoundReq
           /\ req[r].pc \in {"loaded", "consumed"} => req[r] \in BoughtReq
           /\ req[r].pc = "burn" => req[r] \in BurnReq
           /\ req[r].pc \in {"grant found", "claimed", "unclaim"} => req[r] \in GrantReq
           /\ req[r].pc = "owner" => req[r] \in OwnerReq
           /\ req[r].pc = "idle" <=> req[r] = Idle
<1>1. req[r] \in RequestState
  BY DEF TypeOK
<1>2. /\ Idle.pc = "idle" /\ \A s \in VerifiedReq : s.pc = "verified"
      /\ \A s \in FoundReq : s.pc = "found"
      /\ \A s \in BoughtReq : s.pc \in {"loaded", "consumed"}
      /\ \A s \in BurnReq : s.pc = "burn"
      /\ \A s \in PlainReq : s.pc \in {"revoke all", "reset found"}
      /\ \A s \in GrantReq : s.pc \in {"grant found", "claimed", "unclaim"}
      /\ \A s \in OwnerReq : s.pc = "owner"
  BY DEF Idle, VerifiedReq, FoundReq, BoughtReq, BurnReq, PlainReq, GrantReq, OwnerReq
<1> QED BY <1>1, <1>2 DEF RequestState

LEMMA IdleState == Idle \in RequestState /\ Idle.pc = "idle" /\ "idle" \notin Presenting \cup {"burn"}
BY DEF RequestState, Idle, Presenting

LEMMA PairIsNone == NoPair \notin Pair
<1>1. \A p \in Pair : DOMAIN p = {"from", "by", "user", "since", "late"}
  BY DEF Pair
<1>2. DOMAIN NoPair = {"by"}
  BY DEF NoPair
<1> QED BY <1>1, <1>2

LEMMA PairsTyped ==
    ASSUME TypeOK, NEW t \in Minted
    PROVE  t \in Token /\ pair[t] \in Pair /\ t[1] \in Opened /\ t[1] \in Family
           /\ t[2] \in 1 .. Depth /\ t = <<t[1], t[2]>>
<1>1. t \in Token /\ pair[t] \in Pair
  BY DEF TypeOK, Minted
<1> QED BY <1>1 DEF Opened, Token

\* A token is minted next to those there are.
LEMMA MintedGrows ==
    ASSUME TypeOK, NEW t \in Token, NEW p \in Pair, pair[t] = NoPair,
           pair' = [pair EXCEPT ![t] = p]
    PROVE  /\ Minted' = Minted \cup {t} /\ t \notin Minted
           /\ Opened' = Opened \cup {t[1]}
           /\ \A u \in Minted : pair'[u] = pair[u]
           /\ pair'[t] = p
           /\ pair' \in [Token -> Pair \cup {NoPair}]
<1>1. pair \in [Token -> Pair \cup {NoPair}]
  BY DEF TypeOK
<1>2. p # NoPair
  BY PairIsNone
<1>3. Minted' = Minted \cup {t} /\ t \notin Minted
  BY <1>1, <1>2 DEF Minted
<1>4. Opened' = Opened \cup {t[1]}
  BY <1>3 DEF Opened
<1> QED BY <1>1, <1>3, <1>4

LEMMA LoadedClaims ==
    ASSUME TypeOK PROVE \A school \in BOOLEAN : UserOf(school) \in Claims
BY DEF TypeOK, UserRow, UserOf, Claims, Version

\* What a deletion makes of the requests.
LEMMA OvertakenState ==
    ASSUME TypeOK, NEW F, NEW r \in Request
    PROVE  /\ Overtaken(F)[r] \in RequestState
           /\ Overtaken(F)[r].pc = req[r].pc
           /\ req[r].pc \in Presenting =>
                 /\ Overtaken(F)[r].tok = req[r].tok
                 /\ Overtaken(F)[r].since = req[r].since
                 /\ Overtaken(F)[r].late <=> req[r].late \/ req[r].tok[1] \in F
           /\ req[r].pc \in {"loaded", "consumed"} => Overtaken(F)[r].user = req[r].user
           /\ req[r].pc \notin Presenting => Overtaken(F)[r] = req[r]
<1>1. req[r] \in RequestState
  BY DEF TypeOK
<1> DEFINE o == [req[r] EXCEPT !.late = TRUE]
<1>2. Overtaken(F)[r] = IF req[r].pc \in Presenting /\ req[r].tok[1] \in F THEN o ELSE req[r]
  BY DEF Overtaken, Presenting
<1>3. CASE req[r].pc = "found"
  <2>1. req[r] \in FoundReq
    BY <1>3, PcTells
  <2>2. o \in FoundReq /\ o.pc = "found" /\ o.tok = req[r].tok /\ o.since = req[r].since
        /\ o.late = TRUE
    BY <1>3, <2>1 DEF FoundReq
  <2> HIDE DEF o
  <2> QED BY <1>1, <1>2, <1>3, <2>2 DEF Presenting, RequestState
<1>4. CASE req[r].pc \in {"loaded", "consumed"}
  <2>1. req[r] \in BoughtReq
    BY <1>4, PcTells
  <2>2. o \in BoughtReq /\ o.pc = req[r].pc /\ o.tok = req[r].tok /\ o.since = req[r].since
        /\ o.late = TRUE /\ o.user = req[r].user
    BY <1>4, <2>1 DEF BoughtReq
  <2> HIDE DEF o
  <2> QED BY <1>1, <1>2, <1>4, <2>2 DEF Presenting, RequestState
<1>5. CASE req[r].pc \notin Presenting
  BY <1>1, <1>2, <1>5 DEF Presenting
<1> QED BY <1>3, <1>4, <1>5 DEF Presenting

-----------------------------------------------------------------------------
(* Types *)

\* A step of r that mints nothing.
LEMMA TypesOfOne ==
    ASSUME TypeOK, NEW r \in Request, NEW s \in RequestState, Becomes(r, s),
           s.pc \in Presenting \cup {"burn"} => s.tok \in Minted,
           pair' = pair, live' \subseteq live,
           row' \in UserRow,
           grant' \in [Grant -> [used : BOOLEAN, revoked : BOOLEAN]],
           audit' \subseteq Grant, ended' \subseteq Opened
    PROVE  TypeOK'
<1>1. Minted' = Minted /\ Opened' = Opened
  BY DEF Minted, Opened
<1>2. req' \in [Request -> RequestState]
  BY DEF TypeOK, Becomes
<1>3. \A q \in Request : req'[q].pc \in Presenting \cup {"burn"} => req'[q].tok \in Minted
  BY DEF TypeOK, Becomes
<1> QED BY <1>1, <1>2, <1>3 DEF TypeOK

LEMMA TypesKept ==
    ASSUME TypeOK, NEW r \in Request, NEW s \in RequestState, Becomes(r, s),
           s.pc \in Presenting \cup {"burn"} => s.tok \in Minted,
           pair' = pair, live' \subseteq live, UNCHANGED people, ended' \subseteq Opened
    PROVE  TypeOK'
BY TypesOfOne DEF TypeOK, people

\* A deletion, whoever asks for it.
LEMMA TypesDelete ==
    ASSUME TypeOK, NEW r \in Request, NEW F, DeleteFamilies(r, F), pair' = pair,
           UNCHANGED people, ended' \subseteq Opened
    PROVE  TypeOK'
<1>1. Minted' = Minted /\ Opened' = Opened /\ live' \subseteq live
  BY DEF Minted, Opened, DeleteFamilies
<1>2. \A q \in Request : req'[q] = IF q = r THEN Idle ELSE Overtaken(F)[q]
  BY DEF DeleteFamilies, Overtaken
<1>3. req' \in [Request -> RequestState]
  BY <1>2, OvertakenState, IdleState DEF DeleteFamilies, Overtaken
<1>4. ASSUME NEW q \in Request, req'[q].pc \in Presenting \cup {"burn"}
      PROVE  req'[q].tok \in Minted
  <2>1. q # r /\ req'[q] = Overtaken(F)[q]
    BY <1>2, <1>4, IdleState
  <2>2. req[q].pc \in Presenting \cup {"burn"} /\ req'[q].tok = req[q].tok
    BY <1>4, <2>1, OvertakenState
  <2> QED BY <2>2 DEF TypeOK
<1> QED BY <1>1, <1>3, <1>4 DEF TypeOK, people

LEMMA OpenTypes ==
    ASSUME TypeOK, NEW r \in Request, Open(r) PROVE TypeOK'
<1>1. ASSUME NEW school \in BOOLEAN, VerifyUser(r, school) PROVE TypeOK'
  <2> DEFINE s == [pc |-> "verified", user |-> UserOf(school), since |-> row.version, by |-> Self]
  <2>1. s \in VerifiedReq /\ s.pc = "verified"
    BY LoadedClaims DEF VerifiedReq, TypeOK, UserRow
  <2>2. s \in RequestState /\ s.pc \notin Presenting \cup {"burn"}
    BY <2>1 DEF RequestState, Presenting
  <2>3. Becomes(r, s) /\ UNCHANGED <<people, pair, live, ended>>
    BY <1>1 DEF VerifyUser
  <2> HIDE DEF s
  <2> QED BY <2>2, <2>3, TypesKept DEF TypeOK
<1>2. ASSUME NEW f \in Family, OpenFamily(r, f) PROVE TypeOK'
  <2> DEFINE t == First(f)
             p == [from |-> 0, by |-> req[r].by, user |-> req[r].user,
                   since |-> req[r].since, late |-> FALSE]
  <2>1. req[r] \in VerifiedReq
    BY <1>2, PcTells DEF OpenFamily, At
  <2>2. p \in Pair
    BY <2>1 DEF Pair, VerifiedReq, Version
  <2>3. t \in Token /\ t[1] = f
    BY DEF First, Token
  <2>4. pair[t] = NoPair
    BY <1>2, <2>3 DEF OpenFamily, Opened, Minted
  <2>5. pair' = [pair EXCEPT ![t] = p] /\ live' = live \cup {t} /\ Becomes(r, Idle)
        /\ UNCHANGED <<people, ended>>
    BY <1>2 DEF OpenFamily
  <2> HIDE DEF t, p
  <2>6. /\ Minted' = Minted \cup {t} /\ Opened \subseteq Opened'
        /\ pair' \in [Token -> Pair \cup {NoPair}]
    BY <2>2, <2>3, <2>4, <2>5, MintedGrows
  <2> QED BY <2>5, <2>6, IdleState DEF TypeOK, Becomes, people
<1> QED BY <1>1, <1>2 DEF Open

LEMMA RefreshTypes ==
    ASSUME TypeOK, NEW r \in Request, Refresh(r) PROVE TypeOK'
<1>1. ASSUME NEW t \in Token, FindRecord(r, t) PROVE TypeOK'
  <2>1. t \in Minted /\ t[1] \in Opened /\ UNCHANGED <<people, pair, live>>
    BY <1>1, PairsTyped DEF FindRecord
  <2>2. CASE t \in live
    <3> DEFINE s == [pc |-> "found", tok |-> t, since |-> row.version, late |-> FALSE]
    <3>1. s \in FoundReq /\ s.tok = t
      BY DEF FoundReq, TypeOK, UserRow
    <3>2. s \in RequestState
      BY <3>1 DEF RequestState
    <3>3. Becomes(r, s) /\ UNCHANGED ended
      BY <1>1, <2>2 DEF FindRecord
    <3> HIDE DEF s
    <3> QED BY <2>1, <3>1, <3>2, <3>3, TypesKept DEF TypeOK
  <2>3. CASE t \notin live
    <3> DEFINE s == [pc |-> "burn", tok |-> t]
    <3>1. s \in BurnReq /\ s.tok = t
      BY DEF BurnReq
    <3>2. s \in RequestState
      BY <3>1 DEF RequestState
    <3>3. Becomes(r, s) /\ ended' = ended \cup {t[1]}
      BY <1>1, <2>3 DEF FindRecord
    <3> HIDE DEF s
    <3> QED BY <2>1, <3>1, <3>2, <3>3, TypesKept DEF TypeOK
  <2> QED BY <2>2, <2>3
<1>2. CASE BurnFamily(r)
  BY <1>2, TypesDelete DEF BurnFamily, TypeOK
<1>3. CASE ReloadUser(r)
  <2>1. req[r] \in FoundReq /\ req[r].pc = "found" /\ UNCHANGED <<people, pair, live>>
    BY <1>3, PcTells DEF ReloadUser, At
  <2>2. CASE Readable
    <3> DEFINE s == Bought(r, LoadedUser)
    <3>1. s \in BoughtReq /\ s.tok = req[r].tok
      BY <2>1, LoadedClaims DEF LoadedUser, BoughtReq, FoundReq, Bought
    <3>2. s \in RequestState /\ s.tok \in Minted
      BY <2>1, <3>1 DEF RequestState, TypeOK, Presenting
    <3>3. Becomes(r, s) /\ UNCHANGED ended
      BY <1>3, <2>2 DEF ReloadUser, Readable
    <3> HIDE DEF s
    <3> QED BY <2>1, <3>2, <3>3, TypesKept DEF TypeOK
  <2>3. CASE ~Readable
    <3> DEFINE s == [pc |-> "revoke all"]
    <3>1. s \in PlainReq /\ s.pc \notin Presenting \cup {"burn"}
      BY DEF PlainReq, Presenting
    <3>2. s \in RequestState
      BY <3>1 DEF RequestState
    <3>3. Becomes(r, s) /\ ended' = ended \cup Opened
      BY <1>3, <2>3 DEF ReloadUser, Readable
    <3> HIDE DEF s
    <3> QED BY <2>1, <3>1, <3>2, <3>3, TypesKept DEF TypeOK
  <2> QED BY <2>2, <2>3
<1>4. CASE Consume(r)
  <2> DEFINE late == req[r].late \/ req[r].tok \notin live
             s == [req[r] EXCEPT !.pc = "consumed", !.late = late]
  <2>1. req[r] \in BoughtReq /\ req[r].pc = "loaded"
    BY <1>4, PcTells DEF Consume, At
  <2>2. Becomes(r, s) /\ live' \subseteq live /\ UNCHANGED <<people, pair, ended>>
    BY <1>4 DEF Consume
  <2>3. late \in BOOLEAN
    OBVIOUS
  <2> HIDE DEF late
  <2>4. s \in BoughtReq /\ s.tok = req[r].tok
    BY <2>1, <2>3 DEF BoughtReq
  <2>5. s \in RequestState /\ s.tok \in Minted
    BY <2>1, <2>4 DEF RequestState, TypeOK, Presenting
  <2> HIDE DEF s
  <2> QED BY <2>2, <2>5, TypesKept DEF TypeOK
<1>5. ASSUME NEW n \in 2 .. Depth, MintNext(r, n) PROVE TypeOK'
  <2> DEFINE old == req[r].tok
             t == <<old[1], n>>
             p == [from |-> old[2], by |-> pair[old].by, user |-> req[r].user,
                   since |-> req[r].since, late |-> req[r].late \/ pair[old].late]
  <2>1. req[r] \in BoughtReq /\ req[r].pc = "consumed" /\ old \in Minted
    BY <1>5, PcTells DEF MintNext, At, TypeOK, Presenting
  <2>2. pair[old] \in Pair /\ old[1] \in Family /\ old[2] \in 1 .. Depth
    BY <2>1, PairsTyped
  <2>3. t \in Token /\ t[1] = old[1]
    BY <2>2 DEF Token
  <2>4. pair[t] = NoPair /\ pair' = [pair EXCEPT ![t] = p] /\ live' = live \cup {t}
        /\ Becomes(r, Idle) /\ UNCHANGED <<people, ended>>
    BY <1>5 DEF MintNext
  <2>5. p \in Pair
    <3>1. (req[r].late \/ pair[old].late) \in BOOLEAN
      OBVIOUS
    <3> QED BY <2>1, <2>2, <3>1 DEF Pair, BoughtReq, Version
  <2> HIDE DEF old, t, p
  <2>6. /\ Minted' = Minted \cup {t} /\ Opened \subseteq Opened'
        /\ pair' \in [Token -> Pair \cup {NoPair}]
    BY <2>3, <2>4, <2>5, MintedGrows
  <2> QED BY <2>4, <2>6, IdleState DEF TypeOK, Becomes, people
<1> QED BY <1>1, <1>2, <1>3, <1>4, <1>5 DEF Refresh

LEMMA RevokeTypes ==
    ASSUME TypeOK, NEW r \in Request, Revoke(r) PROVE TypeOK'
<1>1. ASSUME NEW f \in Family, RevokeSession(r, f) PROVE TypeOK'
  BY <1>1, TypesDelete DEF RevokeSession, TypeOK
<1>2. CASE RevokeAllSessions(r)
  BY <1>2, TypesDelete DEF RevokeAllSessions, TypeOK
<1>3. ASSUME NEW s \in PlainReq, Becomes(r, s), UNCHANGED <<pair, live, grant, audit>>,
             row' \in UserRow,
             ended' \subseteq Opened
      PROVE  TypeOK'
  <2>1. s \in RequestState /\ s.pc \notin Presenting \cup {"burn"}
    BY DEF RequestState, PlainReq, Presenting
  <2> QED BY <1>3, <2>1, TypesOfOne DEF TypeOK
<1>4. [pc |-> "revoke all"] \in PlainReq /\ [pc |-> "reset found"] \in PlainReq
  BY DEF PlainReq
<1>5. CASE StartRevokeAll(r)
  BY <1>3, <1>4, <1>5 DEF StartRevokeAll, people, TypeOK
<1>6. CASE FindReset(r)
  BY <1>3, <1>4, <1>6 DEF FindReset, people, TypeOK
<1>7. CASE SaveReset(r)
  BY <1>3, <1>4, <1>7 DEF SaveReset, TypeOK, UserRow
<1>8. CASE RequestReset(r)
  BY <1>8 DEF RequestReset, TypeOK, Minted, Opened, UserRow
<1> QED BY <1>1, <1>2, <1>5, <1>6, <1>7, <1>8 DEF Revoke

LEMMA ActivateTypes ==
    ASSUME TypeOK, NEW r \in Request, Activate(r) PROVE TypeOK'
<1>0. row \in UserRow
      /\ grant \in [Grant -> [used : BOOLEAN, revoked : BOOLEAN]] /\ audit \subseteq Grant
  BY DEF TypeOK
<1>1. ASSUME NEW s \in GrantReq \cup OwnerReq \cup VerifiedReq \cup {Idle}, Becomes(r, s),
             UNCHANGED <<row, pair, live, ended>>,
             grant' \in [Grant -> [used : BOOLEAN, revoked : BOOLEAN]], audit' \subseteq Grant
      PROVE  TypeOK'
  <2>1. s \in RequestState /\ s.pc \notin Presenting \cup {"burn"}
    BY IdleState DEF RequestState, GrantReq, OwnerReq, VerifiedReq, Presenting
  <2> QED BY <1>0, <1>1, <2>1, TypesOfOne DEF TypeOK
<1>2. ASSUME NEW g \in Grant, FindGrant(r, g) PROVE TypeOK'
  <2>1. [pc |-> "grant found", by |-> g] \in GrantReq
    BY DEF GrantReq
  <2> QED BY <1>0, <1>1, <1>2, <2>1 DEF FindGrant, people
<1>3. CASE ClaimGrant(r)
  <2> DEFINE s == [req[r] EXCEPT !.pc = "claimed"]
  <2>1. req[r] \in GrantReq
    BY <1>3, PcTells DEF ClaimGrant, At
  <2>2. s \in GrantReq /\ req[r].by \in Grant
    BY <2>1 DEF GrantReq
  <2>3. Becomes(r, s) \/ Becomes(r, Idle)
    BY <1>3 DEF ClaimGrant
  <2>4. grant' \in [Grant -> [used : BOOLEAN, revoked : BOOLEAN]]
    BY <1>0, <1>3, <2>2 DEF ClaimGrant
  <2> HIDE DEF s
  <2> QED BY <1>0, <1>1, <1>3, <2>2, <2>3, <2>4 DEF ClaimGrant
<1>4. CASE ReadOwner(r)
  <2> DEFINE o == [pc |-> "owner", by |-> req[r].by, user |-> UserOf(TRUE), since |-> row.version]
             u == [pc |-> "unclaim", by |-> req[r].by]
  <2>1. req[r].by \in Grant
    BY <1>4, PcTells DEF ReadOwner, At, GrantReq
  <2>2. o \in OwnerReq /\ u \in GrantReq
    BY <1>0, <2>1, LoadedClaims DEF OwnerReq, GrantReq, UserRow
  <2>3. Becomes(r, o) \/ Becomes(r, u)
    BY <1>4 DEF ReadOwner
  <2> HIDE DEF o, u
  <2> QED BY <1>0, <1>1, <1>4, <2>2, <2>3 DEF ReadOwner, people
<1>5. ASSUME NEW ok \in BOOLEAN, AuditActivation(r, ok) PROVE TypeOK'
  <2> DEFINE v == [req[r] EXCEPT !.pc = "verified"]
             u == [pc |-> "unclaim", by |-> req[r].by]
  <2>1. req[r] \in OwnerReq
    BY <1>5, PcTells DEF AuditActivation, At
  <2>2. v \in VerifiedReq /\ u \in GrantReq /\ req[r].by \in Grant
    BY <2>1 DEF OwnerReq, GrantReq, VerifiedReq
  <2>3. Becomes(r, v) \/ Becomes(r, u)
    BY <1>5 DEF AuditActivation
  <2>4. audit' \subseteq Grant
    BY <1>0, <1>5, <2>2 DEF AuditActivation
  <2> HIDE DEF v, u
  <2> QED BY <1>0, <1>1, <1>5, <2>2, <2>3, <2>4 DEF AuditActivation
<1>6. CASE UnclaimGrant(r)
  <2>1. req[r].by \in Grant
    BY <1>6, PcTells DEF UnclaimGrant, At, GrantReq
  <2>2. grant' \in [Grant -> [used : BOOLEAN, revoked : BOOLEAN]]
    BY <1>0, <1>6, <2>1 DEF UnclaimGrant
  <2> QED BY <1>0, <1>1, <1>6, <2>2 DEF UnclaimGrant
<1> QED BY <1>2, <1>3, <1>4, <1>5, <1>6 DEF Activate

\* Steps that no request takes.
LEMMA OutsideTypes ==
    ASSUME TypeOK,
           (\E b \in BOOLEAN : ChangeUser(b)) \/ (\E g \in Grant : RevokeGrant(g)) \/ Restart
    PROVE  TypeOK'
<1>1. Minted' = Minted /\ Opened' = Opened
  BY DEF ChangeUser, RevokeGrant, Restart, Minted, Opened
<1>2. ASSUME NEW b \in BOOLEAN, ChangeUser(b) PROVE TypeOK'
  <2>1. row.version \in Version /\ row.version < MaxChanges
    BY <1>2 DEF ChangeUser, TypeOK, UserRow
  <2>2. row.version + 1 \in Version
    BY <2>1 DEF Version
  <2>3. \A v \in Version : [row EXCEPT !.active = b, !.version = v]
                              \in UserRow
    BY DEF TypeOK, UserRow
  <2> QED BY <1>1, <1>2, <2>2, <2>3 DEF ChangeUser, TypeOK
<1>3. ASSUME NEW g \in Grant, RevokeGrant(g) PROVE TypeOK'
  BY <1>1, <1>3 DEF RevokeGrant, TypeOK
<1>4. CASE Restart
  <2>1. req' = [r \in Request |-> Idle] /\ live' \subseteq live /\ ended' \subseteq ended
        /\ UNCHANGED <<people, pair>>
    BY <1>4 DEF Restart
  <2> QED BY <1>1, <2>1, IdleState DEF TypeOK, people
<1> QED BY <1>2, <1>3, <1>4

LEMMA InitTypes == Init => TypeOK
<1> SUFFICES ASSUME Init PROVE TypeOK
  OBVIOUS
<1>1. \A t \in Token : pair[t] = NoPair
  BY DEF Init
<1>2. row \in UserRow
  BY DEF Init, Version, UserRow
<1>3. grant \in [Grant -> [used : BOOLEAN, revoked : BOOLEAN]]
  BY DEF Init
<1> QED BY <1>1, <1>2, <1>3, IdleState DEF Init, TypeOK

LEMMA TypesStep == TypeOK /\ [Next]_vars => TypeOK'
<1> SUFFICES ASSUME TypeOK, [Next]_vars PROVE TypeOK'
  OBVIOUS
<1>1. CASE Next
  BY <1>1, OpenTypes, RefreshTypes, RevokeTypes, ActivateTypes, OutsideTypes DEF Next
<1>2. CASE UNCHANGED vars
  BY <1>2 DEF vars, TypeOK, Minted, Opened
<1> QED BY <1>1, <1>2

-----------------------------------------------------------------------------
(* Steps by what they do *)

\* Steps of r that mint, use up and revoke nothing.
Quiet(r) ==
    \/ (\E school \in BOOLEAN : VerifyUser(r, school)) \/ RequestReset(r) \/ FindReset(r)
    \/ \E g \in Grant : FindGrant(r, g)
    \/ ClaimGrant(r) \/ ReadOwner(r) \/ UnclaimGrant(r)
    \/ \E ok \in BOOLEAN : AuditActivation(r, ok)

\* Steps of r that decide on a revocation.
Deciding(r) ==
    \/ StartRevokeAll(r) \/ SaveReset(r)
    \/ ReloadUser(r) /\ ~Readable
    \/ \E t \in Token : FindRecord(r, t) /\ t \notin live

\* Deletions by r.
Deletes(r, F) ==
    \/ BurnFamily(r) /\ F = {req[r].tok[1]}
    \/ RevokeAllSessions(r) /\ F = Family
    \/ \E f \in Family : RevokeSession(r, f) /\ F = {f}

Outside ==
    \/ \E b \in BOOLEAN : ChangeUser(b)
    \/ \E g \in Grant : RevokeGrant(g)

LEMMA StepsByKind ==
    ASSUME Next
    PROVE  \/ \E r \in Request :
                 \/ Quiet(r) \/ Deciding(r) \/ \E F : Deletes(r, F)
                 \/ \E f \in Family : OpenFamily(r, f)
                 \/ \E t \in live : FindRecord(r, t)
                 \/ ReloadUser(r) /\ Readable
                 \/ Consume(r)
                 \/ \E n \in 2 .. Depth : MintNext(r, n)
           \/ Outside \/ Restart
<1> DEFINE Goal == \/ \E r \in Request :
                         \/ Quiet(r) \/ Deciding(r) \/ \E F : Deletes(r, F)
                         \/ \E f \in Family : OpenFamily(r, f)
                         \/ \E t \in live : FindRecord(r, t)
                         \/ ReloadUser(r) /\ Readable
                         \/ Consume(r)
                         \/ \E n \in 2 .. Depth : MintNext(r, n)
                   \/ Outside \/ Restart
<1> SUFFICES Goal
  OBVIOUS
<1>1. ASSUME NEW r \in Request, Open(r) PROVE Goal
  BY <1>1 DEF Open, Quiet
<1>2. ASSUME NEW r \in Request, Refresh(r) PROVE Goal
  BY <1>2 DEF Refresh, Deletes, Deciding
<1>3. ASSUME NEW r \in Request, Revoke(r) PROVE Goal
  BY <1>3 DEF Revoke, Deletes, Deciding, Quiet
<1>4. ASSUME NEW r \in Request, Activate(r) PROVE Goal
  BY <1>4 DEF Activate, Quiet
<1>5. CASE Outside \/ Restart
  BY <1>5
<1> HIDE DEF Goal
<1> QED BY <1>1, <1>2, <1>3, <1>4, <1>5 DEF Next, Outside

\* A quiet step of r, seen from the sessions.
LEMMA QuietSteps ==
    ASSUME TypeOK, NEW r \in Request, Quiet(r)
    PROVE  /\ UNCHANGED <<pair, live, ended>>
           /\ row'.version = row.version
           /\ req[r].pc \notin Presenting \cup {"burn", "revoke all"}
           /\ req'[r].pc \notin Presenting \cup {"burn", "revoke all"}
           /\ \A q \in Request \ {r} : req'[q] = req[q]
<1> DEFINE Goal == /\ UNCHANGED <<pair, live, ended>>
                   /\ row'.version = row.version
                   /\ req[r].pc \notin Presenting \cup {"burn", "revoke all"}
                   /\ req'[r].pc \notin Presenting \cup {"burn", "revoke all"}
                   /\ \A q \in Request \ {r} : req'[q] = req[q]
<1> SUFFICES Goal
  OBVIOUS
<1>0. req \in [Request -> RequestState]
      /\ row \in UserRow
  BY DEF TypeOK
<1>1. ASSUME NEW s, s.pc \notin Presenting \cup {"burn", "revoke all"}, Becomes(r, s),
             req[r].pc \notin Presenting \cup {"burn", "revoke all"},
             UNCHANGED <<row, pair, live, ended>>
      PROVE  Goal
  BY <1>0, <1>1 DEF Becomes
<1>2. CASE RequestReset(r)
  BY <1>0, <1>2 DEF RequestReset, At, Presenting, UserRow
<1> HIDE DEF Goal
<1>3. CASE (\E school \in BOOLEAN : VerifyUser(r, school)) \/ FindReset(r) \/ \E g \in Grant : FindGrant(r, g)
  BY <1>1, <1>3 DEF VerifyUser, FindReset, FindGrant, At, Presenting, people
<1>4. CASE ClaimGrant(r)
  <2> DEFINE s == [req[r] EXCEPT !.pc = "claimed"]
  <2>1. req[r] \in GrantReq
    BY <1>4, PcTells DEF ClaimGrant, At
  <2>2. s.pc = "claimed"
    BY <2>1 DEF GrantReq
  <2>3. Becomes(r, s) \/ Becomes(r, Idle)
    BY <1>4 DEF ClaimGrant
  <2> HIDE DEF s
  <2>4. s.pc \notin Presenting \cup {"burn", "revoke all"}
        /\ Idle.pc \notin Presenting \cup {"burn", "revoke all"}
    BY <2>2, IdleState DEF Presenting
  <2>5. req[r].pc \notin Presenting \cup {"burn", "revoke all"}
        /\ UNCHANGED <<row, pair, live, ended>>
    BY <1>4 DEF ClaimGrant, At, Presenting
  <2> QED BY <1>1, <2>3, <2>4, <2>5
<1>5. CASE ReadOwner(r)
  <2>1. PICK s : Becomes(r, s) /\ s.pc \in {"owner", "unclaim"}
    BY <1>5 DEF ReadOwner
  <2> QED BY <1>1, <1>5, <2>1 DEF ReadOwner, At, Presenting, people
<1>6. ASSUME NEW ok \in BOOLEAN, AuditActivation(r, ok) PROVE Goal
  <2> DEFINE v == [req[r] EXCEPT !.pc = "verified"]
             u == [pc |-> "unclaim", by |-> req[r].by]
  <2>1. req[r] \in OwnerReq
    BY <1>6, PcTells DEF AuditActivation, At
  <2>2. v.pc = "verified" /\ u.pc = "unclaim"
    BY <2>1 DEF OwnerReq
  <2>3. Becomes(r, v) \/ Becomes(r, u)
    BY <1>6 DEF AuditActivation
  <2> HIDE DEF v, u
  <2>4. req[r].pc \notin Presenting \cup {"burn", "revoke all"}
        /\ UNCHANGED <<row, pair, live, ended>>
    BY <1>6 DEF AuditActivation, At, Presenting
  <2> QED BY <1>1, <2>2, <2>3, <2>4 DEF Presenting
<1>7. CASE UnclaimGrant(r)
  BY <1>1, <1>7, IdleState DEF UnclaimGrant, At, Presenting
<1> QED BY <1>2, <1>3, <1>4, <1>5, <1>6, <1>7 DEF Quiet

LEMMA DecidingSteps ==
    ASSUME TypeOK, NEW r \in Request, Deciding(r)
    PROVE  /\ UNCHANGED <<pair, live, grant, audit>>
           /\ row'.version = row.version
           /\ req[r].pc \notin {"burn", "revoke all"}
           /\ req'[r].pc \in {"burn", "revoke all"}
           /\ \A q \in Request \ {r} : req'[q] = req[q]
           /\ \A f \in ended' : f \in ended \/ Deleting(f)'
<1>0. req \in [Request -> RequestState]
      /\ row \in UserRow
  BY DEF TypeOK
<1> DEFINE Goal == /\ UNCHANGED <<pair, live, grant, audit>>
                   /\ row'.version = row.version
                   /\ req[r].pc \notin {"burn", "revoke all"}
                   /\ req'[r].pc \in {"burn", "revoke all"}
                   /\ \A q \in Request \ {r} : req'[q] = req[q]
                   /\ \A f \in ended' : f \in ended \/ Deleting(f)'
<1> SUFFICES Goal
  OBVIOUS
<1>1. ASSUME Becomes(r, [pc |-> "revoke all"]), UNCHANGED <<pair, live, grant, audit>>,
             row'.version = row.version, req[r].pc \notin {"burn", "revoke all"}
      PROVE  Goal
  <2>1. req'[r].pc = "revoke all" /\ \A q \in Request \ {r} : req'[q] = req[q]
    BY <1>0, <1>1 DEF Becomes
  <2> QED BY <1>1, <2>1 DEF Deleting, At
<1>2. ASSUME NEW t \in Token, FindRecord(r, t), t \notin live PROVE Goal
  <2>1. /\ req'[r] = [pc |-> "burn", tok |-> t] /\ ended' = ended \cup {t[1]}
        /\ \A q \in Request \ {r} : req'[q] = req[q]
    BY <1>0, <1>2 DEF FindRecord, Becomes
  <2>2. Deleting(t[1])'
    <3>1. req'[r].pc = "burn" /\ req'[r].tok = t
      BY <2>1
    <3> QED BY <3>1 DEF Deleting, At
  <2> QED BY <1>2, <2>1, <2>2 DEF FindRecord, At, people
<1> HIDE DEF Goal
<1>3. CASE StartRevokeAll(r)
  BY <1>1, <1>3 DEF StartRevokeAll, At, people
<1>4. CASE SaveReset(r)
  BY <1>0, <1>1, <1>4 DEF SaveReset, At, UserRow
<1>5. CASE ReloadUser(r) /\ ~Readable
  BY <1>1, <1>5 DEF ReloadUser, At, people, Readable
<1> QED BY <1>2, <1>3, <1>4, <1>5 DEF Deciding

LEMMA DeletesSteps ==
    ASSUME TypeOK, NEW r \in Request, NEW F, Deletes(r, F)
    PROVE  /\ UNCHANGED <<pair, people>>
           /\ live' = {t \in live : t[1] \notin F}
           /\ req'[r] = Idle /\ \A q \in Request \ {r} : req'[q] = Overtaken(F)[q]
           /\ ended \subseteq ended' /\ ended' \subseteq ended \cup F
           /\ \A f \in Family \ F : Deleting(f) => Deleting(f)'
<1>1. DeleteFamilies(r, F) /\ UNCHANGED <<pair, people>>
      /\ ended \subseteq ended' /\ ended' \subseteq ended \cup F
  BY DEF Deletes, BurnFamily, RevokeAllSessions, RevokeSession
<1>2. /\ live' = {t \in live : t[1] \notin F}
      /\ req'[r] = Idle /\ \A q \in Request \ {r} : req'[q] = Overtaken(F)[q]
  BY <1>1 DEF DeleteFamilies, Overtaken
<1>3. ASSUME NEW f \in Family \ F, Deleting(f) PROVE Deleting(f)'
  <2>1. PICK q \in Request : At(q, "revoke all") \/ (At(q, "burn") /\ req[q].tok[1] = f)
    BY <1>3 DEF Deleting
  <2>2. q # r
    BY <1>3, <2>1 DEF Deletes, BurnFamily, RevokeAllSessions, RevokeSession, At
  <2>3. req'[q] = req[q]
    <3>1. req[q].pc \notin Presenting
      BY <2>1 DEF At, Presenting
    <3>2. Overtaken(F)[q] = req[q]
      BY <3>1, OvertakenState
    <3> QED BY <1>2, <2>2, <3>2
  <2> QED BY <2>1, <2>3 DEF Deleting, At
<1> QED BY <1>1, <1>2, <1>3

\* Opening a session, and the next pair of one.
LEMMA OpenSteps ==
    ASSUME TypeOK, NEW r \in Request, NEW f \in Family, OpenFamily(r, f)
    PROVE  LET t == First(f)
               p == [from |-> 0, by |-> req[r].by, user |-> req[r].user,
                     since |-> req[r].since, late |-> FALSE]
           IN  /\ t \in Token /\ t[1] = f /\ t[2] = 1 /\ f \notin Opened /\ t \notin Minted
               /\ Minted' = Minted \cup {t} /\ pair'[t] = p
               /\ \A u \in Minted : pair'[u] = pair[u]
               /\ live' = live \cup {t} /\ req[r].pc = "verified" /\ req[r] \in VerifiedReq
               /\ req'[r] = Idle /\ \A q \in Request \ {r} : req'[q] = req[q]
               /\ UNCHANGED <<people, ended>>
<1> DEFINE t == First(f)
           p == [from |-> 0, by |-> req[r].by, user |-> req[r].user,
                 since |-> req[r].since, late |-> FALSE]
<1>1. req[r] \in VerifiedReq /\ req[r].pc = "verified" /\ req \in [Request -> RequestState]
  BY PcTells DEF OpenFamily, At, TypeOK
<1>2. p \in Pair
  BY <1>1 DEF Pair, VerifiedReq, Version
<1>3. t \in Token /\ t[1] = f /\ t[2] = 1
  BY DEF First, Token
<1>4. pair[t] = NoPair /\ f \notin Opened
  BY <1>3 DEF OpenFamily, Opened, Minted
<1>5. pair' = [pair EXCEPT ![t] = p] /\ live' = live \cup {t} /\ Becomes(r, Idle)
      /\ UNCHANGED <<people, ended>>
  BY DEF OpenFamily
<1> HIDE DEF t, p
<1>6. /\ Minted' = Minted \cup {t} /\ t \notin Minted
      /\ \A u \in Minted : pair'[u] = pair[u]
      /\ pair'[t] = p
  BY <1>2, <1>3, <1>4, <1>5, MintedGrows
<1>7. req'[r] = Idle /\ \A q \in Request \ {r} : req'[q] = req[q]
  BY <1>1, <1>5 DEF Becomes
<1> QED BY <1>1, <1>3, <1>4, <1>5, <1>6, <1>7 DEF t, p

LEMMA MintSteps ==
    ASSUME TypeOK, NEW r \in Request, NEW n \in 2 .. Depth, MintNext(r, n)
    PROVE  LET old == req[r].tok
               t == <<old[1], n>>
               p == [from |-> old[2], by |-> pair[old].by, user |-> req[r].user,
                     since |-> req[r].since, late |-> req[r].late \/ pair[old].late]
           IN  /\ t \in Token /\ t[1] = old[1] /\ t[2] = n /\ t \notin Minted
               /\ old \in Minted /\ old[2] \in 1 .. Depth /\ old \in Token
               /\ Minted' = Minted \cup {t} /\ pair'[t] = p
               /\ \A u \in Minted : pair'[u] = pair[u]
               /\ live' = live \cup {t} /\ req[r].pc = "consumed" /\ req[r] \in BoughtReq
               /\ req'[r] = Idle /\ \A q \in Request \ {r} : req'[q] = req[q]
               /\ UNCHANGED <<people, ended>>
<1> DEFINE old == req[r].tok
           t == <<old[1], n>>
           p == [from |-> old[2], by |-> pair[old].by, user |-> req[r].user,
                 since |-> req[r].since, late |-> req[r].late \/ pair[old].late]
<1>1. req[r] \in BoughtReq /\ req[r].pc = "consumed" /\ old \in Minted
      /\ req \in [Request -> RequestState]
  BY PcTells DEF MintNext, At, TypeOK, Presenting
<1>2. pair[old] \in Pair /\ old[1] \in Family /\ old[2] \in 1 .. Depth /\ old \in Token
  BY <1>1, PairsTyped
<1>3. t \in Token /\ t[1] = old[1] /\ t[2] = n
  BY <1>2 DEF Token
<1>4. pair[t] = NoPair /\ pair' = [pair EXCEPT ![t] = p] /\ live' = live \cup {t}
      /\ Becomes(r, Idle) /\ UNCHANGED <<people, ended>>
  BY DEF MintNext
<1>5. p \in Pair
  <2>1. (req[r].late \/ pair[old].late) \in BOOLEAN
    OBVIOUS
  <2> QED BY <1>1, <1>2, <2>1 DEF Pair, BoughtReq, Version
<1> HIDE DEF old, t, p
<1>6. /\ Minted' = Minted \cup {t} /\ t \notin Minted
      /\ \A u \in Minted : pair'[u] = pair[u]
      /\ pair'[t] = p
  BY <1>3, <1>4, <1>5, MintedGrows
<1>7. req'[r] = Idle /\ \A q \in Request \ {r} : req'[q] = req[q]
  BY <1>1, <1>4 DEF Becomes
<1> QED BY <1>1, <1>2, <1>3, <1>4, <1>6, <1>7 DEF old, t, p

\* A refresh between its reads: what it holds, it keeps.
LEMMA FindSteps ==
    ASSUME TypeOK, NEW r \in Request, NEW t \in live, FindRecord(r, t)
    PROVE  /\ UNCHANGED <<people, pair, live, ended>>
           /\ req[r].pc = "idle"
           /\ req'[r] = [pc |-> "found", tok |-> t, since |-> row.version, late |-> FALSE]
           /\ \A q \in Request \ {r} : req'[q] = req[q]
BY DEF FindRecord, Becomes, At, TypeOK

LEMMA ReloadSteps ==
    ASSUME TypeOK, NEW r \in Request, ReloadUser(r), Readable
    PROVE  /\ UNCHANGED <<people, pair, live, ended>>
           /\ req[r].pc = "found" /\ req[r] \in FoundReq
           /\ req'[r] = Bought(r, LoadedUser)
           /\ \A q \in Request \ {r} : req'[q] = req[q]
BY PcTells DEF ReloadUser, Becomes, At, TypeOK, Readable

LEMMA ConsumeSteps ==
    ASSUME TypeOK, NEW r \in Request, Consume(r)
    PROVE  /\ UNCHANGED <<people, pair, ended>>
           /\ live' = live \ {req[r].tok}
           /\ req[r].pc = "loaded" /\ req[r] \in BoughtReq
           /\ req'[r].pc = "consumed" /\ req'[r].tok = req[r].tok
           /\ req'[r].user = req[r].user /\ req'[r].since = req[r].since
           /\ req'[r].late <=> req[r].late \/ req[r].tok \notin live
           /\ \A q \in Request \ {r} : req'[q] = req[q]
<1> DEFINE late == req[r].late \/ req[r].tok \notin live
           s == [req[r] EXCEPT !.pc = "consumed", !.late = late]
<1>1. req[r] \in BoughtReq /\ req[r].pc = "loaded" /\ req \in [Request -> RequestState]
  BY PcTells DEF Consume, At, TypeOK
<1>2. Becomes(r, s) /\ live' = live \ {req[r].tok} /\ UNCHANGED <<people, pair, ended>>
  BY DEF Consume
<1> HIDE DEF late
<1>3. s.pc = "consumed" /\ s.tok = req[r].tok /\ s.user = req[r].user
      /\ s.since = req[r].since /\ s.late = late
  BY <1>1 DEF BoughtReq
<1>4. req'[r] = s /\ \A q \in Request \ {r} : req'[q] = req[q]
  BY <1>1, <1>2 DEF Becomes
<1> HIDE DEF s
<1>5. req'[r].late = late
  BY <1>3, <1>4
<1> QED BY <1>1, <1>2, <1>3, <1>4, <1>5 DEF late

-----------------------------------------------------------------------------
(* The claims of a pair were true when it was minted *)

\* What holds of the requests after a step of r, if it holds of what r became.
ClaimsOf(s, v) ==
    /\ s.pc = "found" => s.since <= v
    /\ s.pc \in HasClaims => s.user.active /\ s.user.version >= s.since

LEMMA ClaimsKept ==
    ASSUME TypeOK, ClaimsInv, NEW r \in Request, pair' = pair, row'.version = row.version,
           ClaimsOf(req'[r], row.version), \A q \in Request \ {r} : req'[q] = req[q]
    PROVE  ClaimsInv'
<1>1. ClaimsAreTrue'
  BY DEF ClaimsInv, ClaimsAreTrue, Minted
<1>2. ASSUME NEW q \in Request PROVE ClaimsOf(req'[q], row'.version)
  BY DEF ClaimsInv, ClaimsOf
<1> QED BY <1>1, <1>2 DEF ClaimsInv, ClaimsOf

LEMMA QuietClaims ==
    ASSUME TypeOK, ClaimsInv, NEW r \in Request, Quiet(r)
    PROVE  ClaimsInv'
<1>0. req \in [Request -> RequestState] /\ row.version \in Nat
  BY DEF TypeOK, Version, UserRow
<1>1. /\ pair' = pair /\ row'.version = row.version
      /\ \A q \in Request \ {r} : req'[q] = req[q]
  BY QuietSteps
<1> DEFINE Goal == ClaimsOf(req'[r], row.version)
<1> SUFFICES Goal
  BY <1>1, ClaimsKept
<1>2. \A s : Becomes(r, s) => req'[r] = s
  BY <1>0 DEF Becomes
<1>3. ASSUME req'[r].pc \notin HasClaims \cup {"found"} PROVE Goal
  BY <1>3 DEF ClaimsOf
<1>4. ASSUME NEW s, Becomes(r, s), s.pc \in HasClaims, NEW school, s.user = UserOf(school), row.active,
             s.since = row.version
      PROVE  Goal
  BY <1>0, <1>2, <1>4 DEF ClaimsOf, UserOf, HasClaims
<1>5. ASSUME NEW school \in BOOLEAN, VerifyUser(r, school) PROVE Goal
  <2> DEFINE s == [pc |-> "verified", user |-> UserOf(school), since |-> row.version, by |-> Self]
  <2>1. Becomes(r, s) /\ row.active
    BY <1>5 DEF VerifyUser
  <2>2. s.pc = "verified" /\ s.user = UserOf(school) /\ s.since = row.version
    OBVIOUS
  <2> HIDE DEF s
  <2> QED BY <1>4, <2>1, <2>2 DEF HasClaims
<1>6. CASE RequestReset(r)
  BY <1>3, <1>6 DEF RequestReset, At, HasClaims
<1>7. CASE FindReset(r) \/ \E g \in Grant : FindGrant(r, g)
  <2>1. req'[r].pc \in {"reset found", "grant found"}
    <3> DEFINE s == [pc |-> "reset found"]
               u(g) == [pc |-> "grant found", by |-> g]
    <3>1. s.pc = "reset found" /\ \A g : u(g).pc = "grant found"
      OBVIOUS
    <3>2. Becomes(r, s) \/ \E g \in Grant : Becomes(r, u(g))
      BY <1>7 DEF FindReset, FindGrant
    <3> HIDE DEF s, u
    <3> QED BY <1>2, <3>1, <3>2
  <2> QED BY <1>3, <2>1 DEF HasClaims
<1>8. CASE ClaimGrant(r)
  <2>1. req[r] \in GrantReq
    BY <1>8, PcTells DEF ClaimGrant, At
  <2>2. [req[r] EXCEPT !.pc = "claimed"].pc = "claimed"
    BY <2>1 DEF GrantReq
  <2>3. req'[r].pc \in {"claimed", "idle"}
    BY <1>2, <1>8, <2>2, IdleState DEF ClaimGrant
  <2> QED BY <1>3, <2>3 DEF HasClaims
<1>9. CASE ReadOwner(r)
  <2> DEFINE o == [pc |-> "owner", by |-> req[r].by, user |-> UserOf(TRUE), since |-> row.version]
             u == [pc |-> "unclaim", by |-> req[r].by]
  <2>1. (row.active /\ Becomes(r, o)) \/ Becomes(r, u)
    BY <1>9 DEF ReadOwner
  <2>2. o.pc = "owner" /\ o.user = UserOf(TRUE) /\ o.since = row.version /\ u.pc = "unclaim"
    OBVIOUS
  <2> HIDE DEF o, u
  <2>3. CASE row.active /\ Becomes(r, o)
    BY <1>4, <2>2, <2>3 DEF HasClaims
  <2>4. CASE Becomes(r, u)
    BY <1>2, <1>3, <2>2, <2>4 DEF HasClaims
  <2> QED BY <2>1, <2>3, <2>4
<1>10. ASSUME NEW ok \in BOOLEAN, AuditActivation(r, ok) PROVE Goal
  <2> DEFINE v == [req[r] EXCEPT !.pc = "verified"]
             u == [pc |-> "unclaim", by |-> req[r].by]
  <2>1. req[r] \in OwnerReq /\ req[r].pc = "owner"
    BY <1>10, PcTells DEF AuditActivation, At
  <2>2. v.pc = "verified" /\ v.user = req[r].user /\ v.since = req[r].since /\ u.pc = "unclaim"
    BY <2>1 DEF OwnerReq
  <2>3. Becomes(r, v) \/ Becomes(r, u)
    BY <1>10 DEF AuditActivation
  <2>4. req[r].user.active /\ req[r].user.version >= req[r].since
    BY <2>1 DEF ClaimsInv, HasClaims
  <2> HIDE DEF v, u
  <2>5. CASE Becomes(r, v)
    BY <1>2, <2>2, <2>4, <2>5 DEF ClaimsOf, HasClaims
  <2>6. CASE Becomes(r, u)
    BY <1>2, <1>3, <2>2, <2>6 DEF HasClaims
  <2> QED BY <2>3, <2>5, <2>6
<1>11. CASE UnclaimGrant(r)
  BY <1>2, <1>3, <1>11, IdleState DEF UnclaimGrant, HasClaims
<1> HIDE DEF Goal
<1> QED BY <1>5, <1>6, <1>7, <1>8, <1>9, <1>10, <1>11 DEF Quiet

LEMMA ClaimsStep == TypeOK /\ ClaimsInv /\ [Next]_vars => ClaimsInv'
<1> SUFFICES ASSUME TypeOK, ClaimsInv, [Next]_vars PROVE ClaimsInv'
  OBVIOUS
<1>0. row.version \in Nat
  BY DEF TypeOK, Version, UserRow
<1>1. ASSUME NEW r \in Request, Deciding(r) PROVE ClaimsInv'
  <2>1. ClaimsOf(req'[r], row.version)
    BY <1>1, DecidingSteps DEF ClaimsOf, HasClaims
  <2> QED BY <1>1, <2>1, DecidingSteps, ClaimsKept
<1>2. ASSUME NEW r \in Request, NEW F, Deletes(r, F) PROVE ClaimsInv'
  <2>1. UNCHANGED <<pair, people>> /\ req'[r] = Idle
        /\ \A q \in Request \ {r} : req'[q] = Overtaken(F)[q]
    BY <1>2, DeletesSteps
  <2>2. ASSUME NEW q \in Request PROVE ClaimsOf(req'[q], row'.version)
    <3>1. ClaimsOf(Idle, row'.version)
      BY IdleState DEF ClaimsOf, HasClaims
    <3>2. ClaimsOf(Overtaken(F)[q], row.version)
      <4>1. ClaimsOf(req[q], row.version)
        BY DEF ClaimsInv, ClaimsOf
      <4> QED BY <4>1, OvertakenState DEF ClaimsOf, HasClaims, Presenting
    <3> QED BY <2>1, <3>1, <3>2 DEF people
  <2>3. ClaimsAreTrue'
    BY <2>1 DEF ClaimsInv, ClaimsAreTrue, Minted
  <2> QED BY <2>2, <2>3 DEF ClaimsInv, ClaimsOf
<1>3. ASSUME NEW r \in Request, NEW t, NEW p, Minted' = Minted \cup {t}, pair'[t] = p,
             \A u \in Minted : pair'[u] = pair[u], UNCHANGED people, req'[r] = Idle,
             \A q \in Request \ {r} : req'[q] = req[q],
             p.user.active, p.user.version >= p.since
      PROVE  ClaimsInv'
  <2>1. ClaimsAreTrue'
    BY <1>3 DEF ClaimsInv, ClaimsAreTrue
  <2>2. ASSUME NEW q \in Request PROVE ClaimsOf(req'[q], row'.version)
    BY <1>3, IdleState DEF ClaimsInv, ClaimsOf, people, HasClaims
  <2> QED BY <2>1, <2>2 DEF ClaimsInv, ClaimsOf
<1>4. ASSUME NEW r \in Request, NEW f \in Family, OpenFamily(r, f) PROVE ClaimsInv'
  <2> DEFINE t == First(f)
             p == [from |-> 0, by |-> req[r].by, user |-> req[r].user,
                   since |-> req[r].since, late |-> FALSE]
  <2>1. /\ Minted' = Minted \cup {t} /\ pair'[t] = p /\ \A u \in Minted : pair'[u] = pair[u]
        /\ UNCHANGED people /\ req'[r] = Idle /\ \A q \in Request \ {r} : req'[q] = req[q]
        /\ req[r].pc = "verified"
    BY <1>4, OpenSteps
  <2>2. req[r].user.active /\ req[r].user.version >= req[r].since
    BY <2>1 DEF ClaimsInv, HasClaims
  <2>3. p.user = req[r].user /\ p.since = req[r].since
    OBVIOUS
  <2> HIDE DEF t, p
  <2> QED BY <1>3, <2>1, <2>2, <2>3
<1>5. ASSUME NEW r \in Request, NEW n \in 2 .. Depth, MintNext(r, n) PROVE ClaimsInv'
  <2> DEFINE old == req[r].tok
             t == <<old[1], n>>
             p == [from |-> old[2], by |-> pair[old].by, user |-> req[r].user,
                   since |-> req[r].since, late |-> req[r].late \/ pair[old].late]
  <2>1. /\ Minted' = Minted \cup {t} /\ pair'[t] = p /\ \A u \in Minted : pair'[u] = pair[u]
        /\ UNCHANGED people /\ req'[r] = Idle /\ \A q \in Request \ {r} : req'[q] = req[q]
        /\ req[r].pc = "consumed"
    BY <1>5, MintSteps
  <2>2. req[r].user.active /\ req[r].user.version >= req[r].since
    BY <2>1 DEF ClaimsInv, HasClaims
  <2>3. p.user = req[r].user /\ p.since = req[r].since
    OBVIOUS
  <2> HIDE DEF t, p
  <2> QED BY <1>3, <2>1, <2>2, <2>3
<1>6. ASSUME NEW r \in Request, NEW t \in live, FindRecord(r, t) PROVE ClaimsInv'
  <2>1. ClaimsOf([pc |-> "found", tok |-> t, since |-> row.version, late |-> FALSE], row.version)
    BY <1>0 DEF ClaimsOf, HasClaims
  <2>2. /\ req'[r] = [pc |-> "found", tok |-> t, since |-> row.version, late |-> FALSE]
        /\ pair' = pair /\ row' = row /\ \A q \in Request \ {r} : req'[q] = req[q]
    BY <1>6, FindSteps DEF people
  <2>3. ClaimsOf(req'[r], row.version)
    BY <2>1, <2>2
  <2> QED BY <2>2, <2>3, ClaimsKept
<1>7. ASSUME NEW r \in Request, ReloadUser(r), Readable PROVE ClaimsInv'
  <2>1. /\ req[r].pc = "found" /\ req'[r] = Bought(r, LoadedUser)
        /\ pair' = pair /\ row' = row /\ \A q \in Request \ {r} : req'[q] = req[q]
    BY <1>7, ReloadSteps DEF people
  <2>2. ClaimsOf(Bought(r, LoadedUser), row.version)
    <3>1. req[r].since <= row.version /\ req[r].since \in Nat
      BY <1>7, <2>1, ReloadSteps DEF ClaimsInv, FoundReq, Version
    <3> QED BY <1>0, <1>7, <3>1 DEF ClaimsOf, Bought, LoadedUser, UserOf, Readable
  <2>3. ClaimsOf(req'[r], row.version)
    BY <2>1, <2>2
  <2> QED BY <2>1, <2>3, ClaimsKept
<1>8. ASSUME NEW r \in Request, Consume(r) PROVE ClaimsInv'
  <2>1. /\ req[r].pc = "loaded" /\ req'[r].pc = "consumed"
        /\ req'[r].user = req[r].user /\ req'[r].since = req[r].since
        /\ pair' = pair /\ row' = row /\ \A q \in Request \ {r} : req'[q] = req[q]
    BY <1>8, ConsumeSteps DEF people
  <2>2. ClaimsOf(req'[r], row.version)
    BY <2>1 DEF ClaimsOf, ClaimsInv, HasClaims
  <2> QED BY <2>1, <2>2, ClaimsKept
<1>9. ASSUME pair' = pair, row'.version \in Nat, row.version <= row'.version,
             req' = req \/ \A q \in Request : req'[q] = Idle
      PROVE  ClaimsInv'
  <2>1. ClaimsAreTrue'
    BY <1>9 DEF ClaimsInv, ClaimsAreTrue, Minted
  <2>2. ASSUME NEW q \in Request PROVE ClaimsOf(req'[q], row'.version)
    <3>1. CASE req' = req
      <4>1. ClaimsOf(req[q], row.version)
        BY DEF ClaimsInv, ClaimsOf
      <4>2. req[q].pc = "found" => req[q].since \in Nat
        <5>1. req[q].pc = "found" => req[q].since \in Version
          BY PcTells DEF FoundReq
        <5> QED BY <5>1 DEF Version
      <4> QED BY <1>0, <1>9, <3>1, <4>1, <4>2 DEF ClaimsOf
    <3>2. CASE \A v \in Request : req'[v] = Idle
      BY <3>2, IdleState DEF ClaimsOf, HasClaims
    <3> QED BY <1>9, <3>1, <3>2
  <2> QED BY <2>1, <2>2 DEF ClaimsInv, ClaimsOf
<1>10. CASE Outside
  <2>1. row.version <= row'.version /\ row'.version \in Nat
    <3>1. \A v, b : [row EXCEPT !.active = b, !.version = v].version = v
      BY DEF TypeOK
    <3>2. CASE \E b \in BOOLEAN : ChangeUser(b)
      BY <1>0, <3>1, <3>2 DEF ChangeUser
    <3>3. CASE \E g \in Grant : RevokeGrant(g)
      BY <1>0, <3>3 DEF RevokeGrant
    <3> QED BY <1>10, <3>2, <3>3 DEF Outside
  <2> QED BY <1>9, <1>10, <2>1 DEF Outside, ChangeUser, RevokeGrant
<1>11. CASE Restart \/ UNCHANGED vars
  BY <1>0, <1>9, <1>11 DEF Restart, vars, people
<1> QED BY <1>1, <1>2, <1>4, <1>5, <1>6, <1>7, <1>8, <1>10, <1>11, QuietClaims, StepsByKind

-----------------------------------------------------------------------------
(* Who buys a pair is known to the process *)

LEMMA HereStays ==
    ASSUME TypeOK, [Next]_vars
    PROVE  row'.here = row.here
<1>0. row \in UserRow
  BY DEF TypeOK
<1>1. \A b, v : /\ [row EXCEPT !.reset = b].here = row.here
                /\ [row EXCEPT !.active = b, !.version = v].here = row.here
  BY <1>0 DEF UserRow
<1>2. ASSUME NEW r \in Request, Open(r) \/ Refresh(r) \/ Activate(r) PROVE row' = row
  BY <1>2 DEF Open, Refresh, Activate, VerifyUser, OpenFamily, FindRecord, BurnFamily, ReloadUser,
     Consume, MintNext, FindGrant, ClaimGrant, ReadOwner, UnclaimGrant, AuditActivation, people
<1>3. ASSUME NEW r \in Request, Revoke(r) PROVE row'.here = row.here
  <2>1. CASE RequestReset(r)
    BY <1>1, <2>1 DEF RequestReset
  <2>2. CASE SaveReset(r)
    BY <1>1, <2>2 DEF SaveReset
  <2>3. CASE ~RequestReset(r) /\ ~SaveReset(r)
    BY <1>3, <2>3 DEF Revoke, RevokeSession, StartRevokeAll, RevokeAllSessions, FindReset, people
  <2> QED BY <2>1, <2>2, <2>3
<1>4. ASSUME NEW b \in BOOLEAN, ChangeUser(b) PROVE row'.here = row.here
  BY <1>1, <1>4 DEF ChangeUser
<1>5. CASE (\E g \in Grant : RevokeGrant(g)) \/ Restart \/ UNCHANGED vars
  BY <1>5 DEF RevokeGrant, Restart, vars, people
<1> QED BY <1>2, <1>3, <1>4, <1>5 DEF Next

\* Steps that mint nothing and after which no other request holds what it read.
LEMMA BoughtKept ==
    ASSUME BoughtInv, pair' = pair, row'.here = row.here,
           \A q \in Request : req'[q].pc \in {"loaded", "consumed"} =>
              req[q].pc \in {"loaded", "consumed"} /\ req'[q].user = req[q].user
    PROVE  BoughtInv'
BY DEF BoughtInv, Minted

LEMMA BoughtStep == TypeOK /\ BoughtInv /\ [Next]_vars => BoughtInv'
<1> SUFFICES ASSUME TypeOK, BoughtInv, [Next]_vars PROVE BoughtInv'
  OBVIOUS
<1>0. row'.here = row.here
  BY HereStays
<1>1. ASSUME NEW r \in Request, Quiet(r) PROVE BoughtInv'
  BY <1>0, <1>1, QuietSteps, BoughtKept DEF Presenting
<1>2. ASSUME NEW r \in Request, Deciding(r) PROVE BoughtInv'
  BY <1>0, <1>2, DecidingSteps, BoughtKept
<1>3. ASSUME NEW r \in Request, NEW F, Deletes(r, F) PROVE BoughtInv'
  <2>1. /\ pair' = pair /\ req'[r] = Idle
        /\ \A q \in Request \ {r} : req'[q] = Overtaken(F)[q]
    BY <1>3, DeletesSteps
  <2>2. ASSUME NEW q \in Request, req'[q].pc \in {"loaded", "consumed"}
        PROVE  req[q].pc \in {"loaded", "consumed"} /\ req'[q].user = req[q].user
    BY <2>1, <2>2, IdleState, OvertakenState
  <2> QED BY <1>0, <2>1, <2>2, BoughtKept
<1>4. ASSUME NEW r \in Request, NEW f \in Family, OpenFamily(r, f) PROVE BoughtInv'
  <2> DEFINE t == First(f)
             p == [from |-> 0, by |-> req[r].by, user |-> req[r].user,
                   since |-> req[r].since, late |-> FALSE]
  <2>1. /\ Minted' = Minted \cup {t} /\ pair'[t] = p /\ \A u \in Minted : pair'[u] = pair[u]
        /\ req'[r] = Idle /\ \A q \in Request \ {r} : req'[q] = req[q]
    BY <1>4, OpenSteps
  <2>2. p.from = 0
    OBVIOUS
  <2> HIDE DEF t, p
  <2>3. \A u \in Minted' : pair'[u].from # 0 => row.here /\ ~pair'[u].user.school
    BY <2>1, <2>2 DEF BoughtInv
  <2>4. \A q \in Request : req'[q].pc \in {"loaded", "consumed"} =>
           row.here /\ ~req'[q].user.school
    BY <2>1, IdleState DEF BoughtInv
  <2> QED BY <1>0, <2>3, <2>4 DEF BoughtInv
<1>5. ASSUME NEW r \in Request, NEW n \in 2 .. Depth, MintNext(r, n) PROVE BoughtInv'
  <2> DEFINE old == req[r].tok
             t == <<old[1], n>>
             p == [from |-> old[2], by |-> pair[old].by, user |-> req[r].user,
                   since |-> req[r].since, late |-> req[r].late \/ pair[old].late]
  <2>1. /\ Minted' = Minted \cup {t} /\ pair'[t] = p /\ \A u \in Minted : pair'[u] = pair[u]
        /\ req'[r] = Idle /\ \A q \in Request \ {r} : req'[q] = req[q]
        /\ req[r].pc = "consumed"
    BY <1>5, MintSteps
  <2>2. row.here /\ ~req[r].user.school /\ p.user = req[r].user
    BY <2>1 DEF BoughtInv
  <2> HIDE DEF t, p
  <2>3. \A u \in Minted' : pair'[u].from # 0 => row.here /\ ~pair'[u].user.school
    BY <2>1, <2>2 DEF BoughtInv
  <2>4. \A q \in Request : req'[q].pc \in {"loaded", "consumed"} =>
           row.here /\ ~req'[q].user.school
    BY <2>1, IdleState DEF BoughtInv
  <2> QED BY <1>0, <2>3, <2>4 DEF BoughtInv
<1>6. ASSUME NEW r \in Request, NEW t \in live, FindRecord(r, t) PROVE BoughtInv'
  <2> DEFINE s == [pc |-> "found", tok |-> t, since |-> row.version, late |-> FALSE]
  <2>0. s.pc = "found"
    OBVIOUS
  <2> HIDE DEF s
  <2>1. /\ req'[r] = s /\ pair' = pair
        /\ \A q \in Request \ {r} : req'[q] = req[q]
    BY <1>6, FindSteps DEF s
  <2> QED BY <1>0, <2>0, <2>1, BoughtKept
<1>7. ASSUME NEW r \in Request, ReloadUser(r), Readable PROVE BoughtInv'
  <2>1. /\ req'[r] = Bought(r, LoadedUser) /\ pair' = pair
        /\ \A q \in Request \ {r} : req'[q] = req[q]
    BY <1>7, ReloadSteps
  <2>2. ~Bought(r, LoadedUser).user.school /\ row.here
    BY <1>7 DEF Bought, LoadedUser, UserOf, Readable
  <2>3. \A q \in Request : req'[q].pc \in {"loaded", "consumed"} =>
           row.here /\ ~req'[q].user.school
    BY <2>1, <2>2 DEF BoughtInv
  <2> QED BY <1>0, <2>1, <2>3 DEF BoughtInv, Minted
<1>8. ASSUME NEW r \in Request, Consume(r) PROVE BoughtInv'
  <2>1. /\ req[r].pc = "loaded" /\ req'[r].user = req[r].user /\ pair' = pair
        /\ \A q \in Request \ {r} : req'[q] = req[q]
    BY <1>8, ConsumeSteps
  <2> QED BY <1>0, <2>1, BoughtKept
<1>9. CASE Outside
  <2>1. pair' = pair /\ req' = req
    BY <1>9 DEF Outside, ChangeUser, RevokeGrant
  <2> QED BY <1>0, <2>1, BoughtKept
<1>10. CASE Restart \/ UNCHANGED vars
  <2>1. pair' = pair /\ (req' = req \/ \A q \in Request : req'[q] = Idle)
    BY <1>10 DEF Restart, vars, people
  <2> QED BY <1>0, <2>1, IdleState, BoughtKept
<1> QED BY <1>1, <1>2, <1>3, <1>4, <1>5, <1>6, <1>7, <1>8, <1>9, <1>10, StepsByKind

-----------------------------------------------------------------------------
(* What is revoked stays revoked *)

LEMMA DeletingKept ==
    ASSUME NEW r \in Request, req[r].pc \notin {"burn", "revoke all"},
           \A q \in Request \ {r} : req'[q] = req[q], NEW f, Deleting(f)
    PROVE  Deleting(f)'
<1>1. PICK q \in Request : At(q, "revoke all") \/ (At(q, "burn") /\ req[q].tok[1] = f)
  BY DEF Deleting
<1>2. q # r /\ req'[q] = req[q]
  BY <1>1 DEF At
<1> QED BY <1>1, <1>2 DEF Deleting, At

\* A step of r that mints and deletes nothing.
LEMMA RevokedKept ==
    ASSUME TypeOK, RevokedInv, NEW r \in Request, req[r].pc \notin {"burn", "revoke all"},
           pair' = pair, live' \subseteq live,
           \A f \in ended' : f \in ended \/ Deleting(f)',
           \A q \in Request \ {r} : req'[q] = req[q],
           \A f \in ended : req'[r].pc \in Presenting /\ req'[r].tok[1] = f =>
              req'[r].late \/ pair[req'[r].tok].late \/ Deleting(f)
    PROVE  RevokedInv'
<1>1. \A f : Deleting(f) => Deleting(f)'
  BY DeletingKept
<1>2. RevokedStaysRevoked'
  BY <1>1 DEF RevokedInv, RevokedStaysRevoked
<1>3. ASSUME NEW q \in Request PROVE Overtook(q)'
  <2> SUFFICES ASSUME NEW f \in ended', req'[q].pc \in Presenting, req'[q].tok[1] = f
               PROVE  req'[q].late \/ pair'[req'[q].tok].late \/ Deleting(f)'
    BY DEF Overtook
  <2>1. CASE f \notin ended
    BY <2>1
  <2>2. CASE f \in ended /\ q = r
    BY <1>1, <2>2
  <2>3. CASE f \in ended /\ q # r
    <3>1. req'[q] = req[q] /\ Overtook(q)
      BY <2>3 DEF RevokedInv
    <3> QED BY <1>1, <2>3, <3>1 DEF Overtook
  <2> QED BY <2>1, <2>2, <2>3
<1> QED BY <1>2, <1>3 DEF RevokedInv

LEMMA RevokedStep == TypeOK /\ RevokedInv /\ [Next]_vars => RevokedInv'
<1> SUFFICES ASSUME TypeOK, RevokedInv, [Next]_vars PROVE RevokedInv'
  OBVIOUS
<1>1. ASSUME NEW r \in Request, Quiet(r) PROVE RevokedInv'
  BY <1>1, QuietSteps, RevokedKept
<1>2. ASSUME NEW r \in Request, Deciding(r) PROVE RevokedInv'
  <2>1. req'[r].pc \notin Presenting
    BY <1>2, DecidingSteps DEF Presenting
  <2>2. /\ pair' = pair /\ live' = live /\ req[r].pc \notin {"burn", "revoke all"}
        /\ \A f \in ended' : f \in ended \/ Deleting(f)'
        /\ \A q \in Request \ {r} : req'[q] = req[q]
    BY <1>2, DecidingSteps
  <2> QED BY <2>1, <2>2, RevokedKept
<1>3. ASSUME NEW r \in Request, NEW F, Deletes(r, F) PROVE RevokedInv'
  <2>1. /\ pair' = pair /\ live' = {t \in live : t[1] \notin F}
        /\ req'[r] = Idle /\ \A q \in Request \ {r} : req'[q] = Overtaken(F)[q]
        /\ ended' \subseteq ended \cup F
        /\ \A f \in Family \ F : Deleting(f) => Deleting(f)'
    BY <1>3, DeletesSteps
  <2>2. RevokedStaysRevoked'
    <3> SUFFICES ASSUME NEW t \in live', t[1] \in ended' PROVE pair'[t].late \/ Deleting(t[1])'
      BY DEF RevokedStaysRevoked
    <3>1. t \in live /\ t[1] \notin F /\ t[1] \in ended
      BY <2>1
    <3>2. t[1] \in Family
      BY <3>1, PairsTyped DEF TypeOK
    <3> QED BY <2>1, <3>1, <3>2 DEF RevokedInv, RevokedStaysRevoked
  <2>3. ASSUME NEW q \in Request PROVE Overtook(q)'
    <3> SUFFICES ASSUME NEW f \in ended', req'[q].pc \in Presenting, req'[q].tok[1] = f
                 PROVE  req'[q].late \/ pair'[req'[q].tok].late \/ Deleting(f)'
      BY DEF Overtook
    <3>1. q # r /\ req'[q] = Overtaken(F)[q]
      BY <2>1, IdleState
    <3>2. req[q].pc \in Presenting /\ req'[q].tok = req[q].tok
          /\ (req'[q].late <=> req[q].late \/ req[q].tok[1] \in F)
      BY <3>1, OvertakenState
    <3>3. CASE f \in F
      BY <3>2, <3>3
    <3>4. CASE f \notin F
      <4>1. req[q].tok \in Minted /\ f \in ended
        BY <2>1, <3>2, <3>4 DEF TypeOK
      <4>2. f \in Family
        BY <3>2, <4>1, PairsTyped
      <4>3. req[q].late \/ pair[req[q].tok].late \/ Deleting(f)
        BY <3>2, <4>1 DEF RevokedInv, Overtook
      <4> QED BY <2>1, <3>2, <3>4, <4>2, <4>3
    <3> QED BY <3>3, <3>4
  <2> QED BY <2>2, <2>3 DEF RevokedInv
<1>4. ASSUME NEW r \in Request, NEW t \in live, FindRecord(r, t) PROVE RevokedInv'
  <2> DEFINE s == [pc |-> "found", tok |-> t, since |-> row.version, late |-> FALSE]
  <2>1. /\ pair' = pair /\ live' = live /\ ended' = ended /\ req[r].pc = "idle"
        /\ (\A q \in Request \ {r} : req'[q] = req[q]) /\ req'[r] = s
    BY <1>4, FindSteps
  <2>2. s.tok = t
    OBVIOUS
  <2> HIDE DEF s
  <2>3. req'[r].tok = t
    BY <2>1, <2>2
  <2>4. t[1] \in ended => pair[t].late \/ Deleting(t[1])
    BY DEF RevokedInv, RevokedStaysRevoked
  <2> QED BY <2>1, <2>3, <2>4, RevokedKept
<1>5. ASSUME NEW r \in Request, ReloadUser(r), Readable PROVE RevokedInv'
  <2>1. /\ pair' = pair /\ live' = live /\ ended' = ended /\ req[r].pc = "found"
        /\ \A q \in Request \ {r} : req'[q] = req[q]
        /\ req'[r] = Bought(r, LoadedUser)
    BY <1>5, ReloadSteps
  <2>2. req'[r].tok = req[r].tok /\ (req'[r].late <=> req[r].late)
    <3>1. Bought(r, LoadedUser).tok = req[r].tok /\ Bought(r, LoadedUser).late = req[r].late
      BY DEF Bought
    <3> QED BY <2>1, <3>1
  <2>3. Overtook(r)
    BY DEF RevokedInv
  <2> QED BY <2>1, <2>2, <2>3, RevokedKept DEF Overtook, Presenting
<1>6. ASSUME NEW r \in Request, Consume(r) PROVE RevokedInv'
  <2>1. /\ pair' = pair /\ live' \subseteq live /\ ended' = ended /\ req[r].pc = "loaded"
        /\ req'[r].tok = req[r].tok /\ (req[r].late => req'[r].late)
        /\ \A q \in Request \ {r} : req'[q] = req[q]
    BY <1>6, ConsumeSteps
  <2>2. Overtook(r)
    BY DEF RevokedInv
  <2> QED BY <2>1, <2>2, RevokedKept DEF Overtook, Presenting
<1>7. ASSUME NEW r \in Request, NEW t, Minted' = Minted \cup {t}, live' = live \cup {t},
             \A u \in Minted : pair'[u] = pair[u], ended' = ended, req'[r] = Idle,
             \A q \in Request \ {r} : req'[q] = req[q],
             req[r].pc \notin {"burn", "revoke all"},
             t[1] \in ended => pair'[t].late \/ Deleting(t[1])
      PROVE  RevokedInv'
  <2>1. \A f : Deleting(f) => Deleting(f)'
    BY <1>7, DeletingKept
  <2>2. RevokedStaysRevoked'
    <3> SUFFICES ASSUME NEW u \in live', u[1] \in ended' PROVE pair'[u].late \/ Deleting(u[1])'
      BY DEF RevokedStaysRevoked
    <3>1. CASE u = t
      BY <1>7, <2>1, <3>1
    <3>2. CASE u # t
      <4>1. u \in live /\ u \in Minted
        BY <1>7, <3>2 DEF TypeOK
      <4> QED BY <1>7, <2>1, <4>1 DEF RevokedInv, RevokedStaysRevoked
    <3> QED BY <3>1, <3>2
  <2>3. ASSUME NEW q \in Request PROVE Overtook(q)'
    <3>1. CASE q = r
      BY <1>7, <3>1, IdleState DEF Overtook
    <3>2. CASE q # r
      <4>1. req'[q] = req[q] /\ Overtook(q)
        BY <1>7, <3>2 DEF RevokedInv
      <4>2. req[q].pc \in Presenting => req[q].tok \in Minted
        BY DEF TypeOK
      <4> QED BY <1>7, <2>1, <4>1, <4>2 DEF Overtook
    <3> QED BY <3>1, <3>2
  <2> QED BY <2>2, <2>3 DEF RevokedInv
<1>8. ASSUME NEW r \in Request, NEW f \in Family, OpenFamily(r, f) PROVE RevokedInv'
  <2> DEFINE t == First(f)
  <2>1. /\ Minted' = Minted \cup {t} /\ live' = live \cup {t} /\ UNCHANGED <<people, ended>>
        /\ \A u \in Minted : pair'[u] = pair[u] /\ req'[r] = Idle
        /\ \A q \in Request \ {r} : req'[q] = req[q]
        /\ req[r].pc = "verified" /\ t[1] = f /\ f \notin Opened
    BY <1>8, OpenSteps
  <2>2. req'[r] = Idle
    BY <1>8, OpenSteps
  <2>3. t[1] \notin ended
    BY <2>1 DEF TypeOK
  <2> HIDE DEF t
  <2> QED BY <1>7, <2>1, <2>2, <2>3
<1>9. ASSUME NEW r \in Request, NEW n \in 2 .. Depth, MintNext(r, n) PROVE RevokedInv'
  <2> DEFINE old == req[r].tok
             t == <<old[1], n>>
             p == [from |-> old[2], by |-> pair[old].by, user |-> req[r].user,
                   since |-> req[r].since, late |-> req[r].late \/ pair[old].late]
  <2>1. /\ Minted' = Minted \cup {t} /\ live' = live \cup {t} /\ UNCHANGED <<people, ended>>
        /\ pair'[t] = p /\ req'[r] = Idle /\ \A u \in Minted : pair'[u] = pair[u]
        /\ \A q \in Request \ {r} : req'[q] = req[q]
        /\ req[r].pc = "consumed" /\ t[1] = old[1]
    BY <1>9, MintSteps
  <2>2. p.late <=> req[r].late \/ pair[old].late
    OBVIOUS
  <2>3. old[1] \in ended => req[r].late \/ pair[old].late \/ Deleting(old[1])
    BY <2>1 DEF RevokedInv, Overtook, Presenting
  <2> HIDE DEF t, p, old
  <2>4. t[1] \in ended => pair'[t].late \/ Deleting(t[1])
    BY <2>1, <2>2, <2>3
  <2> QED BY <1>7, <2>1, <2>4
<1>10. CASE Restart
  <2>1. req' = [r \in Request |-> Idle] /\ ended' = ended \ {t[1] : t \in live'}
    BY <1>10 DEF Restart
  <2>2. \A r \in Request : Overtook(r)'
    BY <2>1, IdleState DEF Overtook
  <2> QED BY <2>1, <2>2 DEF RevokedInv, RevokedStaysRevoked
<1>11. CASE Outside \/ UNCHANGED vars
  <2>1. UNCHANGED <<pair, live, req, ended>>
    BY <1>11 DEF Outside, ChangeUser, RevokeGrant, vars
  <2>2. \A f : Deleting(f)' <=> Deleting(f)
    BY <2>1 DEF Deleting, At
  <2>3. RevokedStaysRevoked'
    BY <2>1, <2>2 DEF RevokedInv, RevokedStaysRevoked
  <2>4. ASSUME NEW r \in Request PROVE Overtook(r)'
    BY <2>1, <2>2 DEF RevokedInv, Overtook
  <2> QED BY <2>3, <2>4 DEF RevokedInv
<1> QED BY <1>1, <1>2, <1>3, <1>4, <1>5, <1>6, <1>8, <1>9, <1>10, <1>11, StepsByKind

-----------------------------------------------------------------------------
(* A token is exchanged once *)

\* A step that mints nothing, and after which only requests that had consumed
\* their token in time have.
LEMMA ExchangeKept ==
    ASSUME TypeOK, ExchangeInv, pair' = pair, live' \subseteq live,
           \A q \in Request, t \in Token : InTime(q, t)' => InTime(q, t)
    PROVE  ExchangeInv'
<1>1. \A u, t : Buys(u, t)' <=> Buys(u, t)
  BY DEF Buys, Minted
<1>2. ExchangedOnce' /\ \A u \in Minted' : pair'[u].from = 0 => u[2] = 1
  BY DEF ExchangeInv, ExchangedOnce, Minted
<1>3. Minted' = Minted
  BY DEF Minted
<1>4. \A t \in live', u \in Token : ~Buys(u, t)'
  BY <1>1 DEF ExchangeInv
<1>5. ASSUME NEW r \in Request, NEW t \in Token, InTime(r, t)'
      PROVE  /\ t \notin live'
             /\ \A u \in Token : ~Buys(u, t)'
             /\ \A q \in Request : InTime(q, t)' => q = r
  BY <1>1, <1>5 DEF ExchangeInv
<1>6. \A t, u \in Token : Buys(u, t)' => t \in Minted'
  BY <1>1, <1>3 DEF ExchangeInv
<1> QED BY <1>2, <1>4, <1>5, <1>6 DEF ExchangeInv

\* A new pair: what it was bought with was consumed by r alone.
LEMMA ExchangeMint ==
    ASSUME TypeOK, ExchangeInv, NEW r \in Request, NEW t \in Token, NEW p,
           t \notin Minted, Minted' = Minted \cup {t}, pair'[t] = p,
           \A u \in Minted : pair'[u] = pair[u],
           live' = live \cup {t}, req'[r] = Idle,
           \A q \in Request \ {r} : req'[q] = req[q],
           p.from = 0 => t[2] = 1,
           \A x \in Token : x[1] = t[1] /\ p.from = x[2] /\ ~p.late =>
              /\ x \in Minted /\ x \notin live
              /\ \A u \in Token : ~Buys(u, x)
              /\ \A q \in Request \ {r} : ~InTime(q, x),
           \A u \in Minted : u[1] = t[1] /\ pair[u].from = p.from =>
              pair[u].late \/ p.late
    PROVE  ExchangeInv'
<1> DEFINE Bought1(x) == x[1] = t[1] /\ p.from = x[2] /\ ~p.late
<1>1. ASSUME NEW u, NEW x \in Token, Buys(u, x)'
      PROVE  Buys(u, x) \/ (u = t /\ Bought1(x))
  BY <1>1 DEF Buys
<1>2. \A x \in Token : Bought1(x) => x \in Minted /\ x \notin live
  OBVIOUS
<1>3. \A x \in Token : Bought1(x) => \A u \in Token : ~Buys(u, x)
  OBVIOUS
<1>4. \A x \in Token : Bought1(x) => \A q \in Request \ {r} : ~InTime(q, x)
  OBVIOUS
<1> HIDE DEF Bought1
<1>5. \A q \in Request, x \in Token :
          InTime(q, x)' => q # r /\ InTime(q, x) /\ x \in Minted
  <2> SUFFICES ASSUME NEW q \in Request, NEW x \in Token, InTime(q, x)'
               PROVE  q # r /\ InTime(q, x) /\ x \in Minted
    OBVIOUS
  <2>1. q # r
    BY IdleState DEF InTime, Idle
  <2>2. InTime(q, x)
    BY <2>1 DEF InTime
  <2> QED BY <2>1, <2>2 DEF InTime, TypeOK, Presenting
<1>6. ASSUME NEW x \in live', NEW u \in Token PROVE ~Buys(u, x)'
  <2>0. x \in Token /\ live \subseteq Minted
    BY DEF TypeOK, Minted
  <2>1. CASE x \in live
    BY <1>1, <1>2, <2>0, <2>1 DEF ExchangeInv
  <2>2. CASE x = t
    BY <1>1, <1>2, <2>0, <2>2 DEF ExchangeInv
  <2> QED BY <2>1, <2>2
<1>7. ASSUME NEW q \in Request, NEW x \in Token, InTime(q, x)'
      PROVE  /\ x \notin live'
             /\ \A u \in Token : ~Buys(u, x)'
             /\ \A o \in Request : InTime(o, x)' => o = q
  <2>1. q # r /\ InTime(q, x) /\ x \in Minted
    BY <1>5, <1>7
  <2>2. /\ x \notin live /\ \A u \in Token : ~Buys(u, x)
        /\ \A o \in Request : InTime(o, x) => o = q
    BY <2>1 DEF ExchangeInv
  <2>3. ~Bought1(x)
    BY <1>4, <2>1
  <2>4. \A u \in Token : ~Buys(u, x)'
    BY <1>1, <2>2, <2>3
  <2> QED BY <1>5, <2>1, <2>2, <2>4
<1>8. ASSUME NEW x \in Token, NEW u \in Token, Buys(u, x)' PROVE x \in Minted'
  BY <1>1, <1>2, <1>8 DEF ExchangeInv
<1>9. \A u \in Minted' : pair'[u].from = 0 => u[2] = 1
  BY DEF ExchangeInv
<1>10. ExchangedOnce'
  <2> SUFFICES ASSUME NEW u \in Minted', NEW v \in Minted',
                      u # v, u[1] = v[1], pair'[u].from = pair'[v].from
               PROVE  pair'[u].late \/ pair'[v].late
    BY DEF ExchangedOnce
  <2>1. CASE u \in Minted /\ v \in Minted
    BY <2>1 DEF ExchangeInv, ExchangedOnce
  <2>2. CASE u = t /\ v \in Minted
    BY <2>2
  <2>3. CASE u \in Minted /\ v = t
    BY <2>3
  <2> QED BY <2>1, <2>2, <2>3
<1> QED BY <1>6, <1>7, <1>8, <1>9, <1>10 DEF ExchangeInv

LEMMA ExchangeStep == TypeOK /\ ExchangeInv /\ [Next]_vars => ExchangeInv'
<1> SUFFICES ASSUME TypeOK, ExchangeInv, [Next]_vars PROVE ExchangeInv'
  OBVIOUS
<1>1. ASSUME NEW r \in Request, pair' = pair, live' \subseteq live,
             req'[r].pc # "consumed", \A q \in Request \ {r} : req'[q] = req[q]
      PROVE  ExchangeInv'
  BY <1>1, ExchangeKept DEF InTime
<1>2. ASSUME NEW r \in Request, Quiet(r) \/ Deciding(r) PROVE ExchangeInv'
  <2>1. UNCHANGED <<pair, live>> /\ req'[r].pc # "consumed"
        /\ \A q \in Request \ {r} : req'[q] = req[q]
    BY <1>2, QuietSteps, DecidingSteps DEF Presenting
  <2> QED BY <1>1, <2>1
<1>3. ASSUME NEW r \in Request, NEW F, Deletes(r, F) PROVE ExchangeInv'
  <2>1. /\ pair' = pair /\ live' \subseteq live
        /\ req'[r] = Idle /\ \A q \in Request \ {r} : req'[q] = Overtaken(F)[q]
    BY <1>3, DeletesSteps
  <2>2. ASSUME NEW q \in Request, NEW t \in Token, InTime(q, t)' PROVE InTime(q, t)
    <3>1. q # r /\ req'[q] = Overtaken(F)[q]
      BY <2>1, <2>2, IdleState DEF InTime, Idle
    <3> QED BY <2>2, <3>1, OvertakenState DEF InTime, Presenting
  <2> QED BY <2>1, <2>2, ExchangeKept
<1>4. ASSUME NEW r \in Request, NEW t \in live, FindRecord(r, t) PROVE ExchangeInv'
  <2> DEFINE s == [pc |-> "found", tok |-> t, since |-> row.version, late |-> FALSE]
  <2>1. UNCHANGED <<pair, live>> /\ req'[r] = s
        /\ \A q \in Request \ {r} : req'[q] = req[q]
    BY <1>4, FindSteps
  <2>2. s.pc # "consumed"
    OBVIOUS
  <2> HIDE DEF s
  <2> QED BY <1>1, <2>1, <2>2
<1>5. ASSUME NEW r \in Request, ReloadUser(r), Readable PROVE ExchangeInv'
  <2>1. UNCHANGED <<pair, live>> /\ req'[r] = Bought(r, LoadedUser)
        /\ \A q \in Request \ {r} : req'[q] = req[q]
    BY <1>5, ReloadSteps
  <2>2. Bought(r, LoadedUser).pc # "consumed"
    BY DEF Bought
  <2> QED BY <1>1, <2>1, <2>2
<1>6. ASSUME NEW r \in Request, Consume(r) PROVE ExchangeInv'
  <2> DEFINE old == req[r].tok
  <2>1. /\ pair' = pair /\ live' = live \ {old} /\ req'[r].tok = old
        /\ (req'[r].late <=> req[r].late \/ old \notin live)
        /\ \A q \in Request \ {r} : req'[q] = req[q]
    BY <1>6, ConsumeSteps
  <2> HIDE DEF old
  <2>2. \A u, t : Buys(u, t)' <=> Buys(u, t)
    BY <2>1 DEF Buys, Minted
  <2>3. ASSUME NEW q \in Request, NEW t \in Token, InTime(q, t)'
        PROVE  (InTime(q, t) /\ q # r) \/ (q = r /\ t = old /\ t \in live)
    <3>1. CASE q = r
      BY <2>1, <2>3, <3>1 DEF InTime
    <3>2. CASE q # r
      BY <2>1, <2>3, <3>2 DEF InTime
    <3> QED BY <3>1, <3>2
  <2>4. \A t \in live', u \in Token : ~Buys(u, t)'
    BY <2>1, <2>2 DEF ExchangeInv
  <2>5. ASSUME NEW q \in Request, NEW t \in Token, InTime(q, t)'
        PROVE  /\ t \notin live'
               /\ \A u \in Token : ~Buys(u, t)'
               /\ \A o \in Request : InTime(o, t)' => o = q
    <3>1. CASE q # r /\ InTime(q, t)
      <4>1. /\ t \notin live /\ \A u \in Token : ~Buys(u, t)
            /\ \A o \in Request : InTime(o, t) => o = q
        BY <3>1 DEF ExchangeInv
      <4> QED BY <2>1, <2>2, <2>3, <4>1
    <3>2. CASE q = r /\ t = old /\ t \in live
      <4>1. \A u \in Token : ~Buys(u, t)
        BY <3>2 DEF ExchangeInv
      <4>2. \A o \in Request : ~InTime(o, t)
        BY <3>2 DEF ExchangeInv
      <4> QED BY <2>1, <2>2, <2>3, <3>2, <4>1, <4>2
    <3> QED BY <2>3, <2>5, <3>1, <3>2
  <2>6. \A t, u \in Token : Buys(u, t)' => t \in Minted'
    BY <2>1, <2>2 DEF ExchangeInv, Minted
  <2>7. ExchangedOnce' /\ \A u \in Minted' : pair'[u].from = 0 => u[2] = 1
    BY <2>1 DEF ExchangeInv, ExchangedOnce, Minted
  <2> QED BY <2>4, <2>5, <2>6, <2>7 DEF ExchangeInv
<1>7. ASSUME NEW r \in Request, NEW f \in Family, OpenFamily(r, f) PROVE ExchangeInv'
  <2> DEFINE t == First(f)
             p == [from |-> 0, by |-> req[r].by, user |-> req[r].user,
                   since |-> req[r].since, late |-> FALSE]
  <2>1. /\ t \in Token /\ t[1] = f /\ t[2] = 1 /\ f \notin Opened /\ t \notin Minted
        /\ Minted' = Minted \cup {t} /\ pair'[t] = p
        /\ \A u \in Minted : pair'[u] = pair[u]
        /\ live' = live \cup {t} /\ req'[r] = Idle
    BY <1>7, OpenSteps
  <2>2. \A q \in Request \ {r} : req'[q] = req[q]
    BY <1>7, OpenSteps
  <2>3. p.from = 0
    OBVIOUS
  <2> HIDE DEF t, p
  <2>4. \A x \in Token : p.from # x[2]
    BY <2>3 DEF Token
  <2>5. \A u \in Minted : u[1] # t[1]
    BY <2>1 DEF Opened
  <2>6. \A u \in Minted : pair'[u] = pair[u]
    BY <2>1
  <2> QED BY <2>1, <2>2, <2>4, <2>5, <2>6, ExchangeMint
<1>8. ASSUME NEW r \in Request, NEW n \in 2 .. Depth, MintNext(r, n) PROVE ExchangeInv'
  <2> DEFINE old == req[r].tok
             t == <<old[1], n>>
             p == [from |-> old[2], by |-> pair[old].by, user |-> req[r].user,
                   since |-> req[r].since, late |-> req[r].late \/ pair[old].late]
  <2>1. /\ t \in Token /\ t[1] = old[1] /\ t[2] = n /\ t \notin Minted
        /\ old \in Minted /\ old[2] \in 1 .. Depth /\ old \in Token
        /\ Minted' = Minted \cup {t} /\ pair'[t] = p
        /\ live' = live \cup {t} /\ req[r].pc = "consumed" /\ req'[r] = Idle
    BY <1>8, MintSteps
  <2>2. /\ \A q \in Request \ {r} : req'[q] = req[q]
        /\ \A u \in Minted : pair'[u] = pair[u]
    BY <1>8, MintSteps
  <2>3. p.from = old[2] /\ (p.late <=> req[r].late \/ pair[old].late)
    OBVIOUS
  <2>4. \A u \in Minted : u \in Token /\ u = <<u[1], u[2]>>
    BY PairsTyped
  <2> HIDE DEF p
  <2>5. p.from # 0
    BY <2>1, <2>3
  <2>6. ~p.late => InTime(r, old)
    BY <2>1, <2>3 DEF InTime
  <2>7. ~p.late => /\ old \notin live
                   /\ \A u \in Token : ~Buys(u, old)
                   /\ \A q \in Request \ {r} : ~InTime(q, old)
    BY <2>1, <2>6 DEF ExchangeInv
  <2>8. \A x \in Token : x[1] = t[1] /\ p.from = x[2] => x = old
    <3>1. \A x \in Token : x = <<x[1], x[2]>>
      BY DEF Token
    <3> QED BY <2>1, <2>3, <3>1
  <2>9. ASSUME NEW u \in Minted, u[1] = t[1], pair[u].from = p.from
        PROVE  pair[u].late \/ p.late
    BY <2>1, <2>3, <2>4, <2>7, <2>9 DEF Buys
  <2> HIDE DEF t, old
  <2>10. \A x \in Token : x[1] = t[1] /\ p.from = x[2] /\ ~p.late =>
              /\ x \in Minted /\ x \notin live
              /\ \A u \in Token : ~Buys(u, x)
              /\ \A q \in Request \ {r} : ~InTime(q, x)
    BY <2>1, <2>7, <2>8
  <2> QED BY <2>1, <2>2, <2>5, <2>9, <2>10, ExchangeMint
<1>9. CASE Restart
  <2>1. pair' = pair /\ live' \subseteq live /\ req' = [r \in Request |-> Idle]
    BY <1>9 DEF Restart
  <2>2. \A q \in Request, t \in Token : ~InTime(q, t)'
    BY <2>1 DEF InTime, Idle
  <2> QED BY <2>1, <2>2, ExchangeKept
<1>10. CASE Outside \/ UNCHANGED vars
  <2>1. UNCHANGED <<pair, live, req>>
    BY <1>10 DEF Outside, ChangeUser, RevokeGrant, vars
  <2> QED BY <2>1, ExchangeKept DEF InTime
<1> QED BY <1>2, <1>3, <1>4, <1>5, <1>6, <1>7, <1>8, <1>9, <1>10, StepsByKind

-----------------------------------------------------------------------------
(* A support grant opens one session *)

\* A step that mints nothing, frees no grant and after which only requests hold
\* a grant that held it before.
LEMMA GrantKept ==
    ASSUME TypeOK, GrantInv, pair' = pair, audit \subseteq audit',
           \A g \in Grant : grant[g].used => grant'[g].used,
           \A q \in Request, g \in Grant : Holds(q, g)' =>
              /\ Holds(q, g)
              /\ req'[q].pc = "verified" => req[q].pc = "verified" \/ g \in audit'
    PROVE  GrantInv'
<1>1. Minted' = Minted
  BY DEF Minted
<1>2. ASSUME NEW t \in Minted, pair[t].by # Self PROVE pair[t].by \in Grant
  BY <1>2, PairsTyped DEF Pair
<1>3. ASSUME NEW g \in Grant, NEW r \in Request, Holds(r, g)'
      PROVE  /\ grant'[g].used
             /\ \A q \in Request : Holds(q, g)' => q = r
             /\ \A t \in Minted' : pair'[t].by # g
             /\ req'[r].pc = "verified" => g \in audit'
  BY <1>1, <1>3 DEF GrantInv
<1>4. \A t \in Minted' : pair'[t].by # Self => grant'[pair'[t].by].used
  BY <1>1, <1>2 DEF GrantInv
<1>5. GrantOpensOneSession'
  BY <1>1 DEF GrantInv, GrantOpensOneSession
<1> QED BY <1>3, <1>4, <1>5 DEF GrantInv

\* A new pair of a session: of one that the holder of a grant opens, or of one
\* that is open.
LEMMA GrantMint ==
    ASSUME TypeOK, GrantInv, NEW r \in Request, NEW t \in Token, NEW p,
           Minted' = Minted \cup {t}, pair'[t] = p,
           \A u \in Minted : pair'[u] = pair[u],
           UNCHANGED <<grant, audit>>, req'[r] = Idle,
           \A q \in Request \ {r} : req'[q] = req[q],
           p.by # Self =>
              /\ grant[p.by].used /\ p.by \in audit
              /\ \A q \in Request \ {r} : ~Holds(q, p.by)
              /\ \A u \in Minted : pair[u].by = p.by => u[1] = t[1]
    PROVE  GrantInv'
<1>1. \A q \in Request, g \in Grant : Holds(q, g)' => q # r /\ Holds(q, g) /\ req'[q] = req[q]
  BY IdleState DEF Holds, Idle
<1>2. ASSUME NEW g \in Grant, NEW q \in Request, Holds(q, g)'
      PROVE  /\ grant'[g].used
             /\ \A o \in Request : Holds(o, g)' => o = q
             /\ \A u \in Minted' : pair'[u].by # g
             /\ req'[q].pc = "verified" => g \in audit'
  <2>1. q # r /\ Holds(q, g) /\ req'[q] = req[q]
    BY <1>1, <1>2
  <2>2. /\ grant[g].used
        /\ \A o \in Request : Holds(o, g) => o = q
        /\ \A u \in Minted : pair[u].by # g
        /\ req[q].pc = "verified" => g \in audit
    BY <2>1 DEF GrantInv
  <2>3. p.by # g
    BY <2>1
  <2> QED BY <1>1, <2>1, <2>2, <2>3
<1>3. \A u \in Minted' : pair'[u].by # Self => grant'[pair'[u].by].used
  BY DEF GrantInv
<1>4. GrantOpensOneSession'
  <2> SUFFICES ASSUME NEW u \in Minted', pair'[u].by # Self
               PROVE  /\ pair'[u].by \in audit'
                      /\ \A v \in Minted' : pair'[v].by = pair'[u].by => v[1] = u[1]
    BY DEF GrantOpensOneSession
  <2>1. CASE u \in Minted
    BY <2>1 DEF GrantInv, GrantOpensOneSession
  <2>2. CASE u = t
    BY <2>2
  <2> QED BY <2>1, <2>2
<1> QED BY <1>2, <1>3, <1>4 DEF GrantInv

LEMMA QuietGrant ==
    ASSUME TypeOK, GrantInv, NEW r \in Request, Quiet(r)
    PROVE  GrantInv'
<1>0. req \in [Request -> RequestState] /\ grant \in [Grant -> [used : BOOLEAN, revoked : BOOLEAN]]
  BY DEF TypeOK
<1>1. /\ pair' = pair /\ Minted' = Minted
      /\ \A q \in Request \ {r} : req'[q] = req[q]
  BY QuietSteps DEF Minted
<1>2. \A s : Becomes(r, s) => req'[r] = s
  BY <1>0 DEF Becomes
<1> DEFINE Goal == GrantInv'
<1> SUFFICES Goal
  OBVIOUS
<1>3. ASSUME \A g \in Grant : grant[g].used => grant'[g].used, audit \subseteq audit',
             \A g \in Grant : Holds(r, g)' =>
                /\ Holds(r, g)
                /\ req'[r].pc = "verified" => req[r].pc = "verified" \/ g \in audit'
      PROVE  Goal
  <2>1. \A q \in Request \ {r}, g \in Grant :
            Holds(q, g)' => Holds(q, g) /\ (req'[q].pc = "verified" => req[q].pc = "verified")
    BY <1>1 DEF Holds
  <2> QED BY <1>1, <1>3, <2>1, GrantKept
<1> HIDE DEF Goal
\* Steps that touch no grant and after which r holds none.
<1>4. ASSUME UNCHANGED <<grant, audit>>,
             req'[r].pc \notin {"claimed", "owner", "unclaim"},
             req'[r].pc = "verified" => req'[r].by = Self
      PROVE  Goal
  BY <1>3, <1>4 DEF Holds
<1>5. ASSUME NEW school \in BOOLEAN, VerifyUser(r, school) PROVE Goal
  <2> DEFINE s == [pc |-> "verified", user |-> UserOf(school), since |-> row.version, by |-> Self]
  <2>1. s.pc = "verified" /\ s.by = Self
    OBVIOUS
  <2>2. Becomes(r, s) /\ UNCHANGED <<grant, audit>>
    BY <1>5 DEF VerifyUser, people
  <2> HIDE DEF s
  <2> QED BY <1>2, <1>4, <2>1, <2>2
<1>6. CASE RequestReset(r)
  <2>1. req'[r].pc = "idle" /\ UNCHANGED <<grant, audit>>
    BY <1>6 DEF RequestReset, At
  <2> QED BY <1>4, <2>1
<1>7. CASE FindReset(r)
  <2> DEFINE s == [pc |-> "reset found"]
  <2>1. s.pc = "reset found"
    OBVIOUS
  <2>2. Becomes(r, s) /\ UNCHANGED <<grant, audit>>
    BY <1>7 DEF FindReset, people
  <2> HIDE DEF s
  <2> QED BY <1>2, <1>4, <2>1, <2>2
<1>8. ASSUME NEW g \in Grant, FindGrant(r, g) PROVE Goal
  <2> DEFINE s == [pc |-> "grant found", by |-> g]
  <2>1. s.pc = "grant found"
    OBVIOUS
  <2>2. Becomes(r, s) /\ UNCHANGED <<grant, audit>>
    BY <1>8 DEF FindGrant, people
  <2> HIDE DEF s
  <2> QED BY <1>2, <1>4, <2>1, <2>2
<1>9. CASE ClaimGrant(r)
  <2> DEFINE g == req[r].by
             s == [req[r] EXCEPT !.pc = "claimed"]
  <2>1. req[r] \in GrantReq
    BY <1>9, PcTells DEF ClaimGrant, At
  <2>2. s.pc = "claimed" /\ s.by = g /\ g \in Grant
    BY <2>1 DEF GrantReq
  <2>3. CASE ~grant[g].used /\ ~grant[g].revoked
    <3>1. grant' = [grant EXCEPT ![g].used = TRUE] /\ Becomes(r, s) /\ audit' = audit
      BY <1>9, <2>3 DEF ClaimGrant
    <3> HIDE DEF g, s
    <3>2. grant'[g].used /\ \A h \in Grant \ {g} : grant'[h] = grant[h]
      BY <1>0, <2>2, <3>1
    <3>3. /\ \A q \in Request : ~Holds(q, g)
          /\ \A t \in Minted : pair[t].by # g
      <4>1. \A t \in Minted : pair[t].by # Self => grant[pair[t].by].used
        BY DEF GrantInv
      <4>2. g # Self
        BY <2>2
      <4> QED BY <2>2, <2>3, <4>1, <4>2 DEF GrantInv
    <3>4. req'[r].pc = "claimed" /\ req'[r].by = g
      BY <1>2, <2>2, <3>1
    <3>5. ASSUME NEW q \in Request, NEW h \in Grant, Holds(q, h)'
          PROVE  (q = r /\ h = g) \/ (q # r /\ Holds(q, h))
      <4>1. CASE q = r
        BY <3>4, <3>5, <4>1 DEF Holds
      <4>2. CASE q # r
        BY <1>1, <3>5, <4>2 DEF Holds
      <4> QED BY <4>1, <4>2
    <3>6. ASSUME NEW h \in Grant, NEW q \in Request, Holds(q, h)'
          PROVE  /\ grant'[h].used
                 /\ \A o \in Request : Holds(o, h)' => o = q
                 /\ \A t \in Minted' : pair'[t].by # h
                 /\ req'[q].pc = "verified" => h \in audit'
      <4>1. CASE q = r /\ h = g
        BY <1>1, <3>2, <3>3, <3>4, <3>5, <4>1
      <4>2. CASE q # r /\ Holds(q, h)
        <5>1. /\ grant[h].used
              /\ \A o \in Request : Holds(o, h) => o = q
              /\ \A t \in Minted : pair[t].by # h
              /\ req[q].pc = "verified" => h \in audit
          BY <4>2 DEF GrantInv
        <5>2. h # g
          BY <3>3, <4>2
        <5> QED BY <1>1, <3>1, <3>2, <3>5, <4>2, <5>1, <5>2
      <4> QED BY <3>5, <3>6, <4>1, <4>2
    <3>7. \A t \in Minted' : pair'[t].by # Self => grant'[pair'[t].by].used
      <4>1. \A t \in Minted : pair[t].by \in Grant \cup {Self}
        BY PairsTyped DEF Pair
      <4> QED BY <1>1, <3>2, <4>1 DEF GrantInv
    <3>8. GrantOpensOneSession'
      BY <1>1, <3>1 DEF GrantInv, GrantOpensOneSession
    <3> QED BY <3>6, <3>7, <3>8 DEF GrantInv, Goal
  <2>4. CASE grant[g].used \/ grant[g].revoked
    <3>1. grant' = grant /\ Becomes(r, Idle) /\ audit' = audit
      BY <1>9, <2>4 DEF ClaimGrant
    <3> QED BY <1>2, <1>4, <3>1, IdleState
  <2> QED BY <2>3, <2>4
<1>10. CASE ReadOwner(r)
  <2>1. req[r] \in GrantReq /\ req[r].pc = "claimed"
    BY <1>10, PcTells DEF ReadOwner, At
  <2>2. PICK s : Becomes(r, s) /\ s.pc \in {"owner", "unclaim"} /\ s.by = req[r].by
    BY <1>10 DEF ReadOwner
  <2>3. UNCHANGED <<grant, audit>>
    BY <1>10 DEF ReadOwner, people
  <2> QED BY <1>2, <1>3, <2>1, <2>2, <2>3 DEF Holds
<1>11. ASSUME NEW ok \in BOOLEAN, AuditActivation(r, ok) PROVE Goal
  <2> DEFINE v == [req[r] EXCEPT !.pc = "verified"]
             u == [pc |-> "unclaim", by |-> req[r].by]
  <2>1. req[r] \in OwnerReq /\ req[r].pc = "owner"
    BY <1>11, PcTells DEF AuditActivation, At
  <2>2. v.pc = "verified" /\ v.by = req[r].by /\ u.pc = "unclaim" /\ u.by = req[r].by
    BY <2>1 DEF OwnerReq
  <2>3. \/ Becomes(r, v) /\ audit' = audit \cup {req[r].by}
        \/ Becomes(r, u) /\ audit' = audit
    BY <1>11 DEF AuditActivation
  <2>4. grant' = grant
    BY <1>11 DEF AuditActivation
  <2> HIDE DEF v, u
  <2> QED BY <1>2, <1>3, <2>1, <2>2, <2>3, <2>4 DEF Holds
<1>12. CASE UnclaimGrant(r)
  <2> DEFINE g == req[r].by
  <2>1. req[r] \in GrantReq /\ req[r].pc = "unclaim"
    BY <1>12, PcTells DEF UnclaimGrant, At
  <2>2. g \in Grant /\ Holds(r, g)
    BY <2>1 DEF GrantReq, Holds
  <2>3. grant' = [grant EXCEPT ![g].used = FALSE] /\ Becomes(r, Idle) /\ audit' = audit
    BY <1>12 DEF UnclaimGrant
  <2> HIDE DEF g
  <2>4. /\ \A q \in Request : Holds(q, g) => q = r
        /\ \A t \in Minted : pair[t].by # g
    BY <2>2 DEF GrantInv
  <2>5. \A h \in Grant \ {g} : grant'[h] = grant[h]
    BY <1>0, <2>3
  <2>6. \A q \in Request, h \in Grant :
            Holds(q, h)' => q # r /\ Holds(q, h) /\ h # g /\ req'[q] = req[q]
    <3>1. req'[r] = Idle
      BY <1>2, <2>3
    <3> QED BY <1>1, <2>4, <3>1, IdleState DEF Holds, Idle
  <2>7. ASSUME NEW h \in Grant, NEW q \in Request, Holds(q, h)'
        PROVE  /\ grant'[h].used
               /\ \A o \in Request : Holds(o, h)' => o = q
               /\ \A t \in Minted' : pair'[t].by # h
               /\ req'[q].pc = "verified" => h \in audit'
    <3>1. q # r /\ Holds(q, h) /\ h # g /\ req'[q] = req[q]
      BY <2>6, <2>7
    <3>2. /\ grant[h].used
          /\ \A o \in Request : Holds(o, h) => o = q
          /\ \A t \in Minted : pair[t].by # h
          /\ req[q].pc = "verified" => h \in audit
      BY <3>1 DEF GrantInv
    <3> QED BY <1>1, <2>3, <2>5, <2>6, <3>1, <3>2
  <2>8. \A t \in Minted' : pair'[t].by # Self => grant'[pair'[t].by].used
    <3>1. \A t \in Minted : pair[t].by \in Grant \cup {Self}
      BY PairsTyped DEF Pair
    <3> QED BY <1>1, <2>4, <2>5, <3>1 DEF GrantInv
  <2>9. GrantOpensOneSession'
    BY <1>1, <2>3 DEF GrantInv, GrantOpensOneSession
  <2> QED BY <2>7, <2>8, <2>9 DEF GrantInv, Goal
<1> QED BY <1>5, <1>6, <1>7, <1>8, <1>9, <1>10, <1>11, <1>12 DEF Quiet

LEMMA GrantStep == TypeOK /\ GrantInv /\ [Next]_vars => GrantInv'
<1> SUFFICES ASSUME TypeOK, GrantInv, [Next]_vars PROVE GrantInv'
  OBVIOUS
<1>1. ASSUME NEW r \in Request, UNCHANGED <<pair, grant, audit>>,
             req'[r].pc \notin {"claimed", "owner", "unclaim", "verified"},
             \A q \in Request \ {r} : req'[q] = req[q]
      PROVE  GrantInv'
  <2>1. \A q \in Request, g \in Grant :
            Holds(q, g)' => Holds(q, g) /\ (req'[q].pc = "verified" => req[q].pc = "verified")
    BY <1>1 DEF Holds
  <2> QED BY <1>1, <2>1, GrantKept
<1>2. ASSUME NEW r \in Request, Deciding(r) PROVE GrantInv'
  <2>1. /\ UNCHANGED <<pair, grant, audit>> /\ req'[r].pc \in {"burn", "revoke all"}
        /\ \A q \in Request \ {r} : req'[q] = req[q]
    BY <1>2, DecidingSteps
  <2> QED BY <1>1, <2>1
<1>3. ASSUME NEW r \in Request, NEW F, Deletes(r, F) PROVE GrantInv'
  <2>1. /\ UNCHANGED <<pair, people>> /\ req'[r] = Idle
        /\ \A q \in Request \ {r} : req'[q] = Overtaken(F)[q]
    BY <1>3, DeletesSteps
  <2>2. ASSUME NEW q \in Request, NEW g \in Grant, Holds(q, g)'
        PROVE  Holds(q, g) /\ req'[q] = req[q]
    <3>1. q # r /\ req'[q] = Overtaken(F)[q]
      BY <2>1, <2>2, IdleState DEF Holds, Idle
    <3>2. req'[q].pc \in {"claimed", "owner", "unclaim", "verified"}
      BY <2>2 DEF Holds
    <3>3. req[q].pc \notin Presenting
      BY <3>1, <3>2, OvertakenState DEF Presenting
    <3>4. req'[q] = req[q]
      BY <3>1, <3>3, OvertakenState
    <3> QED BY <2>2, <3>4 DEF Holds
  <2> QED BY <2>1, <2>2, GrantKept DEF people
<1>4. ASSUME NEW r \in Request, NEW t \in live, FindRecord(r, t) PROVE GrantInv'
  <2> DEFINE s == [pc |-> "found", tok |-> t, since |-> row.version, late |-> FALSE]
  <2>1. UNCHANGED <<pair, grant, audit>> /\ req'[r] = s
        /\ \A q \in Request \ {r} : req'[q] = req[q]
    BY <1>4, FindSteps DEF people
  <2>2. s.pc = "found"
    OBVIOUS
  <2> HIDE DEF s
  <2> QED BY <1>1, <2>1, <2>2
<1>5. ASSUME NEW r \in Request, ReloadUser(r), Readable PROVE GrantInv'
  <2>1. UNCHANGED <<pair, grant, audit>> /\ req'[r] = Bought(r, LoadedUser)
        /\ \A q \in Request \ {r} : req'[q] = req[q]
    BY <1>5, ReloadSteps DEF people
  <2>2. Bought(r, LoadedUser).pc = "loaded"
    BY DEF Bought
  <2> QED BY <1>1, <2>1, <2>2
<1>6. ASSUME NEW r \in Request, Consume(r) PROVE GrantInv'
  <2>1. UNCHANGED <<pair, grant, audit>> /\ req'[r].pc = "consumed"
        /\ \A q \in Request \ {r} : req'[q] = req[q]
    BY <1>6, ConsumeSteps DEF people
  <2> QED BY <1>1, <2>1
<1>7. ASSUME NEW r \in Request, NEW f \in Family, OpenFamily(r, f) PROVE GrantInv'
  <2> DEFINE t == First(f)
             p == [from |-> 0, by |-> req[r].by, user |-> req[r].user,
                   since |-> req[r].since, late |-> FALSE]
  <2>1. /\ t \in Token /\ Minted' = Minted \cup {t} /\ pair'[t] = p
        /\ UNCHANGED people /\ req'[r] = Idle
        /\ req[r].pc = "verified" /\ req[r] \in VerifiedReq
    BY <1>7, OpenSteps
  <2>2. /\ \A u \in Minted : pair'[u] = pair[u]
        /\ \A q \in Request \ {r} : req'[q] = req[q]
    BY <1>7, OpenSteps
  <2>3. p.by = req[r].by
    OBVIOUS
  <2> HIDE DEF t, p
  <2>4. p.by \in Grant \cup {Self}
    BY <2>1, <2>3 DEF VerifiedReq
  <2>5. ASSUME p.by # Self
        PROVE  /\ grant[p.by].used /\ p.by \in audit
               /\ \A q \in Request \ {r} : ~Holds(q, p.by)
               /\ \A u \in Minted : pair[u].by # p.by
    <3>1. p.by \in Grant /\ Holds(r, p.by)
      BY <2>1, <2>3, <2>4, <2>5 DEF Holds
    <3> QED BY <2>1, <3>1 DEF GrantInv
  <2> QED BY <2>1, <2>2, <2>5, GrantMint DEF people
<1>8. ASSUME NEW r \in Request, NEW n \in 2 .. Depth, MintNext(r, n) PROVE GrantInv'
  <2> DEFINE old == req[r].tok
             t == <<old[1], n>>
             p == [from |-> old[2], by |-> pair[old].by, user |-> req[r].user,
                   since |-> req[r].since, late |-> req[r].late \/ pair[old].late]
  <2>1. /\ t \in Token /\ t[1] = old[1] /\ old \in Minted
        /\ Minted' = Minted \cup {t} /\ pair'[t] = p
        /\ UNCHANGED people /\ req'[r] = Idle
    BY <1>8, MintSteps
  <2>2. /\ \A u \in Minted : pair'[u] = pair[u]
        /\ \A q \in Request \ {r} : req'[q] = req[q]
    BY <1>8, MintSteps
  <2>3. p.by = pair[old].by
    OBVIOUS
  <2> HIDE DEF t, p, old
  <2>4. p.by \in Grant \cup {Self}
    BY <2>1, <2>3, PairsTyped DEF Pair
  <2>5. ASSUME p.by # Self
        PROVE  /\ grant[p.by].used /\ p.by \in audit
               /\ \A q \in Request \ {r} : ~Holds(q, p.by)
               /\ \A u \in Minted : pair[u].by = p.by => u[1] = t[1]
    <3>1. grant[p.by].used /\ p.by \in audit
      BY <2>1, <2>3, <2>5 DEF GrantInv, GrantOpensOneSession
    <3>2. \A u \in Minted : pair[u].by = p.by => u[1] = t[1]
      BY <2>1, <2>3, <2>5 DEF GrantInv, GrantOpensOneSession
    <3>3. \A q \in Request : ~Holds(q, p.by)
      BY <2>1, <2>3, <2>4, <2>5 DEF GrantInv
    <3> QED BY <3>1, <3>2, <3>3
  <2> QED BY <2>1, <2>2, <2>5, GrantMint DEF people
<1>9. CASE Restart
  <2>1. UNCHANGED <<pair, grant, audit>> /\ req' = [r \in Request |-> Idle]
    BY <1>9 DEF Restart, people
  <2>2. \A q \in Request, g \in Grant : ~Holds(q, g)'
    BY <2>1 DEF Holds, Idle
  <2> QED BY <2>1, <2>2, GrantKept
<1>10. CASE Outside \/ UNCHANGED vars
  <2>1. UNCHANGED <<pair, req, audit>>
    BY <1>10 DEF Outside, ChangeUser, RevokeGrant, vars
  <2>2. \A g \in Grant : grant[g].used => grant'[g].used
    <3>1. CASE \E g \in Grant : RevokeGrant(g)
      BY <3>1 DEF RevokeGrant, TypeOK
    <3>2. CASE grant' = grant
      BY <3>2
    <3> QED BY <1>10, <3>1, <3>2 DEF Outside, ChangeUser, vars
  <2>3. \A q \in Request, g \in Grant : Holds(q, g)' => Holds(q, g)
    BY <2>1 DEF Holds
  <2> QED BY <2>1, <2>2, <2>3, GrantKept
<1> QED BY <1>2, <1>3, <1>4, <1>5, <1>6, <1>7, <1>8, <1>9, <1>10, QuietGrant, StepsByKind

-----------------------------------------------------------------------------
(* The theorems *)

LEMMA SessionInit == Init => SessionInv
<1> SUFFICES ASSUME Init PROVE SessionInv
  OBVIOUS
<1>1. TypeOK
  BY InitTypes
<1>2. Minted = {} /\ live = {} /\ ended = {}
  BY DEF Init, Minted
<1>3. \A r \in Request : req[r].pc = "idle"
  BY DEF Init, Idle
<1>4. ClaimsInv
  BY <1>2, <1>3 DEF ClaimsInv, ClaimsAreTrue, HasClaims
<1>8. BoughtInv
  BY <1>2, <1>3 DEF BoughtInv
<1>5. RevokedInv
  BY <1>2 DEF RevokedInv, RevokedStaysRevoked, Overtook
<1>6. ExchangeInv
  BY <1>2, <1>3 DEF ExchangeInv, ExchangedOnce, Buys, InTime
<1>7. GrantInv
  BY <1>2, <1>3 DEF GrantInv, GrantOpensOneSession, Holds
<1> QED BY <1>1, <1>4, <1>5, <1>6, <1>7, <1>8 DEF SessionInv

LEMMA SessionStep == SessionInv /\ [Next]_vars => SessionInv'
BY TypesStep, ClaimsStep, BoughtStep, RevokedStep, ExchangeStep, GrantStep DEF SessionInv

\* What the identity service knows of its sessions between any two steps of its
\* requests (tokens.ts, auth.routes.ts, support.routes.ts).
THEOREM SessionInvariant == Spec => []SessionInv
BY SessionInit, SessionStep, PTL DEF Spec

\* After a logout, a revoke-all, a reset, a deactivation or a replay, the tokens of
\* a session that still work descend from a refresh that was under way
\* (tokens.ts, rotateRefreshToken and revoke).
THEOREM RevokedStaysRevokedHolds == Spec => []RevokedStaysRevoked
<1>1. SessionInv => RevokedStaysRevoked
  BY DEF SessionInv, RevokedInv
<1> QED BY <1>1, SessionInvariant, PTL

\* A refresh token buys one pair and a support grant opens one audited session
\* (rotateRefreshToken's store.del, support.routes.ts's conditional claim).
THEOREM UsedOnceHolds == Spec => []UsedOnce
<1>1. SessionInv => UsedOnce
  BY DEF SessionInv, ExchangeInv, GrantInv, UsedOnce
<1> QED BY <1>1, SessionInvariant, PTL

\* A pair carries claims that were true while it was minted, and is bought with a
\* refresh token only for a user the process itself knows, without a school
\* (reloadUser, auth.routes.ts:100-138, 490-504).
THEOREM ClaimsAreLiveHolds == Spec => []ClaimsAreLive
<1>1. SessionInv => ClaimsAreLive
  BY DEF SessionInv, ClaimsInv, ClaimsAreTrue, BoughtInv, ClaimsAreLive
<1> QED BY <1>1, SessionInvariant, PTL

-----------------------------------------------------------------------------
(* The browser *)

RefreshFlight == [pc : {"sent", "asked", "answered", "failed"}, how : {"refresh"},
                  tab : Tab, tok : Token]
OpeningFlight == [pc : {"opening"}, how : {"sign in"}, tab : Tab]
SignInFlight  == [pc : {"answered"}, how : {"sign in"}, tab : Tab, tok : Token]
FlightState == {Resting} \cup RefreshFlight \cup OpeningFlight \cup SignInFlight

WebTypeOK ==
    /\ row.active /\ row.here
    /\ stored \in Token \cup {NoToken}
    /\ flight \in [Request -> FlightState]

\* How far the service is with the request a flight has become.
InStep(r) ==
    /\ flight[r].pc \in {"resting", "sent", "answered", "failed"} => req[r].pc = "idle"
    /\ flight[r].pc = "opening" => req[r].pc = "verified"
    /\ flight[r].pc = "asked" => req[r].pc \in Presenting /\ req[r].tok = flight[r].tok

Refreshes(r) == flight[r].pc \in {"sent", "asked", "answered"} /\ flight[r].how = "refresh"
Carries(r) == flight[r].pc \in {"sent", "asked", "answered"}

\* The exchange is done at the service, not in the browser.
Exchanged(r) ==
    \/ flight[r].pc = "asked" /\ req[r].pc = "consumed"
    \/ flight[r].pc = "answered" /\ flight[r].how = "refresh"

\* What keeps an unstrained browser signed in: one refresh at a time; the tokens on
\* their way are good and not yet stored; the stored one is good until the refresh
\* that presents it has consumed it.
Calm ==
    /\ \A r \in Request : InStep(r)
    /\ \A r, q \in Request : Refreshes(r) /\ Refreshes(q) => r = q
    /\ stored \in Minted \cup {NoToken}
    /\ \A r \in Request : Carries(r) =>
          /\ flight[r].tok \in Minted
          /\ Exchanged(r) \/ flight[r].tok \in live
    /\ \A r \in Request : flight[r].pc = "answered" =>
          /\ flight[r].tok \in live /\ flight[r].tok # stored
          /\ \A q \in Request \ {r} : Carries(q) => flight[q].tok # flight[r].tok
    /\ \/ stored \in live \cup {NoToken}
       \/ \E r \in Request : Exchanged(r) /\ flight[r].tok[1] = stored[1]

WebInv == WebTypeOK /\ (~strained => Calm)

LEMMA FlightTells ==
    ASSUME WebTypeOK, NEW r \in Request
    PROVE  /\ flight[r].pc \in {"sent", "asked", "failed"} => flight[r] \in RefreshFlight
           /\ flight[r].pc = "answered" => flight[r] \in RefreshFlight \cup SignInFlight
           /\ flight[r].pc = "opening" => flight[r] \in OpeningFlight
           /\ flight[r].pc = "resting" <=> flight[r] = Resting
<1>1. flight[r] \in FlightState
  BY DEF WebTypeOK
<1>2. /\ Resting.pc = "resting"
      /\ \A f \in RefreshFlight : f.pc \in {"sent", "asked", "answered", "failed"}
      /\ \A f \in OpeningFlight : f.pc = "opening"
      /\ \A f \in SignInFlight : f.pc = "answered"
  BY DEF Resting, RefreshFlight, OpeningFlight, SignInFlight
<1> QED BY <1>1, <1>2 DEF FlightState

LEMMA NoTokenIsNone == NoToken \notin Token
<1>1. \A t \in Token : DOMAIN t = 1 .. 2
  BY DEF Token
<1>2. DOMAIN NoToken = 1 .. 0
  BY DEF NoToken
<1>3. 1 \in 1 .. 2 /\ 1 \notin 1 .. 0
  OBVIOUS
<1> QED BY <1>1, <1>2, <1>3

\* The stages of a refresh.
LEMMA RefreshStages ==
    ASSUME NEW f \in RefreshFlight
    PROVE  /\ [f EXCEPT !.pc = "asked"] \in RefreshFlight
           /\ [f EXCEPT !.pc = "asked"].pc = "asked"
           /\ [f EXCEPT !.pc = "asked"].tok = f.tok
           /\ [f EXCEPT !.pc = "asked"].how = "refresh"
           /\ [f EXCEPT !.pc = "failed"] \in RefreshFlight
           /\ [f EXCEPT !.pc = "failed"].pc = "failed"
           /\ \A n \in 1 .. Depth :
                 LET a == [f EXCEPT !.pc = "answered", !.tok = <<@[1], n>>]
                 IN  a \in RefreshFlight /\ a.pc = "answered" /\ a.how = "refresh"
                     /\ a.tok = <<f.tok[1], n>>
<1>1. f.tok \in Token /\ f.tok[1] \in Family /\ f.tab \in Tab
  BY DEF RefreshFlight, Token
<1>2. \A n \in 1 .. Depth : <<f.tok[1], n>> \in Token
  BY <1>1 DEF Token
<1>3. \A t \in Token :
         LET a == [f EXCEPT !.pc = "answered", !.tok = t]
         IN  a \in RefreshFlight /\ a.pc = "answered" /\ a.how = "refresh" /\ a.tok = t
  BY DEF RefreshFlight
<1>4. \A n \in 1 .. Depth :
         [f EXCEPT !.pc = "answered", !.tok = <<@[1], n>>]
         = [f EXCEPT !.pc = "answered", !.tok = <<f.tok[1], n>>]
  BY DEF RefreshFlight
<1>5. ASSUME NEW n \in 1 .. Depth
      PROVE  LET a == [f EXCEPT !.pc = "answered", !.tok = <<@[1], n>>]
             IN  a \in RefreshFlight /\ a.pc = "answered" /\ a.how = "refresh"
                 /\ a.tok = <<f.tok[1], n>>
  BY <1>2, <1>3, <1>4
<1> QED BY <1>5 DEF RefreshFlight

\* What r's flight becomes, whatever it becomes.
LEMMA Becomings ==
    ASSUME WebTypeOK, NEW r \in Request, NEW f \in FlightState, Becoming(r, f),
           row'.active /\ row'.here, stored' \in Token \cup {NoToken}
    PROVE  /\ WebTypeOK' /\ flight'[r] = f
           /\ \A q \in Request \ {r} : flight'[q] = flight[q]
BY DEF WebTypeOK, Becoming

\* The step of a flight that leaves the tokens alone and answers nothing.
LEMMA CalmKept ==
    ASSUME Calm, NEW r \in Request, UNCHANGED <<pair, live>>,
           stored' \in {NoToken, stored},
           \A q \in Request \ {r} : flight'[q] = flight[q] /\ req'[q] = req[q],
           ~Exchanged(r), InStep(r)', flight'[r].pc # "answered",
           flight'[r].pc = "asked" => req'[r].pc # "consumed",
           Refreshes(r)' => \A q \in Request \ {r} : ~Refreshes(q),
           Carries(r)' =>
              /\ flight'[r].tok \in live /\ flight'[r].tok \in Minted
              /\ \A q \in Request \ {r} :
                    flight[q].pc = "answered" => flight[q].tok # flight'[r].tok
    PROVE  Calm'
<1>0. Minted' = Minted
  BY DEF Minted
<1>1. \A q \in Request \ {r} :
         /\ InStep(q)' <=> InStep(q)
         /\ Refreshes(q)' <=> Refreshes(q)
         /\ Carries(q)' <=> Carries(q)
         /\ Exchanged(q)' <=> Exchanged(q)
  BY DEF InStep, Refreshes, Carries, Exchanged
<1>2. ASSUME NEW q \in Request PROVE InStep(q)'
  BY <1>1 DEF Calm
<1>3. ASSUME NEW q \in Request, NEW o \in Request, Refreshes(q)', Refreshes(o)'
      PROVE  q = o
  <2>1. CASE q = r \/ o = r
    BY <1>1, <1>3, <2>1
  <2>2. CASE q # r /\ o # r
    BY <1>1, <1>3, <2>2 DEF Calm
  <2> QED BY <2>1, <2>2
<1>4. stored' \in Minted' \cup {NoToken}
  BY <1>0 DEF Calm
<1>5. ASSUME NEW q \in Request, Carries(q)'
      PROVE  flight'[q].tok \in Minted' /\ (Exchanged(q)' \/ flight'[q].tok \in live')
  <2>1. CASE q = r
    BY <1>0, <1>5, <2>1
  <2>2. CASE q # r
    BY <1>0, <1>1, <1>5, <2>2 DEF Calm
  <2> QED BY <2>1, <2>2
<1>6. ASSUME NEW q \in Request, flight'[q].pc = "answered"
      PROVE  /\ flight'[q].tok \in live' /\ flight'[q].tok # stored'
             /\ \A o \in Request \ {q} : Carries(o)' => flight'[o].tok # flight'[q].tok
  <2>1. q # r /\ flight[q].pc = "answered" /\ flight'[q] = flight[q]
    BY <1>6
  <2>2. /\ flight[q].tok \in live /\ flight[q].tok # stored /\ flight[q].tok \in Minted
        /\ \A o \in Request \ {q} : Carries(o) => flight[o].tok # flight[q].tok
    BY <2>1 DEF Calm, Carries
  <2>3. flight[q].tok # NoToken
    BY <2>2, NoTokenIsNone DEF Minted
  <2>4. ASSUME NEW o \in Request \ {q}, Carries(o)' PROVE flight'[o].tok # flight'[q].tok
    <3>1. CASE o = r
      BY <2>1, <2>4, <3>1
    <3>2. CASE o # r
      BY <1>1, <2>1, <2>2, <2>4, <3>2
    <3> QED BY <3>1, <3>2
  <2> QED BY <2>1, <2>2, <2>3, <2>4
<1>7. \/ stored' \in live' \cup {NoToken}
      \/ \E q \in Request : Exchanged(q)' /\ flight'[q].tok[1] = stored'[1]
  <2>1. CASE stored \in live \cup {NoToken}
    BY <2>1
  <2>2. CASE \E q \in Request : Exchanged(q) /\ flight[q].tok[1] = stored[1]
    <3>1. PICK q \in Request : Exchanged(q) /\ flight[q].tok[1] = stored[1]
      BY <2>2
    <3>2. q # r
      BY <3>1
    <3> QED BY <1>1, <3>1, <3>2
  <2> QED BY <2>1, <2>2 DEF Calm
<1> QED BY <1>2, <1>3, <1>4, <1>5, <1>6, <1>7 DEF Calm

\* A new pair is answered to r.
LEMMA CalmMint ==
    ASSUME Calm, NEW r \in Request, NEW t \in Token, t \notin Minted, live \subseteq Minted,
           Minted' = Minted \cup {t}, live' = live \cup {t}, stored' = stored,
           \A q \in Request \ {r} : flight'[q] = flight[q] /\ req'[q] = req[q],
           flight'[r].pc = "answered", flight'[r].tok = t, req'[r].pc = "idle",
           Refreshes(r)' => Refreshes(r),
           Exchanged(r) => Exchanged(r)' /\ flight[r].tok[1] = t[1]
    PROVE  Calm'
<1>1. \A q \in Request \ {r} :
         /\ InStep(q)' <=> InStep(q)
         /\ Refreshes(q)' <=> Refreshes(q)
         /\ Carries(q)' <=> Carries(q)
         /\ Exchanged(q)' <=> Exchanged(q)
  BY DEF InStep, Refreshes, Carries, Exchanged
<1>2. ASSUME NEW q \in Request PROVE InStep(q)'
  <2>1. InStep(r)'
    BY DEF InStep
  <2> QED BY <1>1, <2>1 DEF Calm
<1>3. ASSUME NEW q \in Request, NEW o \in Request, Refreshes(q)', Refreshes(o)'
      PROVE  q = o
  BY <1>1, <1>3 DEF Calm
<1>4. stored' \in Minted' \cup {NoToken} /\ stored # t
  BY NoTokenIsNone DEF Calm
<1>5. ASSUME NEW q \in Request, Carries(q)'
      PROVE  flight'[q].tok \in Minted' /\ (Exchanged(q)' \/ flight'[q].tok \in live')
  BY <1>1, <1>5 DEF Calm
<1>6. ASSUME NEW q \in Request \ {r}, Carries(q) PROVE flight[q].tok # t
  BY <1>6 DEF Calm
<1>7. ASSUME NEW q \in Request, flight'[q].pc = "answered"
      PROVE  /\ flight'[q].tok \in live' /\ flight'[q].tok # stored'
             /\ \A o \in Request \ {q} : Carries(o)' => flight'[o].tok # flight'[q].tok
  <2>1. CASE q = r
    BY <1>1, <1>4, <1>6, <2>1
  <2>2. CASE q # r
    <3>1. flight[q].pc = "answered" /\ Carries(q) /\ flight'[q] = flight[q]
      BY <1>7, <2>2 DEF Carries
    <3>2. /\ flight[q].tok \in live /\ flight[q].tok # stored /\ flight[q].tok # t
          /\ \A o \in Request \ {q} : Carries(o) => flight[o].tok # flight[q].tok
      BY <1>6, <2>2, <3>1 DEF Calm
    <3> QED BY <1>1, <3>1, <3>2
  <2> QED BY <2>1, <2>2
<1>8. \/ stored' \in live' \cup {NoToken}
      \/ \E q \in Request : Exchanged(q)' /\ flight'[q].tok[1] = stored'[1]
  <2>1. CASE stored \in live \cup {NoToken}
    BY <2>1
  <2>2. CASE \E q \in Request : Exchanged(q) /\ flight[q].tok[1] = stored[1]
    <3>1. PICK q \in Request : Exchanged(q) /\ flight[q].tok[1] = stored[1]
      BY <2>2
    <3>2. CASE q = r
      BY <3>1, <3>2
    <3>3. CASE q # r
      BY <1>1, <3>1, <3>3
    <3> QED BY <3>2, <3>3
  <2> QED BY <2>1, <2>2 DEF Calm
<1> QED BY <1>2, <1>3, <1>4, <1>5, <1>7, <1>8 DEF Calm

\* The service consumes the token the refresh presents.
LEMMA CalmConsume ==
    ASSUME WebTypeOK, Calm, NEW r \in Request, pair' = pair, live' = live \ {flight[r].tok},
           UNCHANGED <<stored, flight>>, flight[r].pc = "asked", flight[r].how = "refresh",
           req[r].pc = "loaded", req'[r].pc = "consumed", req'[r].tok = req[r].tok,
           \A q \in Request \ {r} : req'[q] = req[q]
    PROVE  Calm'
<1>0. Minted' = Minted /\ Refreshes(r) /\ Carries(r) /\ ~Exchanged(r) /\ Exchanged(r)'
  BY DEF Minted, Refreshes, Carries, Exchanged
<1>1. \A q \in Request \ {r} :
         /\ InStep(q)' <=> InStep(q)
         /\ Exchanged(q)' <=> Exchanged(q)
  BY DEF InStep, Exchanged
<1>2. \A q \in Request : (Refreshes(q)' <=> Refreshes(q)) /\ (Carries(q)' <=> Carries(q))
  BY DEF Refreshes, Carries
<1>3. \A q \in Request : Refreshes(q) => q = r
  BY <1>0 DEF Calm
<1>4. ASSUME NEW q \in Request PROVE InStep(q)'
  <2>1. InStep(r)'
    BY DEF Calm, InStep, Presenting
  <2> QED BY <1>1, <2>1 DEF Calm
<1>5. ASSUME NEW q \in Request, Carries(q), q # r
      PROVE  flight[q].pc = "answered" /\ flight[q].tok # flight[r].tok
  <2>1. flight[q].pc = "answered"
    <3>1. flight[q].pc \in {"sent", "asked"} => flight[q].how = "refresh"
      BY FlightTells DEF RefreshFlight
    <3> QED BY <1>3, <1>5, <3>1 DEF Carries, Refreshes
  <2> QED BY <1>0, <1>5, <2>1 DEF Calm
<1>6. ASSUME NEW q \in Request, Carries(q)'
      PROVE  flight'[q].tok \in Minted' /\ (Exchanged(q)' \/ flight'[q].tok \in live')
  BY <1>0, <1>1, <1>2, <1>5, <1>6 DEF Calm
<1>7. ASSUME NEW q \in Request, flight'[q].pc = "answered"
      PROVE  /\ flight'[q].tok \in live' /\ flight'[q].tok # stored'
             /\ \A o \in Request \ {q} : Carries(o)' => flight'[o].tok # flight'[q].tok
  <2>1. q # r /\ Carries(q)
    BY <1>7 DEF Carries
  <2>2. /\ flight[q].tok \in live /\ flight[q].tok # stored
        /\ \A o \in Request \ {q} : Carries(o) => flight[o].tok # flight[q].tok
    BY <1>7 DEF Calm
  <2> QED BY <1>2, <1>5, <2>1, <2>2
<1>8. \/ stored' \in live' \cup {NoToken}
      \/ \E q \in Request : Exchanged(q)' /\ flight'[q].tok[1] = stored'[1]
  <2>1. CASE stored = flight[r].tok
    BY <1>0, <2>1
  <2>2. CASE stored # flight[r].tok
    <3>1. ~\E q \in Request : Exchanged(q)
      <4> SUFFICES ASSUME NEW q \in Request, Exchanged(q) PROVE FALSE
        OBVIOUS
      <4>1. flight[q].pc = "asked" => flight[q].how = "refresh"
        BY FlightTells DEF RefreshFlight
      <4>2. Refreshes(q)
        BY <4>1 DEF Exchanged, Refreshes
      <4> QED BY <1>0, <1>3, <4>2
    <3>2. stored \in live \cup {NoToken}
      BY <3>1 DEF Calm
    <3> QED BY <2>2, <3>2
  <2> QED BY <2>1, <2>2
<1>9. \A q, o \in Request : Refreshes(q)' /\ Refreshes(o)' => q = o
  BY <1>2, <1>3
<1>10. stored' \in Minted' \cup {NoToken}
  BY <1>0 DEF Calm
<1> QED BY <1>4, <1>6, <1>7, <1>8, <1>9, <1>10 DEF Calm

\* A tab stores the pair it was answered.
LEMMA CalmStore ==
    ASSUME WebTypeOK, Calm, NEW r \in Request, flight[r].pc = "answered",
           UNCHANGED <<pair, live, req>>, stored' = flight[r].tok, flight'[r] = Resting,
           \A q \in Request \ {r} : flight'[q] = flight[q]
    PROVE  Calm'
<1>0. Minted' = Minted /\ flight'[r].pc = "resting" /\ Carries(r)
  BY DEF Minted, Resting, Carries
<1>1. \A q \in Request \ {r} :
         /\ InStep(q)' <=> InStep(q)
         /\ Refreshes(q)' <=> Refreshes(q)
         /\ Carries(q)' <=> Carries(q)
         /\ Exchanged(q)' <=> Exchanged(q)
  BY DEF InStep, Refreshes, Carries, Exchanged
<1>2. ~Refreshes(r)' /\ ~Carries(r)'
  BY <1>0 DEF Refreshes, Carries
<1>3. ASSUME NEW q \in Request PROVE InStep(q)'
  <2>1. InStep(r)'
    BY <1>0 DEF Calm, InStep
  <2> QED BY <1>1, <2>1 DEF Calm
<1>4. \A q, o \in Request : Refreshes(q)' /\ Refreshes(o)' => q = o
  BY <1>1, <1>2 DEF Calm
<1>5. /\ flight[r].tok \in live /\ flight[r].tok \in Minted
      /\ \A q \in Request \ {r} : Carries(q) => flight[q].tok # flight[r].tok
  BY <1>0 DEF Calm
<1>6. ASSUME NEW q \in Request, Carries(q)'
      PROVE  flight'[q].tok \in Minted' /\ (Exchanged(q)' \/ flight'[q].tok \in live')
  BY <1>0, <1>1, <1>2, <1>6 DEF Calm
<1>7. ASSUME NEW q \in Request, flight'[q].pc = "answered"
      PROVE  /\ flight'[q].tok \in live' /\ flight'[q].tok # stored'
             /\ \A o \in Request \ {q} : Carries(o)' => flight'[o].tok # flight'[q].tok
  <2>1. q # r /\ Carries(q) /\ flight[q].pc = "answered" /\ flight'[q] = flight[q]
    BY <1>0, <1>7 DEF Carries
  <2>2. /\ flight[q].tok \in live
        /\ \A o \in Request \ {q} : Carries(o) => flight[o].tok # flight[q].tok
    BY <2>1 DEF Calm
  <2> QED BY <1>1, <1>2, <1>5, <2>1, <2>2
<1> QED BY <1>0, <1>3, <1>4, <1>5, <1>6, <1>7 DEF Calm

\* A refresh that has the only one under way.
LEMMA OnlyRefresh ==
    ASSUME Calm, NEW r \in Request, Refreshes(r)
    PROVE  \A q \in Request \ {r} : ~Refreshes(q)
BY DEF Calm

LEMMA FlyCalm ==
    ASSUME TypeOK, WebInv, NEW r \in Request, Fly(r)
    PROVE  WebInv'
<1>0. /\ WebTypeOK /\ req \in [Request -> RequestState] /\ row.active /\ row.here
      /\ live \subseteq Minted /\ flight \in [Request -> FlightState]
  BY DEF TypeOK, WebInv, WebTypeOK
<1> DEFINE Goal == WebInv'
<1> SUFFICES Goal
  OBVIOUS
<1> HIDE DEF Goal
<1>1. \A s : Becomes(r, s) => req'[r] = s /\ \A q \in Request \ {r} : req'[q] = req[q]
  BY <1>0 DEF Becomes
<1>2. ASSUME NEW f \in FlightState, Becoming(r, f), row'.active /\ row'.here,
             stored' \in Token \cup {NoToken},
             /\ flight'[r] = f
             /\ \A q \in Request \ {r} : flight'[q] = flight[q]
             => (~strained' => Calm')
      PROVE  Goal
  BY <1>0, <1>2, Becomings DEF WebInv, Goal
<1>3. ASSUME NEW t \in Tab, SendRefresh(r, t) PROVE Goal
  <2> DEFINE f == [pc |-> "sent", how |-> "refresh", tab |-> t, tok |-> stored]
  <2>1. /\ Becoming(r, f) /\ UNCHANGED <<row, pair, live, req, stored>>
        /\ flight[r] = Resting /\ req[r].pc = "idle"
        /\ strained' = (strained \/ \E q \in Request, u \in Tab \ {t} : RefreshOf(q, u))
        /\ SingleFlight(t) /\ stored \in Token
    BY <1>0, <1>3 DEF SendRefresh, vars, At, WebTypeOK
  <2>2. f \in RefreshFlight /\ f.pc = "sent" /\ f.tok = stored
    BY <2>1 DEF RefreshFlight
  <2> HIDE DEF f
  <2>3. f \in FlightState
    BY <2>2 DEF FlightState
  <2>4. ASSUME ~strained', flight'[r] = f, \A q \in Request \ {r} : flight'[q] = flight[q]
        PROVE  Calm'
    <3>1. Calm /\ \A q \in Request, u \in Tab \ {t} : ~RefreshOf(q, u)
      BY <2>1, <2>4 DEF WebInv
    <3>2. \A q \in Request : ~Refreshes(q)
      <4> SUFFICES ASSUME NEW q \in Request, Refreshes(q) PROVE FALSE
        OBVIOUS
      <4>1. flight[q] \in RefreshFlight \cup SignInFlight
        BY <1>0, FlightTells DEF Refreshes
      <4>2. flight[q].tab \in Tab
        BY <4>1 DEF RefreshFlight, SignInFlight
      <4>3. RefreshOf(q, flight[q].tab)
        BY DEF RefreshOf, Refreshes
      <4> QED BY <2>1, <3>1, <4>2, <4>3 DEF SingleFlight
    <3>3. \A q \in Request : ~Exchanged(q)
      <4> SUFFICES ASSUME NEW q \in Request, Exchanged(q) PROVE FALSE
        OBVIOUS
      <4>1. flight[q].pc = "asked" => flight[q].how = "refresh"
        BY <1>0, FlightTells DEF RefreshFlight
      <4> QED BY <3>2, <4>1 DEF Exchanged, Refreshes
    <3>4. stored \in live
      BY <2>1, <3>1, <3>3, NoTokenIsNone DEF Calm
    <3>5. \A q \in Request : flight[q].pc = "answered" => flight[q].tok # stored
      BY <3>1 DEF Calm
    <3>6. InStep(r)'
      BY <2>1, <2>2, <2>4 DEF InStep
    <3>7. \A q \in Request \ {r} : flight'[q] = flight[q] /\ req'[q] = req[q]
      BY <2>1, <2>4
    <3> QED BY <1>0, <2>1, <2>2, <2>4, <3>1, <3>2, <3>3, <3>4, <3>5, <3>6, <3>7, CalmKept
  <2>5. row'.active /\ row'.here /\ stored' \in Token \cup {NoToken}
    BY <1>0, <2>1 DEF WebTypeOK
  <2> QED BY <1>2, <2>1, <2>3, <2>4, <2>5
<1>4. CASE Arrive(r)
  <2> DEFINE f == [flight[r] EXCEPT !.pc = "asked"]
             t == flight[r].tok
  <2>1. flight[r] \in RefreshFlight /\ flight[r].pc = "sent" /\ t \in Token
    BY <1>0, <1>4, FlightTells DEF Arrive, Flies, RefreshFlight
  <2>2. f \in RefreshFlight /\ f.pc = "asked" /\ f.tok = t /\ f.how = "refresh"
    BY <2>1, RefreshStages
  <2>3. FindRecord(r, t) /\ Becoming(r, f) /\ UNCHANGED <<stored, strained>>
    BY <1>4 DEF Arrive
  <2> HIDE DEF f, t
  <2>4. f \in FlightState
    BY <2>2 DEF FlightState
  <2>5. ASSUME ~strained', flight'[r] = f, \A q \in Request \ {r} : flight'[q] = flight[q]
        PROVE  Calm'
    <3>1. Calm
      BY <2>3, <2>5 DEF WebInv
    <3>2. Refreshes(r) /\ Carries(r) /\ ~Exchanged(r)
      BY <2>1 DEF Refreshes, Carries, Exchanged, RefreshFlight
    <3>3. t \in live /\ t \in Minted
      BY <3>1, <3>2 DEF Calm, t
    <3> DEFINE s == [pc |-> "found", tok |-> t, since |-> row.version, late |-> FALSE]
    <3>4. Becomes(r, s) /\ UNCHANGED <<pair, live>>
      BY <2>3, <3>3 DEF FindRecord
    <3>5. s.pc = "found" /\ s.tok = t
      OBVIOUS
    <3> HIDE DEF s
    <3>6. req'[r] = s /\ \A q \in Request \ {r} : flight'[q] = flight[q] /\ req'[q] = req[q]
      BY <1>1, <2>5, <3>4
    <3>7. InStep(r)'
      BY <2>2, <2>5, <3>5, <3>6 DEF InStep, Presenting
    <3>8. \A q \in Request \ {r} : flight[q].pc = "answered" => flight[q].tok # t
      BY <3>1, <3>2 DEF Calm, t
    <3>9. \A q \in Request \ {r} : ~Refreshes(q)
      BY <3>1, <3>2, OnlyRefresh
    <3> QED BY <2>2, <2>3, <2>5, <3>1, <3>2, <3>3, <3>4, <3>5, <3>6, <3>7, <3>8, <3>9, CalmKept
  <2>6. row'.active /\ row'.here /\ stored' \in Token \cup {NoToken}
    BY <1>0, <2>3 DEF FindRecord, people, WebTypeOK
  <2> QED BY <1>2, <2>3, <2>4, <2>5, <2>6
\* The steps after which r carries no token.
<1>5. ASSUME NEW f \in FlightState, f.pc \in {"resting", "failed", "opening"}, Becoming(r, f),
             UNCHANGED <<row, pair, live, strained>>, stored' \in {NoToken, stored},
             ~strained /\ flight'[r] = f => ~Exchanged(r) /\ InStep(r)',
             \A q \in Request \ {r} : req'[q] = req[q]
      PROVE  Goal
  <2>1. ASSUME ~strained', flight'[r] = f, \A q \in Request \ {r} : flight'[q] = flight[q]
        PROVE  Calm'
    <3>1. Calm /\ ~Exchanged(r) /\ InStep(r)'
      BY <1>5, <2>1 DEF WebInv
    <3>2. ~Refreshes(r)' /\ ~Carries(r)' /\ flight'[r].pc \notin {"answered", "asked"}
      BY <1>5, <2>1 DEF Refreshes, Carries
    <3> QED BY <1>5, <2>1, <3>1, <3>2, CalmKept
  <2>2. row'.active /\ row'.here /\ stored' \in Token \cup {NoToken}
    BY <1>0, <1>5 DEF WebTypeOK
  <2> QED BY <1>2, <1>5, <2>1, <2>2
<1>6. CASE Lose(r)
  <2> DEFINE f == [flight[r] EXCEPT !.pc = "failed"]
  <2>1. flight[r] \in RefreshFlight /\ flight[r].pc = "sent"
    BY <1>0, <1>6, FlightTells DEF Lose, Flies
  <2>2. f \in RefreshFlight /\ f.pc = "failed"
    BY <2>1, RefreshStages
  <2>3. Becoming(r, f) /\ UNCHANGED <<row, pair, live, req, stored, strained>>
    BY <1>6 DEF Lose, vars
  <2> HIDE DEF f
  <2>4. f \in FlightState
    BY <2>2 DEF FlightState
  <2>5. ~Exchanged(r)
    BY <2>1 DEF Exchanged
  <2>6. ASSUME ~strained, flight'[r] = f PROVE InStep(r)'
    <3>1. req[r].pc = "idle"
      BY <2>1, <2>6 DEF WebInv, Calm, InStep
    <3> QED BY <2>2, <2>3, <2>6, <3>1 DEF InStep
  <2> QED BY <1>5, <2>2, <2>3, <2>4, <2>5, <2>6
<1>7. CASE Serve(r)
  <2>1. flight[r] \in RefreshFlight /\ flight[r].pc = "asked" /\ flight[r].how = "refresh"
    BY <1>0, <1>7, FlightTells DEF Serve, Flies, RefreshFlight
  <2>2. UNCHANGED <<stored, strained, row>>
    BY <1>7 DEF Serve, ReloadUser, Consume, BurnFamily, RevokeAllSessions, people
  <2>3. row'.active /\ row'.here /\ stored' \in Token \cup {NoToken}
    BY <1>0, <2>2 DEF WebTypeOK
  <2>4. ~strained => req[r].pc \in Presenting /\ req[r].tok = flight[r].tok
    BY <2>1 DEF WebInv, Calm, InStep
  <2>5. CASE (BurnFamily(r) \/ RevokeAllSessions(r)) /\ Becoming(r, [flight[r] EXCEPT !.pc = "failed"])
    <3> DEFINE f == [flight[r] EXCEPT !.pc = "failed"]
    <3>1. f \in RefreshFlight
      BY <2>1, RefreshStages
    <3>2. strained
      BY <2>4, <2>5 DEF BurnFamily, RevokeAllSessions, At, Presenting
    <3> HIDE DEF f
    <3>3. f \in FlightState
      BY <3>1 DEF FlightState
    <3> QED BY <1>2, <2>2, <2>3, <2>5, <3>2, <3>3 DEF f
  <2>6. ASSUME flight' = flight, ~strained => Calm' PROVE Goal
    BY <1>0, <2>2, <2>3, <2>6 DEF WebInv, WebTypeOK, Goal
  <2>7. CASE ReloadUser(r) /\ flight' = flight
    <3>1. /\ UNCHANGED <<people, pair, live, ended>>
          /\ req'[r] = Bought(r, LoadedUser) /\ req[r].pc = "found"
          /\ \A q \in Request \ {r} : req'[q] = req[q]
      BY <1>0, <2>7, ReloadSteps DEF Readable
    <3>2. Bought(r, LoadedUser).pc = "loaded" /\ Bought(r, LoadedUser).tok = req[r].tok
      BY DEF Bought
    <3>3. req'[r].pc = "loaded" /\ req'[r].tok = req[r].tok
      BY <3>1, <3>2
    <3>4. ASSUME ~strained PROVE Calm'
      <4>1. Calm
        BY <3>4 DEF WebInv
      <4>2. Refreshes(r) /\ Carries(r) /\ ~Exchanged(r)
        BY <2>1, <3>1 DEF Refreshes, Carries, Exchanged
      <4>3. InStep(r)'
        BY <2>1, <2>4, <2>7, <3>3, <3>4 DEF InStep, Presenting
      <4>4. flight[r].tok \in live /\ flight[r].tok \in Minted
        BY <4>1, <4>2 DEF Calm
      <4>5. \A q \in Request \ {r} : flight[q].pc = "answered" => flight[q].tok # flight[r].tok
        BY <4>1, <4>2 DEF Calm
      <4>6. \A q \in Request \ {r} : ~Refreshes(q)
        BY <4>1, <4>2, OnlyRefresh
      <4>7. flight'[r].pc # "answered" /\ req'[r].pc # "consumed"
        BY <2>1, <2>7, <3>3
      <4> QED BY <2>2, <2>7, <3>1, <4>1, <4>2, <4>3, <4>4, <4>5, <4>6, <4>7, CalmKept
    <3> QED BY <2>6, <2>7, <3>4
  <2>8. CASE Consume(r) /\ flight' = flight
    <3>1. /\ pair' = pair /\ live' = live \ {req[r].tok}
          /\ req[r].pc = "loaded" /\ req'[r].pc = "consumed" /\ req'[r].tok = req[r].tok
          /\ \A q \in Request \ {r} : req'[q] = req[q]
      BY <2>8, ConsumeSteps
    <3>2. ASSUME ~strained PROVE Calm'
      BY <1>0, <2>1, <2>2, <2>4, <2>8, <3>1, <3>2, CalmConsume DEF WebInv
    <3> QED BY <2>6, <2>8, <3>2
  <2> QED BY <1>7, <2>5, <2>7, <2>8 DEF Serve
<1>8. CASE Answer(r)
  <2>1. flight[r] \in RefreshFlight /\ flight[r].pc = "asked" /\ flight[r].how = "refresh"
    BY <1>0, <1>8, FlightTells DEF Answer, Flies, RefreshFlight
  <2>2. PICK n \in 2 .. Depth :
          /\ MintNext(r, n)
          /\ \/ /\ Becoming(r, [flight[r] EXCEPT !.pc = "answered",
                                                 !.tok = <<@[1], n>>])
                /\ UNCHANGED strained
             \/ /\ Becoming(r, [flight[r] EXCEPT !.pc = "failed"])
                /\ strained' = TRUE
             \/ /\ Becoming(r, Resting)
                /\ strained' = TRUE
    BY <1>8 DEF Answer
  <2>3. row'.active /\ row'.here /\ stored' \in Token \cup {NoToken} /\ stored' = stored
    BY <1>0, <1>8, <2>2 DEF Answer, MintNext, people, WebTypeOK
  <2>4. CASE Becoming(r, Resting) /\ strained' = TRUE
    BY <1>2, <2>3, <2>4 DEF FlightState
  <2>5. CASE Becoming(r, [flight[r] EXCEPT !.pc = "failed"]) /\ strained' = TRUE
    <3> DEFINE f == [flight[r] EXCEPT !.pc = "failed"]
    <3>1. f \in RefreshFlight
      BY <2>1, RefreshStages
    <3> HIDE DEF f
    <3>2. f \in FlightState
      BY <3>1 DEF FlightState
    <3> QED BY <1>2, <2>3, <2>5, <3>2 DEF f
  <2>6. CASE /\ Becoming(r, [flight[r] EXCEPT !.pc = "answered", !.tok = <<@[1], n>>])
             /\ strained' = strained
    <3> DEFINE f == [flight[r] EXCEPT !.pc = "answered", !.tok = <<@[1], n>>]
               old == req[r].tok
               t == <<old[1], n>>
    <3>1. n \in 1 .. Depth
      OBVIOUS
    <3>2. f \in RefreshFlight /\ f.pc = "answered" /\ f.how = "refresh"
          /\ f.tok = <<flight[r].tok[1], n>>
      BY <2>1, <3>1, RefreshStages
    <3>3. /\ t \in Token /\ t[1] = old[1] /\ t \notin Minted
          /\ Minted' = Minted \cup {t} /\ live' = live \cup {t} /\ req[r].pc = "consumed"
          /\ req'[r] = Idle
      BY <2>2, MintSteps
    <3>4. \A q \in Request \ {r} : req'[q] = req[q]
      BY <2>2, MintSteps
    <3>5. Becoming(r, f)
      BY <2>6
    <3> HIDE DEF f
    <3>6. ASSUME ~strained', flight'[r] = f, \A q \in Request \ {r} : flight'[q] = flight[q]
          PROVE  Calm'
      <4>1. Calm
        BY <2>6, <3>6 DEF WebInv
      <4>2. req[r].tok = flight[r].tok
        BY <2>1, <4>1 DEF Calm, InStep
      <4>3. f.tok = t
        BY <3>2, <4>2
      <4>4. Refreshes(r) /\ Exchanged(r)'
        BY <2>1, <3>2, <3>6 DEF Refreshes, Exchanged
      <4>5. flight[r].tok[1] = t[1]
        BY <3>3, <4>2
      <4>6. req'[r].pc = "idle"
        BY <3>3, IdleState
      <4> HIDE DEF t, old
      <4> QED BY <1>0, <2>3, <3>2, <3>3, <3>4, <3>6, <4>1, <4>3, <4>4, <4>5, <4>6, CalmMint
    <3>7. f \in FlightState
      BY <3>2 DEF FlightState
    <3> QED BY <1>2, <2>3, <3>5, <3>6, <3>7
  <2> QED BY <2>2, <2>4, <2>5, <2>6
<1>9. CASE Store(r)
  <2>1. /\ flight[r].pc = "answered" /\ stored' = flight[r].tok /\ Becoming(r, Resting)
        /\ UNCHANGED <<row, pair, live, req, strained>>
    BY <1>9 DEF Store, Flies, vars
  <2>2. flight[r].tok \in Token
    BY <1>0, <2>1, FlightTells DEF RefreshFlight, SignInFlight
  <2>3. ASSUME ~strained', flight'[r] = Resting, \A q \in Request \ {r} : flight'[q] = flight[q]
        PROVE  Calm'
    BY <1>0, <2>1, <2>3, CalmStore DEF WebInv
  <2>4. Resting \in FlightState
    BY DEF FlightState
  <2> QED BY <1>0, <1>2, <2>1, <2>2, <2>3, <2>4
<1>10. CASE Forget(r)
  <2>1. /\ flight[r].pc = "failed" /\ stored' \in {NoToken, stored} /\ Becoming(r, Resting)
        /\ UNCHANGED <<row, pair, live, req, strained>>
    BY <1>10 DEF Forget, Flies, vars
  <2>2. Resting \in FlightState /\ Resting.pc = "resting"
    BY DEF FlightState, Resting
  <2>3. ~Exchanged(r)
    BY <2>1 DEF Exchanged
  <2>4. ASSUME ~strained, flight'[r] = Resting PROVE InStep(r)'
    <3>1. req[r].pc = "idle"
      BY <2>1, <2>4 DEF WebInv, Calm, InStep
    <3> QED BY <2>1, <2>2, <2>4, <3>1 DEF InStep
  <2> QED BY <1>5, <2>1, <2>2, <2>3, <2>4
<1>11. ASSUME NEW t \in Tab, SignIn(r, t) PROVE Goal
  <2>0. PICK school \in BOOLEAN : VerifyUser(r, school)
    BY <1>11 DEF SignIn
  <2> DEFINE f == [pc |-> "opening", how |-> "sign in", tab |-> t]
             s == [pc |-> "verified", user |-> UserOf(school), since |-> row.version, by |-> Self]
  <2>1. /\ flight[r] = Resting /\ Becoming(r, f) /\ Becomes(r, s)
        /\ UNCHANGED <<row, pair, live, stored, strained>>
    BY <1>11, <2>0 DEF SignIn, VerifyUser, people
  <2>2. f \in OpeningFlight /\ f.pc = "opening" /\ s.pc = "verified"
    BY DEF OpeningFlight
  <2> HIDE DEF f, s
  <2>3. f \in FlightState
    BY <2>2 DEF FlightState
  <2>4. req'[r] = s /\ \A q \in Request \ {r} : req'[q] = req[q]
    BY <1>1, <2>1
  <2>5. ~Exchanged(r)
    BY <2>1 DEF Exchanged, Resting
  <2>6. flight'[r] = f => InStep(r)'
    BY <2>2, <2>4 DEF InStep
  <2> QED BY <1>5, <2>1, <2>2, <2>3, <2>4, <2>5, <2>6
<1>12. CASE SignedIn(r)
  <2>1. PICK f \in Family :
          /\ OpenFamily(r, f)
          /\ Becoming(r, [pc |-> "answered", how |-> "sign in", tab |-> flight[r].tab,
                          tok |-> First(f)])
    BY <1>12 DEF SignedIn
  <2> DEFINE t == First(f)
             a == [pc |-> "answered", how |-> "sign in", tab |-> flight[r].tab, tok |-> t]
  <2>2. flight[r] \in OpeningFlight /\ flight[r].pc = "opening"
    BY <1>0, <1>12, FlightTells DEF SignedIn, Flies
  <2>3. /\ t \in Token /\ t \notin Minted
        /\ Minted' = Minted \cup {t} /\ live' = live \cup {t} /\ req'[r] = Idle
        /\ row' = row
    BY <2>1, OpenSteps DEF people
  <2>4. \A q \in Request \ {r} : req'[q] = req[q]
    BY <2>1, OpenSteps
  <2>5. a \in SignInFlight /\ a.pc = "answered" /\ a.how = "sign in" /\ a.tok = t
    BY <2>2, <2>3 DEF OpeningFlight, SignInFlight
  <2>6. Becoming(r, a) /\ UNCHANGED <<stored, strained>>
    BY <1>12, <2>1 DEF SignedIn
  <2> HIDE DEF a, t
  <2>7. a \in FlightState
    BY <2>5 DEF FlightState
  <2>8. ASSUME ~strained', flight'[r] = a, \A q \in Request \ {r} : flight'[q] = flight[q]
        PROVE  Calm'
    <3>1. Calm
      BY <2>6, <2>8 DEF WebInv
    <3>2. ~Refreshes(r)' /\ ~Exchanged(r)
      BY <2>2, <2>5, <2>8 DEF Refreshes, Exchanged
    <3>3. req'[r].pc = "idle"
      BY <2>3, IdleState
    <3> QED BY <1>0, <2>3, <2>4, <2>5, <2>6, <2>8, <3>1, <3>2, <3>3, CalmMint
  <2>9. row'.active /\ row'.here /\ stored' \in Token \cup {NoToken}
    BY <1>0, <2>3, <2>6 DEF WebTypeOK
  <2> QED BY <1>2, <2>6, <2>7, <2>8, <2>9
<1> QED BY <1>3, <1>4, <1>6, <1>7, <1>8, <1>9, <1>10, <1>11, <1>12 DEF Fly

LEMMA WebStep == TypeOK /\ WebInv /\ [WebNext]_webVars => WebInv'
<1> SUFFICES ASSUME TypeOK, WebInv, [WebNext]_webVars PROVE WebInv'
  OBVIOUS
<1>1. CASE SignOut
  <2>1. stored' = NoToken /\ UNCHANGED <<row, pair, live, req, flight, strained>>
    BY <1>1 DEF SignOut, vars
  <2>2. ASSUME ~strained' PROVE Calm'
    <3>1. Calm /\ Minted' = Minted
      BY <2>1, <2>2 DEF WebInv, Minted
    <3>2. \A r \in Request : /\ InStep(r)' <=> InStep(r)
                             /\ Refreshes(r)' <=> Refreshes(r)
                             /\ Carries(r)' <=> Carries(r)
                             /\ Exchanged(r)' <=> Exchanged(r)
      BY <2>1 DEF InStep, Refreshes, Carries, Exchanged
    <3>3. \A r \in Request : flight[r].pc = "answered" => flight[r].tok # NoToken
      BY <3>1, NoTokenIsNone DEF Calm, Carries, Minted
    <3>4. \A r \in Request : InStep(r)'
      BY <3>1, <3>2 DEF Calm
    <3>5. \A r, q \in Request : Refreshes(r)' /\ Refreshes(q)' => r = q
      BY <3>1, <3>2 DEF Calm
    <3>6. \A r \in Request : Carries(r)' =>
              flight'[r].tok \in Minted' /\ (Exchanged(r)' \/ flight'[r].tok \in live')
      BY <2>1, <3>1, <3>2 DEF Calm
    <3>7. ASSUME NEW r \in Request, flight'[r].pc = "answered"
          PROVE  /\ flight'[r].tok \in live' /\ flight'[r].tok # stored'
                 /\ \A q \in Request \ {r} : Carries(q)' => flight'[q].tok # flight'[r].tok
      BY <2>1, <3>1, <3>2, <3>3, <3>7 DEF Calm
    <3> QED BY <2>1, <3>4, <3>5, <3>6, <3>7 DEF Calm
  <2> QED BY <2>1, <2>2 DEF WebInv, WebTypeOK
<1>2. CASE UNCHANGED webVars
  <2>1. UNCHANGED <<row, pair, live, req, stored, flight, strained>>
    BY <1>2 DEF webVars, vars
  <2> QED BY <2>1 DEF WebInv, WebTypeOK, Calm, InStep, Refreshes, Carries, Exchanged, Minted
<1> QED BY <1>1, <1>2, FlyCalm DEF WebNext

\* Whatever the browser does, the service takes steps of its own.
LEMMA WebIsNext == WebTypeOK /\ [WebNext]_webVars => [Next]_vars
<1> SUFFICES ASSUME WebTypeOK, [WebNext]_webVars PROVE [Next]_vars
  OBVIOUS
<1>1. ASSUME NEW r \in Request, Fly(r) PROVE [Next]_vars
  <2>1. CASE (\E t \in Tab : SendRefresh(r, t)) \/ Lose(r) \/ Store(r) \/ Forget(r)
    BY <2>1 DEF SendRefresh, Lose, Store, Forget
  <2>2. CASE \E t \in Tab : SignIn(r, t)
    BY <2>2 DEF SignIn, Next, Open
  <2>3. CASE Arrive(r)
    <3>1. flight[r].tok \in Token /\ FindRecord(r, flight[r].tok)
      BY <2>3, FlightTells DEF Arrive, Flies, RefreshFlight
    <3> QED BY <3>1 DEF Next, Refresh
  <2>4. CASE Serve(r)
    BY <2>4 DEF Serve, Next, Refresh, Revoke
  <2>5. CASE Answer(r)
    BY <2>5 DEF Answer, Next, Refresh
  <2>6. CASE SignedIn(r)
    BY <2>6 DEF SignedIn, Next, Open
  <2> QED BY <1>1, <2>1, <2>2, <2>3, <2>4, <2>5, <2>6 DEF Fly
<1>2. CASE SignOut \/ UNCHANGED webVars
  BY <1>2 DEF SignOut, webVars
<1> QED BY <1>1, <1>2 DEF WebNext

LEMMA WebInit0 == WebInit /\ row.here => SessionInv /\ WebInv
<1> SUFFICES ASSUME WebInit, row.here PROVE SessionInv /\ WebInv
  OBVIOUS
<1>1. Init /\ stored = NoToken /\ flight = [r \in Request |-> Resting]
  BY DEF WebInit
<1>2. \A r \in Request : flight[r].pc = "resting" /\ req[r].pc = "idle"
  BY <1>1 DEF Init, Idle, Resting
<1>3. WebTypeOK
  BY <1>1 DEF WebTypeOK, FlightState, Init
<1>4. Calm
  BY <1>1, <1>2 DEF Calm, InStep, Refreshes, Carries, Exchanged
<1> QED BY <1>1, <1>3, <1>4, SessionInit DEF WebInv

LEMMA WebSessionInvariant == WebSpec /\ row.here => [](SessionInv /\ WebInv)
<1>1. SessionInv /\ WebInv /\ [WebNext]_webVars => (SessionInv /\ WebInv)'
  <2> SUFFICES ASSUME SessionInv, WebInv, [WebNext]_webVars PROVE SessionInv' /\ WebInv'
    OBVIOUS
  <2>1. TypeOK /\ WebTypeOK
    BY DEF SessionInv, WebInv
  <2> QED BY <2>1, WebStep, WebIsNext, SessionStep
<1> QED BY <1>1, WebInit0, PTL DEF WebSpec

\* A user who is not in the database of the process does not get there.
LEMMA ElsewhereStays == WebSpec /\ ~row.here => []~row.here
<1>1. ~row.here /\ [WebNext]_webVars => (~row.here)'
  <2> SUFFICES ASSUME [WebNext]_webVars PROVE row' = row
    OBVIOUS
  <2>1. ASSUME NEW r \in Request, Fly(r) PROVE row' = row
    BY <2>1 DEF Fly, SendRefresh, SignIn, Arrive, Lose, Serve, Answer, SignedIn, Store, Forget,
       VerifyUser, OpenFamily, FindRecord, BurnFamily, RevokeAllSessions, ReloadUser, Consume,
       MintNext, people, vars
  <2>2. CASE SignOut \/ UNCHANGED webVars
    BY <2>2 DEF SignOut, webVars, vars
  <2> QED BY <2>1, <2>2 DEF WebNext
<1> QED BY <1>1, PTL DEF WebSpec

\* A browser whose answers all arrive, whose tabs do not refresh at once, and whose
\* user is in the database of the service, is never taken for a thief, never loses
\* its sessions and never holds a dead token but in the middle of an exchange (api.ts,
\* tryRefresh and refreshInFlight).
THEOREM StaysSignedInHolds == WebSpec => []StaysSignedIn
<1>1. WebInv => StaysSignedIn
  <2> SUFFICES ASSUME WebInv, ~strained
               PROVE  /\ \A r \in Request : Flies(r, "asked") =>
                            ~At(r, "burn") /\ ~At(r, "revoke all")
                      /\ \/ stored \in live \cup {NoToken}
                         \/ \E r \in Request, t \in Tab :
                               RefreshOf(r, t) /\ flight[r].tok[1] = stored[1]
    BY DEF StaysSignedIn
  <2>1. Calm /\ WebTypeOK
    BY DEF WebInv
  <2>2. \A r \in Request : Flies(r, "asked") => ~At(r, "burn") /\ ~At(r, "revoke all")
    BY <2>1 DEF Calm, InStep, Flies, At, Presenting
  <2>3. ASSUME NEW r \in Request, Exchanged(r)
        PROVE  \E t \in Tab : RefreshOf(r, t)
    <3>1. flight[r].pc \in {"asked", "answered"} /\ flight[r].how = "refresh"
          /\ flight[r].tab \in Tab
      BY <2>1, <2>3, FlightTells DEF Exchanged, RefreshFlight, SignInFlight
    <3> QED BY <3>1 DEF RefreshOf
  <2> QED BY <2>1, <2>2, <2>3 DEF Calm
<1>2. ~row.here => StaysSignedIn
  BY DEF StaysSignedIn
<1> QED BY <1>1, <1>2, WebSessionInvariant, ElsewhereStays, PTL

-----------------------------------------------------------------------------
(* Imports: the rows that an upload is through with.                        *)

PupilRow == [row : {"none", "live", "gone"}, enrolled : BOOLEAN]

UploadRun == [at : {"row", "write", "student", "answered"}, kind : {"node", "bulk"},
            rows : File, i : 1 .. 2, valid : SUBSET (1 .. 2), failed : SUBSET (1 .. 2),
            created : Nat, updated : Nat, skipped : Nat, seen : PupilRow, hungUp : BOOLEAN]

\* How many of its rows an upload is through with.
Through(r) == IF r.at = "answered" THEN r.i ELSE r.i - 1

\* The counts are those of the first n rows, and of what the upload has made.
CountedTo(r, mine, n) ==
    /\ r.failed \subseteq r.valid \cap (1 .. n)
    /\ r.created + r.updated + r.skipped + Cardinality(r.failed) = n
    /\ mine \subseteq {r.rows[k].no : k \in r.valid \cap (1 .. n)}
    /\ IsFiniteSet(mine) /\ Cardinality(mine) = r.created

\* Of the first n, a row not reported is a pupil, and enrolled.
SettledTo(r, n) ==
    \A k \in (r.valid \cap (1 .. n)) \ r.failed :
        /\ pupil[r.rows[k].no].row # "none"
        /\ pupil[r.rows[k].no].enrolled \/ r.rows[k].no \in touched

\* Where the upload stands, and what it has read.
Placed(r) ==
    /\ r.valid = Valid(r.rows)
    /\ r.at = "answered" => r.i = 2
    /\ r.at \in {"write", "student"} => r.i \in r.valid
    /\ r.at = "student" => r.kind = "node"
    /\ r.at = "write" /\ r.seen.row # "none" => pupil[r.rows[r.i].no].row # "none"

JobIs(j) ==
    \/ job[j] = [at |-> "none"] /\ made[j] = {}
    \/ job[j].at = "dead"
    \/ /\ job[j] \in UploadRun /\ Placed(job[j])
       /\ CountedTo(job[j], made[j], Through(job[j])) /\ SettledTo(job[j], Through(job[j]))

\* The last message about an upload comes with its answer.
ToldInOrder(j) ==
    IF Answered(j)
    THEN told[j].verdict \in {"COMPLETED", "FAILED"} =>
             told[j].failed = 2 - Cardinality(job[j].valid) + Cardinality(job[j].failed)
    ELSE told[j].verdict \in {"none", "running"}

ImportTypes ==
    /\ pupil \in [Number -> PupilRow]
    /\ stray \in [Number -> Nat]
    /\ DOMAIN job = Job /\ DOMAIN told = Job
    /\ made \in [Job -> SUBSET Number]
    /\ \A j \in Job : JobIs(j) /\ ToldInOrder(j)

\* Nobody creates a number that another upload has created.
MadeOnce ==
    /\ \A j \in Job : \A no \in made[j] : pupil[no].row # "none"
    /\ \A j, d \in Job : j # d => made[j] \cap made[d] = {}

StrayIsNodes ==
    \A no \in Number :
        stray[no] > 0 => \E j \in Job : ~JobAt(j, "none") /\ job[j].kind = "node"

ImportInv == ImportTypes /\ MadeOnce /\ StrayIsNodes

LEMMA RowsOfFile ==
    ASSUME NEW f \in File
    PROVE  /\ Len(f) = 2 /\ DOMAIN f = 1 .. 2 /\ f[1].no \in Number /\ f[2].no \in Number
           /\ Valid(f) \subseteq 1 .. 2
           /\ \A k, m \in Valid(f) : k # m => f[k].no # f[m].no
  <1>1. PICK a, b \in Number, x \in BOOLEAN :
            f = <<[no |-> a, good |-> x], [no |-> b, good |-> TRUE]>>
    BY DEF File
  <1>2. Len(f) = 2 /\ DOMAIN f = 1 .. 2 /\ f[1].no \in Number /\ f[2].no \in Number
    BY <1>1
  <1>3. Valid(f) \subseteq 1 .. 2
    BY <1>2 DEF Valid
  <1>4. ASSUME NEW k \in Valid(f), NEW m \in Valid(f), k < m PROVE f[k].no # f[m].no
    <2>1. k \in 1 .. 2 /\ m \in 1 .. 2 /\ f[k].good
      BY <1>3 DEF Valid
    <2>2. k \in 1 .. m - 1
      BY <1>4, <2>1
    <2> QED BY <2>1, <2>2 DEF Valid
  <1>5. ASSUME NEW k \in Valid(f), NEW m \in Valid(f), k # m PROVE f[k].no # f[m].no
    <2>1. k \in Nat /\ m \in Nat
      BY <1>3
    <2>2. k < m \/ m < k
      BY <1>5, <2>1
    <2> QED BY <1>4, <2>2
  <1> QED BY <1>2, <1>3, <1>5

LEMMA RunOfUpload ==
    ASSUME NEW r \in UploadRun
    PROVE  /\ r.at \in {"row", "write", "student", "answered"} /\ r.kind \in {"node", "bulk"}
           /\ r.rows \in File /\ r.i \in 1 .. 2 /\ r.valid \subseteq 1 .. 2
           /\ r.created \in Nat /\ r.updated \in Nat /\ r.skipped \in Nat
           /\ r.failed \subseteq 1 .. 2 /\ IsFiniteSet(r.failed) /\ Cardinality(r.failed) \in Nat
           /\ IsFiniteSet(r.valid) /\ Cardinality(r.valid) \in Nat
           /\ Len(r.rows) = 2 /\ \A k \in r.valid : r.rows[k].no \in Number
           /\ r.rows[r.i].no \in Number
  <1>1. /\ r.at \in {"row", "write", "student", "answered"} /\ r.kind \in {"node", "bulk"}
        /\ r.rows \in File /\ r.i \in 1 .. 2 /\ r.valid \subseteq 1 .. 2
        /\ r.created \in Nat /\ r.updated \in Nat /\ r.skipped \in Nat
        /\ r.failed \subseteq 1 .. 2
    BY DEF UploadRun
  <1>2. IsFiniteSet(1 .. 2)
    <2>1. 1 \in Int /\ 2 \in Int
      OBVIOUS
    <2> QED BY <2>1, FS_Interval
  <1>3. IsFiniteSet(r.failed) /\ IsFiniteSet(r.valid)
    BY <1>1, <1>2, FS_Subset
  <1>4. Cardinality(r.failed) \in Nat /\ Cardinality(r.valid) \in Nat
    BY <1>3, FS_CardinalityType
  <1>5. Len(r.rows) = 2 /\ r.rows[1].no \in Number /\ r.rows[2].no \in Number
    BY <1>1, RowsOfFile
  <1>6. \A k \in 1 .. 2 : r.rows[k].no \in Number
    BY <1>5
  <1> QED BY <1>1, <1>3, <1>4, <1>5, <1>6

LEMMA JobUnderWay ==
    ASSUME ImportInv, NEW j \in Job, job[j].at \in {"row", "write", "student", "answered"}
    PROVE  /\ job[j] \in UploadRun /\ Placed(job[j])
           /\ CountedTo(job[j], made[j], Through(job[j]))
           /\ SettledTo(job[j], Through(job[j]))
  <1>1. JobIs(j) /\ job[j].at # "none" /\ job[j].at # "dead"
    BY DEF ImportInv, ImportTypes
  <1>2. job[j] # [at |-> "none"]
    BY <1>1
  <1> QED BY <1>1, <1>2 DEF JobIs

\* No number loses its row, and none its enrolment but by hand.
PupilsKept ==
    /\ pupil' \in [Number -> PupilRow]
    /\ \A no \in Number :
          /\ pupil[no].row # "none" => pupil'[no].row # "none"
          /\ pupil[no].enrolled \/ no \in touched => pupil'[no].enrolled \/ no \in touched'

LEMMA SettledStays ==
    ASSUME NEW r \in UploadRun, NEW n, SettledTo(r, n), PupilsKept
    PROVE  SettledTo(r, n)'
  BY RunOfUpload DEF SettledTo, PupilsKept

LEMMA PlacedStays ==
    ASSUME NEW r \in UploadRun, Placed(r), PupilsKept
    PROVE  Placed(r)'
  <1>1. r.rows[r.i].no \in Number
    BY RunOfUpload
  <1> QED BY <1>1 DEF Placed, PupilsKept, Valid

LEMMA OtherJobs ==
    ASSUME ImportInv, PupilsKept, NEW d \in Job,
           job'[d] = job[d], made'[d] = made[d], told'[d] = told[d]
    PROVE  JobIs(d)' /\ ToldInOrder(d)'
  <1>1. JobIs(d) /\ ToldInOrder(d)
    BY DEF ImportInv, ImportTypes
  <1>2. ToldInOrder(d)'
    BY <1>1 DEF ToldInOrder, Answered, JobAt
  <1>3. CASE job[d] = [at |-> "none"] /\ made[d] = {}
    BY <1>2, <1>3 DEF JobIs
  <1>4. CASE job[d].at = "dead"
    BY <1>2, <1>4 DEF JobIs
  <1>5. CASE /\ job[d] \in UploadRun /\ Placed(job[d])
             /\ CountedTo(job[d], made[d], Through(job[d]))
             /\ SettledTo(job[d], Through(job[d]))
    <2>1. PICK r \in UploadRun : r = job[d]
      BY <1>5
    <2>2. PICK n : n = Through(r)
      OBVIOUS
    <2>3. SettledTo(r, n)' /\ Placed(r)'
      BY <1>5, <2>1, <2>2, SettledStays, PlacedStays
    <2>4. CountedTo(r, made[d], n)
      BY <1>5, <2>1, <2>2
    <2>5. job'[d] = r /\ made'[d] = made[d]
      BY <2>1
    <2>6. Placed(job[d])'
      BY <2>3, <2>5 DEF Placed
    <2>7. SettledTo(job[d], Through(job[d]))'
      BY <2>2, <2>3, <2>5 DEF SettledTo, Through
    <2>8. CountedTo(job[d], made[d], Through(job[d]))'
      BY <2>2, <2>4, <2>5 DEF CountedTo, Through
    <2> QED BY <1>2, <2>5, <2>6, <2>7, <2>8 DEF JobIs
  <1> QED BY <1>1, <1>3, <1>4, <1>5 DEF JobIs

\* A step of one upload.
LEMMA UploadSteps ==
    ASSUME ImportInv, NEW j \in Job, NEW r, job' = [job EXCEPT ![j] = r], PupilsKept,
           \A d \in Job \ {j} : made'[d] = made[d] /\ told'[d] = told[d],
           DOMAIN told' = Job, made' \in [Job -> SUBSET Number],
           \A no \in made'[j] : pupil'[no].row # "none",
           \A no \in made'[j] \ made[j] : pupil[no].row = "none",
           stray' \in [Number -> Nat],
           \A no \in Number : stray'[no] > 0 => stray[no] > 0 \/ r.kind = "node",
           r.at # "none", job[j].at # "none" => r.kind = job[j].kind,
           JobIs(j)', ToldInOrder(j)'
    PROVE  ImportInv'
  <1>1. job'[j] = r /\ \A d \in Job \ {j} : job'[d] = job[d]
    BY DEF ImportInv, ImportTypes
  <1>2. \A d \in Job : JobIs(d)' /\ ToldInOrder(d)'
    BY <1>1, OtherJobs
  <1>3. ImportTypes'
    BY <1>2 DEF ImportInv, ImportTypes, PupilsKept
  <1>4. \A d \in Job \ {j} : \A no \in made[d] : no \in Number /\ pupil[no].row # "none"
    BY DEF ImportInv, ImportTypes, MadeOnce
  <1>5. \A d \in Job : \A no \in made'[d] : pupil'[no].row # "none"
    BY <1>4 DEF PupilsKept
  <1>6. ASSUME NEW d \in Job \ {j} PROVE made'[j] \cap made'[d] = {}
    <2>1. made[j] \cap made[d] = {}
      BY DEF ImportInv, MadeOnce
    <2> QED BY <1>4, <2>1
  <1>7. MadeOnce'
    <2>1. ASSUME NEW d \in Job, NEW e \in Job, d # e PROVE made'[d] \cap made'[e] = {}
      <3>1. CASE d = j \/ e = j
        BY <1>6, <2>1, <3>1
      <3>2. CASE d # j /\ e # j
        <4>1. made[d] \cap made[e] = {}
          BY <2>1 DEF ImportInv, MadeOnce
        <4> QED BY <3>2, <4>1
      <3> QED BY <3>1, <3>2
    <2> QED BY <1>5, <2>1 DEF MadeOnce
  <1>8. StrayIsNodes'
    <2> SUFFICES ASSUME NEW no \in Number, stray'[no] > 0
                 PROVE  \E d \in Job : job'[d].at # "none" /\ job'[d].kind = "node"
      BY DEF StrayIsNodes, JobAt
    <2>1. CASE r.kind = "node"
      BY <1>1, <2>1
    <2>2. CASE r.kind # "node"
      <3>1. stray[no] > 0
        BY <2>2
      <3>2. PICK d \in Job : job[d].at # "none" /\ job[d].kind = "node"
        BY <3>1 DEF ImportInv, StrayIsNodes, JobAt
      <3>3. d # j
        BY <2>2, <3>2
      <3> QED BY <1>1, <3>2, <3>3
    <2> QED BY <2>1, <2>2
  <1> QED BY <1>3, <1>7, <1>8 DEF ImportInv

\* A step of one upload that changes nothing but its record.
LEMMA UploadGoesOn ==
    ASSUME ImportInv, NEW j \in Job, NEW r, job' = [job EXCEPT ![j] = r],
           UNCHANGED <<pupil, stray, told, made, touched>>, r.at \notin {"none", "answered"},
           ~Answered(j), job[j].at # "none" => r.kind = job[j].kind,
           \/ r.at = "dead"
           \/ r \in UploadRun /\ Placed(r) /\ CountedTo(r, made[j], Through(r))
                 /\ SettledTo(r, Through(r))
    PROVE  ImportInv'
  <1>1. job'[j] = r
    BY DEF ImportInv, ImportTypes
  <1>2. JobIs(j)'
    <2>1. CASE r.at = "dead"
      BY <1>1, <2>1 DEF JobIs
    <2>2. CASE r \in UploadRun /\ Placed(r) /\ CountedTo(r, made[j], Through(r))
                 /\ SettledTo(r, Through(r))
      <3>1. Placed(job[j])'
        BY <1>1, <2>2 DEF Placed
      <3>2. CountedTo(job[j], made[j], Through(job[j]))'
        BY <1>1, <2>2 DEF CountedTo, Through
      <3>3. SettledTo(job[j], Through(job[j]))'
        BY <1>1, <2>2 DEF SettledTo, Through
      <3> QED BY <1>1, <2>2, <3>1, <3>2, <3>3 DEF JobIs
    <2> QED BY <2>1, <2>2
  <1>3. ToldInOrder(j)'
    <2>1. ToldInOrder(j)
      BY DEF ImportInv, ImportTypes
    <2> QED BY <1>1, <2>1 DEF ToldInOrder, Answered, JobAt
  <1>4. PupilsKept
    BY DEF PupilsKept, ImportInv, ImportTypes
  <1>5. DOMAIN told' = Job /\ made' \in [Job -> SUBSET Number] /\ stray' \in [Number -> Nat]
    BY DEF ImportInv, ImportTypes
  <1>6. \A no \in made'[j] : pupil'[no].row # "none"
    BY DEF ImportInv, MadeOnce
  <1> QED BY <1>2, <1>3, <1>4, <1>5, <1>6, UploadSteps

LEMMA UploadKeeps ==
    ASSUME ImportInv, NEW j \in Job, NEW kind \in {"node", "bulk"}, NEW f \in File,
           Upload(j, kind, f)
    PROVE  ImportInv'
  <1>1. PICK v : v = Valid(f)
    OBVIOUS
  <1>2. v \subseteq 1 .. 2
    BY <1>1, RowsOfFile
  <1> DEFINE r == [at |-> "row", kind |-> kind, rows |-> f, i |-> 1, valid |-> v,
                   failed |-> {}, created |-> 0, updated |-> 0, skipped |-> 0,
                   seen |-> Absent, hungUp |-> FALSE]
  <1>3. job' = [job EXCEPT ![j] = r] /\ UNCHANGED <<pupil, stray, told, made, touched>>
    BY <1>1 DEF Upload
  <1>4. r \in UploadRun
    BY <1>2 DEF UploadRun, Absent, PupilRow
  <1>5. /\ r.at = "row" /\ r.rows = f /\ r.i = 1 /\ r.valid = v /\ r.failed = {}
        /\ r.created = 0 /\ r.updated = 0 /\ r.skipped = 0
    OBVIOUS
  <1>6. job[j].at = "none"
    BY DEF Upload
  <1>7. made[j] = {}
    <2>1. JobIs(j)
      BY DEF ImportInv, ImportTypes
    <2>2. job[j] \notin UploadRun /\ job[j].at # "dead"
      BY <1>6 DEF UploadRun
    <2> QED BY <2>1, <2>2 DEF JobIs
  <1> HIDE DEF r
  <1>8. Placed(r)
    BY <1>1, <1>5 DEF Placed
  <1>9. Through(r) = 0
    BY <1>5 DEF Through
  <1>10. CountedTo(r, made[j], Through(r))
    BY <1>5, <1>7, <1>9, FS_EmptySet DEF CountedTo
  <1>11. SettledTo(r, Through(r))
    BY <1>9 DEF SettledTo
  <1> QED BY <1>3, <1>4, <1>5, <1>6, <1>8, <1>10, <1>11, UploadGoesOn DEF Answered, JobAt

LEMMA HangUpKeeps ==
    ASSUME ImportInv, NEW j \in Job, HangUp(j)
    PROVE  ImportInv'
  <1>1. job[j].at \in {"row", "write", "student"}
    BY DEF HangUp, Running
  <1>2. PICK q \in UploadRun : q = job[j]
    BY <1>1, JobUnderWay
  <1>3. Placed(q) /\ CountedTo(q, made[j], Through(q)) /\ SettledTo(q, Through(q))
    BY <1>1, <1>2, JobUnderWay
  <1>4. PICK r : r = [q EXCEPT !.hungUp = TRUE]
    OBVIOUS
  <1>5. r \in UploadRun
    BY <1>2, <1>4 DEF UploadRun
  <1>6. /\ r.at = q.at /\ r.kind = q.kind /\ r.rows = q.rows /\ r.i = q.i /\ r.valid = q.valid
        /\ r.failed = q.failed /\ r.created = q.created /\ r.updated = q.updated
        /\ r.skipped = q.skipped /\ r.seen = q.seen
    BY <1>2, <1>4 DEF UploadRun
  <1>7. Placed(r)
    BY <1>3, <1>6 DEF Placed
  <1>8. Through(r) = Through(q)
    BY <1>6 DEF Through
  <1>9. CountedTo(r, made[j], Through(r)) /\ SettledTo(r, Through(r))
    BY <1>3, <1>6, <1>8 DEF CountedTo, SettledTo
  <1>10. job' = [job EXCEPT ![j] = r] /\ UNCHANGED <<pupil, stray, told, made, touched>>
    BY <1>2, <1>4 DEF HangUp
  <1> QED BY <1>1, <1>2, <1>5, <1>6, <1>7, <1>9, <1>10, UploadGoesOn DEF Answered, JobAt

LEMMA ReadRowKeeps ==
    ASSUME ImportInv, NEW j \in Job, ReadRow(j)
    PROVE  ImportInv'
  <1>1. job[j].at = "row" /\ job[j].i \in job[j].valid
    BY DEF ReadRow, JobAt
  <1>2. PICK q \in UploadRun : q = job[j]
    BY <1>1, JobUnderWay
  <1>3. Placed(q) /\ CountedTo(q, made[j], Through(q)) /\ SettledTo(q, Through(q))
    BY <1>1, <1>2, JobUnderWay
  <1>4. PICK there \in PupilRow : there = pupil[Current(j)]
    BY <1>2, RunOfUpload DEF Current, ImportInv, ImportTypes
  <1>5. Absent \in PupilRow /\ Absent.row = "none"
    BY DEF Absent, PupilRow
  <1>6. PICK seen \in PupilRow :
            seen = IF q.kind = "bulk" /\ there.row = "gone" THEN Absent ELSE there
    BY <1>5
  <1>7. PICK q1 : q1 = [q EXCEPT !.at = "write"]
    OBVIOUS
  <1>8. q1 \in UploadRun
    BY <1>2, <1>7 DEF UploadRun
  <1>9. PICK r : r = [q1 EXCEPT !.seen = seen]
    OBVIOUS
  <1>10. r \in UploadRun
    BY <1>8, <1>9 DEF UploadRun
  <1>11. /\ r.at = "write" /\ r.kind = q.kind /\ r.rows = q.rows /\ r.i = q.i
         /\ r.valid = q.valid /\ r.failed = q.failed /\ r.created = q.created
         /\ r.updated = q.updated /\ r.skipped = q.skipped /\ r.seen = seen
    BY <1>2, <1>7, <1>8, <1>9 DEF UploadRun
  <1>12. Placed(r)
    <2>1. seen.row # "none" => there.row # "none"
      BY <1>5, <1>6
    <2>2. there = pupil[r.rows[r.i].no]
      BY <1>2, <1>4, <1>11 DEF Current
    <2> QED BY <1>1, <1>2, <1>3, <1>11, <2>1, <2>2 DEF Placed
  <1>13. Through(r) = Through(q)
    BY <1>1, <1>2, <1>11 DEF Through
  <1>14. CountedTo(r, made[j], Through(r)) /\ SettledTo(r, Through(r))
    BY <1>3, <1>11, <1>13 DEF CountedTo, SettledTo
  <1>15. job' = [job EXCEPT ![j] = r] /\ UNCHANGED <<pupil, stray, told, made, touched>>
    BY <1>2, <1>4, <1>6, <1>7, <1>9 DEF ReadRow
  <1> QED BY <1>1, <1>2, <1>10, <1>11, <1>12, <1>14, <1>15, UploadGoesOn DEF Answered, JobAt

LEMMA CreateLoginKeeps ==
    ASSUME ImportInv, NEW j \in Job, CreateLogin(j)
    PROVE  ImportInv'
  <1>1. job[j].at = "write" /\ job[j].kind = "node"
    BY DEF CreateLogin, JobAt
  <1>2. PICK q \in UploadRun : q = job[j]
    BY <1>1, JobUnderWay
  <1>3. Placed(q) /\ CountedTo(q, made[j], Through(q)) /\ SettledTo(q, Through(q))
    BY <1>1, <1>2, JobUnderWay
  <1>4. PICK r : r = [q EXCEPT !.at = "student"]
    OBVIOUS
  <1>5. r \in UploadRun
    BY <1>2, <1>4 DEF UploadRun
  <1>6. /\ r.at = "student" /\ r.kind = q.kind /\ r.rows = q.rows /\ r.i = q.i
        /\ r.valid = q.valid /\ r.failed = q.failed /\ r.created = q.created
        /\ r.updated = q.updated /\ r.skipped = q.skipped
    BY <1>2, <1>4 DEF UploadRun
  <1>7. Placed(r)
    BY <1>1, <1>2, <1>3, <1>6 DEF Placed
  <1>8. Through(r) = Through(q)
    BY <1>1, <1>2, <1>6 DEF Through
  <1>9. CountedTo(r, made[j], Through(r)) /\ SettledTo(r, Through(r))
    BY <1>3, <1>6, <1>8 DEF CountedTo, SettledTo
  <1>10. job' = [job EXCEPT ![j] = r] /\ UNCHANGED <<pupil, stray, told, made, touched>>
    BY <1>2, <1>4 DEF CreateLogin
  <1> QED BY <1>1, <1>2, <1>5, <1>6, <1>7, <1>9, <1>10, UploadGoesOn DEF Answered, JobAt

LEMMA StopKeeps ==
    ASSUME ImportInv, NEW j \in Job, Stop(j)
    PROVE  ImportInv'
  <1>1. job[j].at \in {"row", "write", "student"}
    BY DEF Stop, Running
  <1>2. PICK q \in UploadRun : q = job[j]
    BY <1>1, JobUnderWay
  <1>3. Placed(q) /\ q.rows[q.i].no \in Number
    BY <1>1, <1>2, JobUnderWay, RunOfUpload
  <1>4. PICK r : r = [at |-> "dead", kind |-> q.kind]
    OBVIOUS
  <1>5. r.at = "dead" /\ r.kind = q.kind
    BY <1>4
  <1>6. job' = [job EXCEPT ![j] = r] /\ UNCHANGED <<pupil, told, made, touched>>
    BY <1>2, <1>4 DEF Stop
  <1>7. job'[j] = r
    BY <1>6 DEF ImportInv, ImportTypes
  <1>8. stray' = IF q.at = "student" THEN [stray EXCEPT ![q.rows[q.i].no] = @ + 1] ELSE stray
    BY <1>2 DEF Stop, JobAt, Current
  <1>9. stray \in [Number -> Nat]
    BY DEF ImportInv, ImportTypes
  <1>10. stray' \in [Number -> Nat]
    BY <1>3, <1>8, <1>9
  <1>11. \A no \in Number : stray'[no] > 0 => stray[no] > 0 \/ r.kind = "node"
    BY <1>3, <1>5, <1>8, <1>9 DEF Placed
  <1>12. JobIs(j)'
    BY <1>5, <1>7 DEF JobIs
  <1>13. ToldInOrder(j)'
    <2>1. ToldInOrder(j)
      BY DEF ImportInv, ImportTypes
    <2> QED BY <1>1, <1>5, <1>6, <1>7, <2>1 DEF ToldInOrder, Answered, JobAt
  <1>14. PupilsKept
    BY <1>6 DEF PupilsKept, ImportInv, ImportTypes
  <1>15. DOMAIN told' = Job /\ made' \in [Job -> SUBSET Number]
    BY <1>6 DEF ImportInv, ImportTypes
  <1>16. \A no \in made'[j] : pupil'[no].row # "none"
    BY <1>6 DEF ImportInv, MadeOnce
  <1>17. r.at # "none" /\ r.kind = job[j].kind
    BY <1>2, <1>5
  <1> QED BY <1>6, <1>10, <1>11, <1>12, <1>13, <1>14, <1>15, <1>16, <1>17, UploadSteps

-----------------------------------------------------------------------------
(* Rows that are done                                                       *)

\* q is the upload with its row accounted for.
LEMMA AdvanceKeeps ==
    ASSUME ImportInv, NEW j \in Job, job[j].at \in {"row", "write", "student"},
           NEW q \in UploadRun, q.rows = job[j].rows, q.valid = job[j].valid, q.i = job[j].i,
           q.kind = job[j].kind, Advance(j, q),
           CountedTo(q, made'[j], q.i), SettledTo(q, q.i)', PupilsKept,
           \A d \in Job \ {j} : made'[d] = made[d], made' \in [Job -> SUBSET Number],
           \A no \in made'[j] : pupil'[no].row # "none",
           \A no \in made'[j] \ made[j] : pupil[no].row = "none",
           stray' \in [Number -> Nat],
           \A no \in Number : stray'[no] > 0 => stray[no] > 0 \/ q.kind = "node"
    PROVE  ImportInv'
  <1>1. q.i \in 1 .. 2 /\ Len(q.rows) = 2 /\ Cardinality(q.valid) \in Nat
           /\ Cardinality(q.failed) \in Nat
    BY RunOfUpload
  <1>2. q.valid = Valid(q.rows)
    BY JobUnderWay DEF Placed
  <1>3. PICK at \in {"row", "answered"} : at = IF q.i = 2 THEN "answered" ELSE "row"
    OBVIOUS
  <1>4. PICK i \in 1 .. 2 : i = IF q.i = 2 THEN 2 ELSE q.i + 1
    BY <1>1
  <1>5. PICK q1 : q1 = [q EXCEPT !.at = at]
    OBVIOUS
  <1>6. q1 \in UploadRun /\ q1.i = q.i
    BY <1>5 DEF UploadRun
  <1>7. PICK q2 : q2 = [q1 EXCEPT !.i = i]
    OBVIOUS
  <1>8. q2 \in UploadRun
    BY <1>6, <1>7 DEF UploadRun
  <1>9. PICK r : r = [q2 EXCEPT !.seen = Absent]
    OBVIOUS
  <1>10. r \in UploadRun
    BY <1>8, <1>9 DEF UploadRun, Absent, PupilRow
  <1>11. /\ r.at = at /\ r.kind = q.kind /\ r.rows = q.rows /\ r.i = i
         /\ r.valid = q.valid /\ r.failed = q.failed /\ r.created = q.created
         /\ r.updated = q.updated /\ r.skipped = q.skipped
    BY <1>5, <1>6, <1>7, <1>8, <1>9 DEF UploadRun
  <1>12. job' = [job EXCEPT ![j] = r] /\ Reported(j, q)
    <2>1. CASE q.i = 2
      <3>1. q2 = q1
        BY <1>4, <1>6, <1>7, <2>1 DEF UploadRun
      <3>2. r = [q EXCEPT !.at = "answered", !.seen = Absent]
        BY <1>3, <1>5, <1>9, <2>1, <3>1
      <3> QED BY <1>1, <2>1, <3>2 DEF Advance
    <2>2. CASE q.i # 2
      <3>1. r = [q EXCEPT !.at = "row", !.i = @ + 1, !.seen = Absent]
        BY <1>3, <1>4, <1>5, <1>7, <1>9, <2>2
      <3> QED BY <1>1, <2>2, <3>1 DEF Advance
    <2> QED BY <2>1, <2>2
  <1>13. job'[j] = r
    BY <1>12 DEF ImportInv, ImportTypes
  <1>14. Through(r) = q.i
    BY <1>1, <1>3, <1>4, <1>11 DEF Through
  <1>15. Placed(job[j])'
    BY <1>1, <1>2, <1>3, <1>4, <1>11, <1>13 DEF Placed
  <1>16. CountedTo(job[j], made[j], Through(job[j]))'
    BY <1>11, <1>13, <1>14 DEF CountedTo, Through
  <1>17. SettledTo(job[j], Through(job[j]))'
    BY <1>11, <1>13, <1>14 DEF SettledTo, Through
  <1>18. JobIs(j)'
    BY <1>10, <1>13, <1>15, <1>16, <1>17 DEF JobIs
  <1>19. DOMAIN told = Job /\ told[j].verdict \in {"none", "running"}
    BY DEF ImportInv, ImportTypes, ToldInOrder, Answered, JobAt
  <1>20. DOMAIN told' = Job /\ \A d \in Job \ {j} : told'[d] = told[d]
    BY <1>12, <1>19 DEF Reported
  <1>21. told'[j] = told[j] \/ told'[j] = Message(q)
    BY <1>12, <1>19 DEF Reported
  <1>22. /\ Message(q).failed = 2 - Cardinality(q.valid) + Cardinality(q.failed)
         /\ q.i = 1 => Message(q).verdict = "running"
    BY <1>1 DEF Message
  <1>23. ToldInOrder(j)'
    <2>1. CASE q.i = 2
      <3>1. job'[j].at = "answered"
        BY <1>3, <1>11, <1>13, <2>1
      <3>2. told'[j].verdict \in {"COMPLETED", "FAILED"} => told'[j] = Message(q)
        BY <1>19, <1>21
      <3> QED BY <1>11, <1>13, <1>22, <3>1, <3>2 DEF ToldInOrder, Answered, JobAt
    <2>2. CASE q.i # 2
      <3>1. job'[j].at # "answered"
        BY <1>3, <1>11, <1>13, <2>2
      <3>2. told'[j].verdict \in {"none", "running"}
        BY <1>1, <1>19, <1>21, <1>22, <2>2
      <3> QED BY <3>1, <3>2 DEF ToldInOrder, Answered, JobAt
    <2> QED BY <2>1, <2>2
  <1>24. r.at # "none" /\ r.kind = job[j].kind /\ r.kind = q.kind
    BY <1>3, <1>11
  <1> QED BY <1>12, <1>18, <1>20, <1>23, <1>24, UploadSteps

LEMMA RowInHand ==
    ASSUME ImportInv, NEW j \in Job, job[j].at \in {"row", "write", "student"},
           NEW q, q = job[j]
    PROVE  /\ q \in UploadRun /\ Placed(q) /\ q.i \in 1 .. 2 /\ q.rows[q.i].no \in Number
           /\ CountedTo(q, made[j], q.i - 1) /\ SettledTo(q, q.i - 1)
           /\ \A k \in q.valid : q.rows[k].no \in Number
           /\ \A k \in q.valid : q.i \in q.valid /\ k # q.i => q.rows[k].no # q.rows[q.i].no
  <1>1. q \in UploadRun /\ Placed(q) /\ CountedTo(q, made[j], Through(q)) /\ SettledTo(q, Through(q))
    BY JobUnderWay
  <1>2. Through(q) = q.i - 1
    BY DEF Through
  <1>3. q.valid = Valid(q.rows) /\ q.rows \in File
    BY <1>1, RunOfUpload DEF Placed
  <1> QED BY <1>1, <1>2, <1>3, RunOfUpload, RowsOfFile

LEMMA SkipRowKeeps ==
    ASSUME ImportInv, NEW j \in Job, SkipRow(j)
    PROVE  ImportInv'
  <1>1. job[j].at = "row" /\ job[j].i \notin job[j].valid
    BY DEF SkipRow, JobAt
  <1>2. PICK p : p = job[j]
    OBVIOUS
  <1>3. /\ p \in UploadRun /\ CountedTo(p, made[j], p.i - 1) /\ SettledTo(p, p.i - 1)
        /\ p.i \in 1 .. 2 /\ p.i \notin p.valid
    BY <1>1, <1>2, RowInHand
  <1>4. PICK q : q = [p EXCEPT !.skipped = @ + 1]
    OBVIOUS
  <1>5. q \in UploadRun
    BY <1>3, <1>4 DEF UploadRun
  <1>6. /\ q.kind = p.kind /\ q.rows = p.rows /\ q.i = p.i /\ q.valid = p.valid
        /\ q.failed = p.failed /\ q.created = p.created /\ q.updated = p.updated
        /\ q.skipped = p.skipped + 1
    BY <1>3, <1>4 DEF UploadRun
  <1>7. Advance(j, q) /\ UNCHANGED <<pupil, stray, made, touched>>
    BY <1>2, <1>4 DEF SkipRow
  <1>8. p.valid \cap (1 .. p.i) = p.valid \cap (1 .. p.i - 1)
    BY <1>3
  <1>9. CountedTo(q, made'[j], q.i)
    <2>1. p.created + p.updated + p.skipped + Cardinality(p.failed) = p.i - 1
      BY <1>3 DEF CountedTo
    <2>2. q.created + q.updated + q.skipped + Cardinality(q.failed) = q.i
      BY <1>3, <1>6, <2>1, RunOfUpload
    <2> QED BY <1>3, <1>6, <1>7, <1>8, <2>2 DEF CountedTo
  <1>10. SettledTo(q, q.i)'
    BY <1>3, <1>6, <1>7, <1>8 DEF SettledTo
  <1>11. PupilsKept
    BY <1>7 DEF PupilsKept, ImportInv, ImportTypes
  <1>12. made' \in [Job -> SUBSET Number] /\ stray' \in [Number -> Nat]
    BY <1>7 DEF ImportInv, ImportTypes
  <1>13. \A no \in made'[j] : pupil'[no].row # "none"
    BY <1>7 DEF ImportInv, MadeOnce
  <1> QED BY <1>1, <1>2, <1>5, <1>6, <1>7, <1>9, <1>10, <1>11, <1>12, <1>13, AdvanceKeeps

LEMMA FailsKeeps ==
    ASSUME ImportInv, NEW j \in Job, job[j].at \in {"write", "student"}, Fails(j),
           UNCHANGED <<pupil, made, touched>>, stray' \in [Number -> Nat],
           \A no \in Number : stray'[no] > 0 => stray[no] > 0 \/ job[j].kind = "node"
    PROVE  ImportInv'
  <1>2. PICK p : p = job[j]
    OBVIOUS
  <1>3. /\ p \in UploadRun /\ CountedTo(p, made[j], p.i - 1) /\ SettledTo(p, p.i - 1)
        /\ p.i \in 1 .. 2 /\ p.i \in p.valid
    BY <1>2, RowInHand DEF Placed
  <1>4. PICK q : q = [p EXCEPT !.failed = @ \cup {p.i}]
    OBVIOUS
  <1>5. q \in UploadRun
    BY <1>3, <1>4 DEF UploadRun
  <1>6. /\ q.kind = p.kind /\ q.rows = p.rows /\ q.i = p.i /\ q.valid = p.valid
        /\ q.failed = p.failed \cup {p.i} /\ q.created = p.created /\ q.updated = p.updated
        /\ q.skipped = p.skipped
    BY <1>3, <1>4 DEF UploadRun
  <1>7. Advance(j, q)
    BY <1>2, <1>4 DEF Fails
  <1>8. p.failed \subseteq p.valid \cap (1 .. p.i - 1) /\ IsFiniteSet(p.failed)
    BY <1>3, RunOfUpload DEF CountedTo
  <1>9. p.i \notin p.failed
    BY <1>3, <1>8
  <1>10. Cardinality(q.failed) = Cardinality(p.failed) + 1
    BY <1>6, <1>8, <1>9, FS_AddElement
  <1>11. CountedTo(q, made'[j], q.i)
    <2>1. p.created + p.updated + p.skipped + Cardinality(p.failed) = p.i - 1
      BY <1>3 DEF CountedTo
    <2>2. q.created + q.updated + q.skipped + Cardinality(q.failed) = q.i
      BY <1>3, <1>6, <1>10, <2>1, RunOfUpload
    <2>3. 1 .. p.i - 1 \subseteq 1 .. p.i /\ p.i \in 1 .. p.i
      BY <1>3
    <2>4. q.failed \subseteq q.valid \cap (1 .. q.i)
      BY <1>3, <1>6, <1>8, <2>3
    <2>5. made'[j] \subseteq {q.rows[k].no : k \in q.valid \cap (1 .. q.i)}
      BY <1>3, <1>6, <2>3 DEF CountedTo
    <2> QED BY <1>3, <1>6, <2>2, <2>4, <2>5 DEF CountedTo
  <1>12. SettledTo(q, q.i)'
    <2> SUFFICES ASSUME NEW k \in (q.valid \cap (1 .. q.i)) \ q.failed
                 PROVE  /\ pupil[q.rows[k].no].row # "none"
                        /\ pupil[q.rows[k].no].enrolled \/ q.rows[k].no \in touched
      BY DEF SettledTo
    <2>1. k \in (p.valid \cap (1 .. p.i - 1)) \ p.failed
      BY <1>3, <1>6
    <2> QED BY <1>3, <1>6, <2>1 DEF SettledTo
  <1>13. PupilsKept
    BY DEF PupilsKept, ImportInv, ImportTypes
  <1>14. made' \in [Job -> SUBSET Number]
    BY DEF ImportInv, ImportTypes
  <1>15. \A no \in made'[j] : pupil'[no].row # "none"
    BY DEF ImportInv, MadeOnce
  <1> QED BY <1>2, <1>5, <1>6, <1>7, <1>11, <1>12, <1>13, <1>14, <1>15, AdvanceKeeps

LEMMA UpdateKnownKeeps ==
    ASSUME ImportInv, NEW j \in Job, UpdateKnown(j)
    PROVE  ImportInv'
  <1>1. job[j].at = "write" /\ job[j].seen.row # "none" /\ UNCHANGED <<stray, made, touched>>
    BY DEF UpdateKnown, JobAt, Known
  <1>2. PICK p : p = job[j]
    OBVIOUS
  <1>3. /\ p \in UploadRun /\ CountedTo(p, made[j], p.i - 1) /\ SettledTo(p, p.i - 1)
        /\ p.i \in 1 .. 2 /\ p.i \in p.valid /\ p.rows[p.i].no \in Number
        /\ pupil[p.rows[p.i].no].row # "none"
    BY <1>1, <1>2, RowInHand DEF Placed
  <1>4. CASE Fails(j) /\ UNCHANGED pupil
    <2>1. stray' \in [Number -> Nat]
      BY <1>1 DEF ImportInv, ImportTypes
    <2> QED BY <1>1, <1>4, <2>1, FailsKeeps
  <1>5. CASE /\ Advance(j, [job[j] EXCEPT !.updated = @ + 1])
             /\ EnrolKnown(Current(j))
    <2>1. PICK no \in Number : no = p.rows[p.i].no
      BY <1>3
    <2>2. PICK q : q = [p EXCEPT !.updated = @ + 1]
      OBVIOUS
    <2>3. q \in UploadRun
      BY <1>3, <2>2 DEF UploadRun
    <2>4. /\ q.kind = p.kind /\ q.rows = p.rows /\ q.i = p.i /\ q.valid = p.valid
          /\ q.failed = p.failed /\ q.created = p.created /\ q.updated = p.updated + 1
          /\ q.skipped = p.skipped
      BY <1>3, <2>2 DEF UploadRun
    <2>5. Advance(j, q) /\ pupil' = [pupil EXCEPT ![no].enrolled = TRUE]
      BY <1>2, <1>5, <2>1, <2>2 DEF EnrolKnown, Current
    <2>6. pupil \in [Number -> PupilRow]
      BY DEF ImportInv, ImportTypes
    <2>7. PICK next : next = [pupil[no] EXCEPT !.enrolled = TRUE]
      OBVIOUS
    <2>8. next \in PupilRow /\ next.row = pupil[no].row /\ next.enrolled
      BY <2>6, <2>7 DEF PupilRow
    <2>9. pupil' = [pupil EXCEPT ![no] = next]
      BY <2>5, <2>7
    <2>10. PupilsKept
      BY <1>1, <2>6, <2>8, <2>9 DEF PupilsKept
    <2>11. 1 .. p.i - 1 \subseteq 1 .. p.i
      BY <1>3
    <2>12. CountedTo(q, made'[j], q.i)
      <3>1. p.created + p.updated + p.skipped + Cardinality(p.failed) = p.i - 1
        BY <1>3 DEF CountedTo
      <3>2. q.created + q.updated + q.skipped + Cardinality(q.failed) = q.i
        BY <1>3, <2>4, <3>1, RunOfUpload
      <3>3. made[j] \subseteq {q.rows[k].no : k \in q.valid \cap (1 .. q.i)}
        BY <1>3, <2>4, <2>11 DEF CountedTo
      <3> QED BY <1>1, <1>3, <2>4, <2>11, <3>2, <3>3 DEF CountedTo
    <2>13. SettledTo(p, p.i - 1)'
      BY <1>3, <2>10, SettledStays
    <2>14. SettledTo(q, q.i)'
      <3> SUFFICES ASSUME NEW k \in (q.valid \cap (1 .. q.i)) \ q.failed
                   PROVE  /\ pupil'[q.rows[k].no].row # "none"
                          /\ pupil'[q.rows[k].no].enrolled \/ q.rows[k].no \in touched'
        BY DEF SettledTo
      <3>1. CASE k = p.i
        <4>1. q.rows[k].no = no /\ pupil'[no] = next
          BY <2>1, <2>4, <2>6, <2>9, <3>1
        <4> QED BY <1>3, <2>1, <2>8, <4>1
      <3>2. CASE k # p.i
        <4>1. k \in (p.valid \cap (1 .. p.i - 1)) \ p.failed
          BY <1>3, <2>4, <3>2
        <4> QED BY <2>4, <2>13, <4>1 DEF SettledTo
      <3> QED BY <3>1, <3>2
    <2>15. made' \in [Job -> SUBSET Number] /\ stray' \in [Number -> Nat]
      BY <1>1 DEF ImportInv, ImportTypes
    <2>16. \A n \in made'[j] : pupil'[n].row # "none"
      BY <1>1, <2>10 DEF ImportInv, ImportTypes, MadeOnce, PupilsKept
    <2> QED BY <1>1, <1>2, <2>3, <2>4, <2>5, <2>10, <2>12, <2>14, <2>15, <2>16, AdvanceKeeps
  <1> QED BY <1>4, <1>5 DEF UpdateKnown

LEMMA CreateKeeps ==
    ASSUME ImportInv, NEW j \in Job, job[j].at \in {"write", "student"}, Create(j),
           touched' = touched, stray' \in [Number -> Nat],
           \A no \in Number : stray'[no] > 0 => stray[no] > 0 \/ job[j].kind = "node"
    PROVE  ImportInv'
  <1>1. CASE Fails(j) /\ UNCHANGED <<pupil, made>>
    BY <1>1, FailsKeeps
  <1>2. PICK p : p = job[j]
    OBVIOUS
  <1>3. /\ p \in UploadRun /\ CountedTo(p, made[j], p.i - 1) /\ SettledTo(p, p.i - 1)
        /\ p.i \in 1 .. 2 /\ p.i \in p.valid /\ p.rows[p.i].no \in Number
        /\ \A k \in p.valid : k # p.i => p.rows[k].no # p.rows[p.i].no
    BY <1>2, RowInHand DEF Placed
  <1>4. PICK no \in Number : no = p.rows[p.i].no
    BY <1>3
  <1>5. CASE /\ pupil[no].row = "none"
             /\ Advance(j, [job[j] EXCEPT !.created = @ + 1])
             /\ pupil' = [pupil EXCEPT ![no] = Live]
             /\ made' = [made EXCEPT ![j] = @ \cup {no}]
    <2>2. PICK q : q = [p EXCEPT !.created = @ + 1]
      OBVIOUS
    <2>3. q \in UploadRun
      BY <1>3, <2>2 DEF UploadRun
    <2>4. /\ q.kind = p.kind /\ q.rows = p.rows /\ q.i = p.i /\ q.valid = p.valid
          /\ q.failed = p.failed /\ q.created = p.created + 1 /\ q.updated = p.updated
          /\ q.skipped = p.skipped
      BY <1>3, <2>2 DEF UploadRun
    <2>5. Advance(j, q)
      BY <1>2, <1>5, <2>2
    <2>6. pupil \in [Number -> PupilRow] /\ made \in [Job -> SUBSET Number]
      BY DEF ImportInv, ImportTypes
    <2>7. Live \in PupilRow /\ Live.row # "none" /\ Live.enrolled
      BY DEF Live, PupilRow
    <2>8. pupil'[no] = Live /\ \A n \in Number \ {no} : pupil'[n] = pupil[n]
      BY <1>5, <2>6
    <2>9. PupilsKept
      BY <1>5, <2>6, <2>7, <2>8 DEF PupilsKept
    <2>10. made'[j] = made[j] \cup {no} /\ \A d \in Job \ {j} : made'[d] = made[d]
      BY <1>5, <2>6
    <2>11. /\ made[j] \subseteq {p.rows[k].no : k \in p.valid \cap (1 .. p.i - 1)}
           /\ IsFiniteSet(made[j]) /\ Cardinality(made[j]) = p.created
      BY <1>3 DEF CountedTo
    <2>12. no \notin made[j]
      <3> SUFFICES ASSUME NEW k \in p.valid \cap (1 .. p.i - 1) PROVE p.rows[k].no # no
        BY <2>11
      <3>1. k # p.i
        BY <1>3
      <3> QED BY <1>3, <1>4, <3>1
    <2>13. IsFiniteSet(made'[j]) /\ Cardinality(made'[j]) = q.created
      <3>1. PICK S : S = made[j]
        OBVIOUS
      <3>2. IsFiniteSet(S) /\ no \notin S /\ Cardinality(S) = p.created
        BY <2>11, <2>12, <3>1
      <3>3. IsFiniteSet(S \cup {no}) /\ Cardinality(S \cup {no}) = Cardinality(S) + 1
        BY <3>2, FS_AddElement
      <3>4. made'[j] = S \cup {no}
        BY <2>10, <3>1
      <3> QED BY <2>4, <3>2, <3>3, <3>4
    <2>14. 1 .. p.i - 1 \subseteq 1 .. p.i /\ p.i \in 1 .. p.i
      BY <1>3
    <2>15. CountedTo(q, made'[j], q.i)
      <3>1. p.created + p.updated + p.skipped + Cardinality(p.failed) = p.i - 1
        BY <1>3 DEF CountedTo
      <3>2. q.created + q.updated + q.skipped + Cardinality(q.failed) = q.i
        BY <1>3, <2>4, <3>1, RunOfUpload
      <3>3. no \in {p.rows[k].no : k \in p.valid \cap (1 .. p.i)}
        BY <1>3, <1>4, <2>14
      <3>4. made'[j] \subseteq {q.rows[k].no : k \in q.valid \cap (1 .. q.i)}
        BY <2>4, <2>10, <2>11, <2>14, <3>3
      <3>5. q.failed \subseteq q.valid \cap (1 .. q.i)
        BY <1>3, <2>4, <2>14 DEF CountedTo
      <3> QED BY <2>13, <3>2, <3>4, <3>5 DEF CountedTo
    <2>16. SettledTo(p, p.i - 1)'
      BY <1>3, <2>9, SettledStays
    <2>17. SettledTo(q, q.i)'
      <3> SUFFICES ASSUME NEW k \in (q.valid \cap (1 .. q.i)) \ q.failed
                   PROVE  /\ pupil'[q.rows[k].no].row # "none"
                          /\ pupil'[q.rows[k].no].enrolled \/ q.rows[k].no \in touched'
        BY DEF SettledTo
      <3>1. CASE k = p.i
        BY <1>4, <2>4, <2>7, <2>8, <3>1
      <3>2. CASE k # p.i
        <4>1. k \in (p.valid \cap (1 .. p.i - 1)) \ p.failed
          BY <1>3, <2>4, <3>2
        <4> QED BY <2>4, <2>16, <4>1 DEF SettledTo
      <3> QED BY <3>1, <3>2
    <2>18. made' \in [Job -> SUBSET Number]
      BY <1>5, <2>6
    <2>19. \A n \in made'[j] : pupil'[n].row # "none"
      <3>1. \A n \in made[j] : n \in Number /\ pupil[n].row # "none"
        BY <2>6 DEF ImportInv, MadeOnce
      <3> QED BY <2>7, <2>8, <2>9, <2>10, <3>1 DEF PupilsKept
    <2>20. \A n \in made'[j] \ made[j] : pupil[n].row = "none"
      BY <1>5, <2>10
    <2> QED BY <1>2, <2>3, <2>4, <2>5, <2>9, <2>10, <2>15, <2>17, <2>18, <2>19, <2>20, AdvanceKeeps
  <1> QED BY <1>1, <1>2, <1>4, <1>5 DEF Create, Current

LEMMA CreatePupilKeeps ==
    ASSUME ImportInv, NEW j \in Job, CreatePupil(j)
    PROVE  ImportInv'
  <1>1. job[j].at = "student" /\ Create(j) /\ touched' = touched
    BY DEF CreatePupil, JobAt
  <1>2. job[j].kind = "node" /\ Current(j) \in Number
    BY <1>1, RowInHand DEF Placed, Current
  <1>3. stray \in [Number -> Nat]
    BY DEF ImportInv, ImportTypes
  <1>4. stray' \in [Number -> Nat]
    BY <1>2, <1>3 DEF CreatePupil
  <1> QED BY <1>1, <1>2, <1>4, CreateKeeps

LEMMA CreateAllKeeps ==
    ASSUME ImportInv, NEW j \in Job, CreateAll(j)
    PROVE  ImportInv'
  <1>1. job[j].at = "write" /\ Create(j) /\ touched' = touched /\ stray' = stray
    BY DEF CreateAll, JobAt
  <1>2. stray' \in [Number -> Nat]
    BY <1>1 DEF ImportInv, ImportTypes
  <1> QED BY <1>1, <1>2, CreateKeeps

LEMMA ByHandKeeps ==
    ASSUME ImportInv, NEW no \in Number, ByHand(no)
    PROVE  ImportInv'
  <1>1. touched' = touched \cup {no} /\ UNCHANGED <<stray, job, told, made>>
    BY DEF ByHand
  <1>2. pupil \in [Number -> PupilRow] /\ pupil[no] \in PupilRow
    BY DEF ImportInv, ImportTypes
  <1>3. \E next \in PupilRow : /\ pupil' = [pupil EXCEPT ![no] = next]
                              /\ next.row # "none"
    <2>1. CASE pupil' = [pupil EXCEPT ![no] = Live]
      <3>1. Live \in PupilRow /\ Live.row # "none"
        BY DEF Live, PupilRow
      <3> QED BY <2>1, <3>1
    <2>2. CASE pupil[no].row = "live" /\ pupil' = [pupil EXCEPT ![no].row = "gone"]
      <3>1. PICK next : next = [pupil[no] EXCEPT !.row = "gone"]
        OBVIOUS
      <3>2. next \in PupilRow /\ next.row # "none"
        BY <1>2, <3>1 DEF PupilRow
      <3> QED BY <2>2, <3>1, <3>2
    <2>3. CASE pupil[no].row = "live" /\ pupil' = [pupil EXCEPT ![no].enrolled = FALSE]
      <3>1. PICK next : next = [pupil[no] EXCEPT !.enrolled = FALSE]
        OBVIOUS
      <3>2. next \in PupilRow /\ next.row # "none"
        BY <1>2, <2>3, <3>1 DEF PupilRow
      <3> QED BY <2>3, <3>1, <3>2
    <2> QED BY <2>1, <2>2, <2>3 DEF ByHand
  <1>4. PupilsKept
    BY <1>1, <1>2, <1>3 DEF PupilsKept
  <1>5. \A d \in Job : JobIs(d)' /\ ToldInOrder(d)'
    BY <1>1, <1>4, OtherJobs
  <1>6. ImportTypes'
    BY <1>1, <1>4, <1>5 DEF ImportInv, ImportTypes, PupilsKept
  <1>7. MadeOnce'
    BY <1>1, <1>4 DEF ImportInv, ImportTypes, MadeOnce, PupilsKept
  <1>8. StrayIsNodes'
    BY <1>1 DEF ImportInv, StrayIsNodes, JobAt
  <1> QED BY <1>6, <1>7, <1>8 DEF ImportInv

-----------------------------------------------------------------------------

LEMMA ImportInvInit ==
    ASSUME ImportInit
    PROVE  ImportInv
  <1>1. Absent \in PupilRow /\ LastYears \in PupilRow
    BY DEF Absent, LastYears, PupilRow
  <1>2. \A j \in Job : job[j] = [at |-> "none"] /\ made[j] = {} /\ told[j] = NoMessage
    BY DEF ImportInit
  <1>3. \A j \in Job : JobIs(j) /\ ToldInOrder(j)
    BY <1>2 DEF JobIs, ToldInOrder, Answered, JobAt, NoMessage
  <1>4. ImportTypes
    BY <1>1, <1>3 DEF ImportInit, ImportTypes
  <1>5. MadeOnce /\ StrayIsNodes
    BY <1>2 DEF ImportInit, MadeOnce, StrayIsNodes
  <1> QED BY <1>4, <1>5 DEF ImportInv

LEMMA ImportInvKept ==
    ASSUME ImportInv, [ImportNext]_importVars
    PROVE  ImportInv'
  <1>1. ASSUME NEW j \in Job, ImportStep(j) PROVE ImportInv'
    BY <1>1, UploadKeeps, HangUpKeeps, StopKeeps, SkipRowKeeps, ReadRowKeeps, UpdateKnownKeeps,
       CreateAllKeeps, CreateLoginKeeps, CreatePupilKeeps DEF ImportStep
  <1>2. CASE UNCHANGED importVars
    <2>1. UNCHANGED <<pupil, stray, job, told, made, touched>>
      BY <1>2 DEF importVars
    <2>2. PupilsKept
      BY <2>1 DEF PupilsKept, ImportInv, ImportTypes
    <2>3. \A d \in Job : JobIs(d)' /\ ToldInOrder(d)'
      BY <2>1, <2>2, OtherJobs
    <2> QED BY <2>1, <2>3 DEF ImportInv, ImportTypes, MadeOnce, StrayIsNodes, JobAt
  <1> QED BY <1>1, <1>2, ByHandKeeps DEF ImportNext

LEMMA ImportAnswersTruly ==
    ASSUME ImportInv
    PROVE  ImportIsTrue
  <1>1. ASSUME NEW j \in Job, Answered(j)
        PROVE  /\ job[j] \in UploadRun /\ CountedTo(job[j], made[j], 2) /\ SettledTo(job[j], 2)
               /\ Len(job[j].rows) = 2
    <2>1. job[j].at = "answered"
      BY <1>1 DEF Answered, JobAt
    <2>2. /\ job[j] \in UploadRun /\ Placed(job[j])
          /\ CountedTo(job[j], made[j], Through(job[j])) /\ SettledTo(job[j], Through(job[j]))
      BY <2>1, JobUnderWay
    <2>3. Through(job[j]) = 2
      BY <2>1, <2>2 DEF Through, Placed
    <2> QED BY <2>2, <2>3, RunOfUpload
  <1>2. CountsAddUp
    BY <1>1 DEF CountsAddUp, CountedTo
  <1>3. ReportedOrEnrolled
    <2> SUFFICES ASSUME NEW j \in Job, Answered(j), NEW k \in job[j].valid \ job[j].failed
                 PROVE  /\ pupil[job[j].rows[k].no].row # "none"
                        /\ pupil[job[j].rows[k].no].enrolled \/ job[j].rows[k].no \in touched
      BY DEF ReportedOrEnrolled
    <2>1. k \in 1 .. 2
      BY <1>1, RunOfUpload
    <2> QED BY <1>1, <2>1 DEF SettledTo
  <1>4. NoTwins
    <2>1. ASSUME NEW no \in Number PROVE Cardinality({j \in Job : no \in made[j]}) <= 1
      <3>1. CASE {j \in Job : no \in made[j]} = {}
        <4>1. Cardinality({j \in Job : no \in made[j]}) = Cardinality({})
          BY <3>1, Zenon
        <4>2. Cardinality({}) = 0
          BY FS_EmptySet
        <4> QED BY <4>1, <4>2
      <3>2. CASE {j \in Job : no \in made[j]} # {}
        <4>1. PICK j \in Job : no \in made[j]
          BY <3>2
        <4>2. \A d \in Job : no \in made[d] => d = j
          BY <4>1 DEF ImportInv, MadeOnce
        <4>3. {d \in Job : no \in made[d]} = {j}
          BY <4>1, <4>2
        <4>4. PICK S : S = {d \in Job : no \in made[d]}
          OBVIOUS
        <4>5. Cardinality(S) = 1
          BY <4>3, <4>4, FS_Singleton
        <4> QED BY <4>4, <4>5
      <3> QED BY <3>1, <3>2
    <2> QED BY <2>1 DEF NoTwins, ImportInv, StrayIsNodes
  <1>5. LastWord
    <2> SUFFICES ASSUME NEW j \in Job, Answered(j), told[j].verdict \in {"COMPLETED", "FAILED"}
                 PROVE  told[j].failed =
                            Len(job[j].rows) - Cardinality(job[j].valid \ job[j].failed)
      BY DEF LastWord
    <2>1. told[j].failed = 2 - Cardinality(job[j].valid) + Cardinality(job[j].failed)
      BY DEF ImportInv, ImportTypes, ToldInOrder
    <2>2. PICK r \in UploadRun : r = job[j]
      BY <1>1
    <2>3. /\ IsFiniteSet(r.valid) /\ Cardinality(r.valid) \in Nat
          /\ Cardinality(r.failed) \in Nat /\ r.failed \subseteq r.valid
      BY <1>1, <2>2, RunOfUpload DEF CountedTo
    <2>4. PICK v, f : v = r.valid /\ f = r.failed
      OBVIOUS
    <2>5. IsFiniteSet(v) /\ v \cap f = f
      BY <2>3, <2>4
    <2>6. Cardinality(v \ f) = Cardinality(v) - Cardinality(v \cap f)
      BY <2>5, FS_Difference
    <2>7. Cardinality(r.valid \ r.failed) = Cardinality(r.valid) - Cardinality(r.failed)
      BY <2>4, <2>5, <2>6
    <2>8. told[j].failed = 2 - Cardinality(r.valid) + Cardinality(r.failed) /\ Len(r.rows) = 2
      BY <1>1, <2>1, <2>2
    <2>9. told[j].failed = Len(r.rows) - Cardinality(r.valid \ r.failed)
      BY <2>3, <2>7, <2>8
    <2> QED BY <2>2, <2>9
  <1> QED BY <1>2, <1>3, <1>4, <1>5 DEF ImportIsTrue

\* However uploads overlap, stop and are repeated: the counts of an answer are those of its
\* rows, what it does not report is enrolled, and no number is created twice.
THEOREM ImportIsTrueHolds == ImportSpec => []ImportIsTrue
  <1>1. ImportInv /\ [ImportNext]_importVars => ImportInv'
    BY ImportInvKept
  <1> QED BY <1>1, ImportInvInit, ImportAnswersTruly, PTL DEF ImportSpec

-----------------------------------------------------------------------------
(* TenantGate: what the control plane, the look-ups, the clients and the    *)
(* requests of a process hold.                                              *)

TenantStatus == {"OPEN", "SUSPENDED", "DELETING"}
RegistryRow == [row : BOOLEAN, slug : Slug \cup {None}, status : TenantStatus, store : BOOLEAN]
BaseRow == [tables : Tenant \cup {None}, password : Tenant \cup {None}]
GateKey == ({"id"} \X Tenant) \cup ({"slug"} \X Slug)

Addressed(t) == t \in Tenant /\ registry[t].slug \in Slug

\* The role of an address is that of the tenant that holds it, and so are the
\* tables, which are there only while the tenant has its datastore.
PlaneInv ==
    /\ registry \in [Tenant -> RegistryRow]
    /\ base \in [Slug -> BaseRow]
    /\ \A t \in Tenant : registry[t].row =>
          registry[t].slug \in Slug /\ base[registry[t].slug].password = t
    /\ \A s \in Slug : base[s].tables # None =>
          /\ registry[base[s].tables].row /\ registry[base[s].tables].store
          /\ registry[base[s].tables].slug = s
    /\ directory \in Tenant \cup {None}

\* When each tenant could last be served.
TimesInv ==
    /\ clock \in Nat
    /\ lastOpen \in [Tenant -> Nat]
    /\ \A t \in Tenant : lastOpen[t] <= clock /\ (Serving(t) => lastOpen[t] = clock)

\* A record of the control plane is that of a tenant which has its address.
RecordTells(rec) ==
    \/ rec = NoRecord
    \/ rec \in [id : Tenant, status : TenantStatus, store : BOOLEAN] /\ Addressed(rec.id)

\* A record that is kept is forgotten a minute after its tenant was last open.
CacheTells(k) ==
    /\ RecordTells(cache[k].rec)
    /\ cache[k].until \in Nat
    /\ ~dawdled /\ cache[k].rec.status = "OPEN" =>
          clock <= cache[k].until /\ cache[k].until <= lastOpen[cache[k].rec.id] + Ttl

RequestTells(r) ==
    /\ rq[r].at = "hop" => rq[r].hint \in Slug \cup {None}
    /\ rq[r].at \in {"slug", "bind", "query"} => rq[r].key \in GateKey
    /\ rq[r].at = "store" =>
          /\ rq[r].stage \in {"slug", "bind", "query"}
          /\ rq[r].key \in GateKey /\ RecordTells(rq[r].rec)
          /\ rq[r].read \in Nat /\ rq[r].read <= clock
          /\ rq[r].rec.status = "OPEN" => rq[r].read <= lastOpen[rq[r].rec.id]
    /\ rq[r].at = "using" =>
          /\ Addressed(rq[r].tenant) /\ rq[r].asOf \in Nat
          /\ ~dawdled => rq[r].asOf <= lastOpen[rq[r].tenant] + Ttl
    /\ rq[r].at = "read" => rq[r].from = rq[r].tenant /\ Addressed(rq[r].tenant)
    /\ rq[r].at = "route" =>
          /\ rq[r].hint \in Slug \cup {None} /\ rq[r].dir \in Tenant \cup {None}
          /\ rq[r].began \in Nat /\ rq[r].began <= clock
    /\ rq[r].at \in {"check", "index"} =>
          /\ rq[r].tenant = Unrouted \/ Addressed(rq[r].tenant)
          /\ rq[r].began \in Nat
          /\ rq[r].tenant \in Tenant => rq[r].began <= lastOpen[rq[r].tenant]
    /\ rq[r].at = "index" => rq[r].from = rq[r].tenant

PoolTells ==
    /\ pool \in Seq(Tenant)
    /\ Len(pool) <= MaxPool
    /\ \A i, j \in 1 .. Len(pool) : pool[i] = pool[j] => i = j

GateInv ==
    /\ PlaneInv /\ TimesInv /\ PoolTells
    /\ DOMAIN cache = GateKey /\ \A k \in GateKey : CacheTells(k)
    /\ DOMAIN rq = Caller /\ \A r \in Caller : RequestTells(r)

\* What time and the control plane never take back.
Onward ==
    /\ clock' >= clock
    /\ \A t \in Tenant : lastOpen'[t] >= lastOpen[t] /\ (Addressed(t) => Addressed(t)')
    /\ dawdled => dawdled'

LEMMA RecordStays ==
    ASSUME Onward, NEW rec, RecordTells(rec)
    PROVE  RecordTells(rec)'
  <1>1. CASE rec = NoRecord
    BY <1>1 DEF RecordTells
  <1>2. CASE rec \in [id : Tenant, status : TenantStatus, store : BOOLEAN] /\ Addressed(rec.id)
    <2>1. rec.id \in Tenant
      BY <1>2
    <2> QED BY <1>2, <2>1 DEF RecordTells, Onward
  <1> QED BY <1>1, <1>2 DEF RecordTells

LEMMA RequestStays ==
    ASSUME GateInv, TimesInv', Onward, NEW r \in Caller, rq'[r] = rq[r]
    PROVE  RequestTells(r)'
  <1>1. RequestTells(r) /\ clock \in Nat /\ clock' \in Nat /\ clock <= clock' /\ Ttl \in Nat
    BY GateAssumption DEF GateInv, TimesInv, Onward
  <1>2. \A t \in Tenant : lastOpen[t] \in Nat /\ lastOpen'[t] \in Nat /\ lastOpen[t] <= lastOpen'[t]
    BY DEF GateInv, TimesInv, Onward
  <1>3. \A t : Addressed(t) => Addressed(t)' /\ t \in Tenant
    BY DEF Onward, Addressed
  <1>4. ASSUME rq[r].at = "store"
        PROVE  /\ RecordTells(rq[r].rec)'
               /\ rq[r].rec.status = "OPEN" => rq[r].rec.id \in Tenant
    <2>1. RecordTells(rq[r].rec)
      BY <1>1, <1>4 DEF RequestTells
    <2>2. PICK rec : rec = rq[r].rec
      OBVIOUS
    <2>3. RecordTells(rec)
      BY <2>1, <2>2 DEF RecordTells
    <2>4. RecordTells(rec)'
      BY <2>3, RecordStays
    <2>5. rec.status = "OPEN" => rec.id \in Tenant
      BY <2>3 DEF RecordTells, NoRecord, None
    <2> QED BY <2>2, <2>4, <2>5 DEF RecordTells, Addressed
  <1>5. PICK q : q = rq[r]
    OBVIOUS
  <1>6. q.at = "store" => (q.rec.status = "OPEN" => q.read <= lastOpen'[q.rec.id])
    <2> SUFFICES ASSUME q.at = "store", q.rec.status = "OPEN" PROVE q.read <= lastOpen'[q.rec.id]
      OBVIOUS
    <2>1. q.read \in Nat /\ q.read <= lastOpen[q.rec.id] /\ q.rec.id \in Tenant
      BY <1>1, <1>4, <1>5 DEF RequestTells
    <2> QED BY <1>2, <2>1
  <1>7. q.at = "using" /\ ~dawdled' => q.asOf <= lastOpen'[q.tenant] + Ttl
    <2> SUFFICES ASSUME q.at = "using", ~dawdled' PROVE q.asOf <= lastOpen'[q.tenant] + Ttl
      OBVIOUS
    <2>1. q.asOf \in Nat /\ q.asOf <= lastOpen[q.tenant] + Ttl /\ q.tenant \in Tenant
      BY <1>1, <1>3, <1>5 DEF RequestTells, Onward
    <2> QED BY <1>1, <1>2, <2>1
  <1>8. q.at \in {"check", "index"} /\ q.tenant \in Tenant => q.began <= lastOpen'[q.tenant]
    <2> SUFFICES ASSUME q.at \in {"check", "index"}, q.tenant \in Tenant
                 PROVE  q.began <= lastOpen'[q.tenant]
      OBVIOUS
    <2>1. q.began \in Nat /\ q.began <= lastOpen[q.tenant]
      BY <1>1, <1>5 DEF RequestTells
    <2> QED BY <1>2, <2>1
  <1>9. /\ q.at = "store" => q.read \in Nat /\ q.read <= clock'
        /\ q.at = "route" => q.began \in Nat /\ q.began <= clock'
    BY <1>1, <1>5 DEF RequestTells
  <1>10. /\ q.at \in {"using", "read"} => Addressed(rq[r].tenant)'
         /\ q.at \in {"check", "index"} => rq[r].tenant = Unrouted \/ Addressed(rq[r].tenant)'
    BY <1>1, <1>3, <1>5 DEF RequestTells, Addressed
  <1> QED BY <1>1, <1>4, <1>5, <1>6, <1>7, <1>8, <1>9, <1>10 DEF RequestTells

LEMMA OtherRequests ==
    ASSUME GateInv, TimesInv', Onward, NEW r \in Caller, NEW next,
           rq' = [rq EXCEPT ![r] = next], RequestTells(r)'
    PROVE  DOMAIN rq' = Caller /\ \A d \in Caller : RequestTells(d)'
  <1>1. \A d \in Caller \ {r} : rq'[d] = rq[d]
    BY DEF GateInv
  <1> QED BY <1>1, RequestStays DEF GateInv

LEMMA AllRequests ==
    ASSUME GateInv, TimesInv', Onward, UNCHANGED rq
    PROVE  DOMAIN rq' = Caller /\ \A d \in Caller : RequestTells(d)'
  BY RequestStays DEF GateInv

LEMMA CacheStays ==
    ASSUME GateInv, TimesInv', Onward, clock' = clock, UNCHANGED <<cache, dawdled>>
    PROVE  DOMAIN cache' = GateKey /\ \A k \in GateKey : CacheTells(k)'
  <1> SUFFICES ASSUME NEW k \in GateKey PROVE CacheTells(k)'
    BY DEF GateInv
  <1>1. CacheTells(k)
    BY DEF GateInv
  <1>2. PICK rec : rec = cache[k].rec
    OBVIOUS
  <1>3. RecordTells(rec)
    BY <1>1, <1>2 DEF CacheTells, RecordTells
  <1>4. RecordTells(rec)'
    BY <1>3, RecordStays
  <1>5. RecordTells(cache[k].rec)'
    BY <1>2, <1>4 DEF RecordTells, Addressed
  <1>6. ASSUME ~dawdled, rec.status = "OPEN"
        PROVE  clock <= cache[k].until /\ cache[k].until <= lastOpen'[rec.id] + Ttl
    <2>1. rec.id \in Tenant
      BY <1>3, <1>6 DEF RecordTells, NoRecord, None
    <2>2. lastOpen[rec.id] \in Nat /\ lastOpen'[rec.id] \in Nat /\ lastOpen[rec.id] <= lastOpen'[rec.id]
      BY <2>1 DEF GateInv, TimesInv, Onward
    <2>3. /\ cache[k].until \in Nat /\ clock <= cache[k].until
          /\ cache[k].until <= lastOpen[rec.id] + Ttl /\ Ttl \in Nat
      BY <1>1, <1>2, <1>6, GateAssumption DEF CacheTells
    <2> QED BY <2>2, <2>3
  <1> QED BY <1>1, <1>2, <1>5, <1>6 DEF CacheTells

-----------------------------------------------------------------------------
(* The control plane changes, and a minute passes.                          *)

\* What a change of the control plane has to keep.
PlaneGoesOn ==
    /\ PlaneInv' /\ lastOpen' \in [Tenant -> Nat]
    /\ \A t \in Tenant : /\ lastOpen[t] <= lastOpen'[t] /\ lastOpen'[t] <= clock
                         /\ Serving(t)' => lastOpen'[t] = clock
                         /\ Addressed(t) => Addressed(t)'

LEMMA CloseGoesOn ==
    ASSUME GateInv, NEW t \in Tenant, NEW status \in {"SUSPENDED", "DELETING"}, Close(t, status)
    PROVE  PlaneGoesOn
  <1>1. PlaneInv /\ TimesInv
    BY DEF GateInv
  <1>2. /\ UNCHANGED <<base, directory, lastOpen>>
        /\ registry' = [registry EXCEPT ![t].status = status]
    BY DEF Close
  <1>3. PICK after : after = [registry[t] EXCEPT !.status = status]
    OBVIOUS
  <1>4. registry[t] \in RegistryRow
    BY <1>1 DEF PlaneInv
  <1>5. /\ after \in RegistryRow /\ after.row = registry[t].row /\ after.slug = registry[t].slug
        /\ after.store = registry[t].store /\ after.status # "OPEN"
    BY <1>3, <1>4 DEF RegistryRow, TenantStatus
  <1>6. registry' = [registry EXCEPT ![t] = after]
    BY <1>2, <1>3
  <1>7. registry' \in [Tenant -> RegistryRow] /\ registry'[t] = after
        /\ \A u \in Tenant \ {t} : registry'[u] = registry[u]
    BY <1>1, <1>5, <1>6 DEF PlaneInv
  <1>8. \A u \in Tenant : /\ registry'[u].row = registry[u].row
                          /\ registry'[u].slug = registry[u].slug
                          /\ registry'[u].store = registry[u].store
                          /\ Serving(u)' => Serving(u)
    BY <1>5, <1>7 DEF Serving
  <1>9. PlaneInv'
    <2>1. \A s \in Slug : base[s].tables # None => base[s].tables \in Tenant
      BY <1>1 DEF PlaneInv, BaseRow
    <2> QED BY <1>1, <1>2, <1>7, <1>8, <2>1 DEF PlaneInv
  <1> QED BY <1>1, <1>2, <1>8, <1>9 DEF PlaneGoesOn, TimesInv, Addressed

LEMMA ResumeGoesOn ==
    ASSUME GateInv, NEW t \in Tenant, Resume(t)
    PROVE  PlaneGoesOn
  <1>1. PlaneInv /\ TimesInv
    BY DEF GateInv
  <1>2. /\ UNCHANGED <<base, directory>>
        /\ registry' = [registry EXCEPT ![t].status = "OPEN"]
        /\ lastOpen' = [lastOpen EXCEPT ![t] = clock]
    BY DEF Resume
  <1>3. PICK after : after = [registry[t] EXCEPT !.status = "OPEN"]
    OBVIOUS
  <1>4. registry[t] \in RegistryRow
    BY <1>1 DEF PlaneInv
  <1>5. /\ after \in RegistryRow /\ after.row = registry[t].row /\ after.slug = registry[t].slug
        /\ after.store = registry[t].store
    BY <1>3, <1>4 DEF RegistryRow, TenantStatus
  <1>6. registry' = [registry EXCEPT ![t] = after]
    BY <1>2, <1>3
  <1>7. registry' \in [Tenant -> RegistryRow] /\ registry'[t] = after
        /\ \A u \in Tenant \ {t} : registry'[u] = registry[u]
    BY <1>1, <1>5, <1>6 DEF PlaneInv
  <1>8. \A u \in Tenant : /\ registry'[u].row = registry[u].row
                          /\ registry'[u].slug = registry[u].slug
                          /\ registry'[u].store = registry[u].store
    BY <1>5, <1>7
  <1>9. \A u \in Tenant \ {t} : Serving(u)' => Serving(u)
    BY <1>7 DEF Serving
  <1>10. PlaneInv'
    <2>1. \A s \in Slug : base[s].tables # None => base[s].tables \in Tenant
      BY <1>1 DEF PlaneInv, BaseRow
    <2> QED BY <1>1, <1>2, <1>7, <1>8, <2>1 DEF PlaneInv
  <1>11. /\ lastOpen' \in [Tenant -> Nat] /\ lastOpen'[t] = clock
         /\ \A u \in Tenant \ {t} : lastOpen'[u] = lastOpen[u]
    BY <1>1, <1>2 DEF TimesInv
  <1> QED BY <1>1, <1>8, <1>9, <1>10, <1>11 DEF PlaneGoesOn, TimesInv, Addressed

LEMMA HardDeleteGoesOn ==
    ASSUME GateInv, NEW t \in Tenant, HardDelete(t)
    PROVE  PlaneGoesOn
  <1>1. PlaneInv /\ TimesInv
    BY DEF GateInv
  <1>2. /\ registry[t].row /\ UNCHANGED <<directory, lastOpen>>
        /\ registry' = [registry EXCEPT ![t].row = FALSE, ![t].store = FALSE]
    BY DEF HardDelete
  <1>3. PICK s \in Slug : s = registry[t].slug
    BY <1>1, <1>2 DEF PlaneInv
  <1>4. registry[t] \in RegistryRow
    BY <1>1 DEF PlaneInv
  <1>5. PICK after : after = [registry[t] EXCEPT !.row = FALSE, !.store = FALSE]
    OBVIOUS
  <1>6. after \in RegistryRow /\ after.row = FALSE /\ after.slug = s
    BY <1>3, <1>4, <1>5 DEF RegistryRow
  <1>7. registry' = [registry EXCEPT ![t] = after]
    BY <1>2, <1>5
  <1>8. registry' \in [Tenant -> RegistryRow] /\ registry'[t] = after
        /\ \A u \in Tenant \ {t} : registry'[u] = registry[u]
    BY <1>1, <1>6, <1>7 DEF PlaneInv
  <1>9. PICK d : d = [base[s] EXCEPT !.tables = None]
    OBVIOUS
  <1>10. base[s] \in BaseRow
    BY <1>1 DEF PlaneInv
  <1>11. d \in BaseRow /\ d.tables = None /\ d.password = base[s].password
    BY <1>9, <1>10 DEF BaseRow
  <1>12. base' = IF registry[t].store THEN [base EXCEPT ![s] = d] ELSE base
    BY <1>3, <1>9 DEF HardDelete
  <1>13. base' \in [Slug -> BaseRow] /\ \A x \in Slug : base'[x].password = base[x].password
    BY <1>1, <1>11, <1>12 DEF PlaneInv
  <1>14. \A x \in Slug : base'[x].tables # None =>
            base'[x].tables = base[x].tables /\ base[x].tables \in Tenant \ {t}
    <2> SUFFICES ASSUME NEW x \in Slug, base'[x].tables # None
                 PROVE  base'[x].tables = base[x].tables /\ base[x].tables \in Tenant \ {t}
      OBVIOUS
    <2>1. base'[x].tables = base[x].tables /\ (x = s => ~registry[t].store)
      BY <1>1, <1>11, <1>12 DEF PlaneInv
    <2>2. base[x].tables \in Tenant
      BY <1>1, <2>1 DEF PlaneInv, BaseRow
    <2>3. base[x].tables # t
      BY <1>1, <1>3, <2>1 DEF PlaneInv
    <2> QED BY <2>1, <2>2, <2>3
  <1>15. PlaneInv'
    <2>1. \A u \in Tenant : registry'[u].row => u # t /\ registry'[u] = registry[u]
      BY <1>6, <1>8
    <2>2. \A x \in Slug : base'[x].tables # None => registry'[base'[x].tables] = registry[base[x].tables]
      BY <1>8, <1>14
    <2>3. \A u \in Tenant : registry'[u].row =>
             registry'[u].slug \in Slug /\ base'[registry'[u].slug].password = u
      BY <1>1, <1>13, <2>1 DEF PlaneInv
    <2>4. \A x \in Slug : base'[x].tables # None =>
             /\ registry'[base'[x].tables].row /\ registry'[base'[x].tables].store
             /\ registry'[base'[x].tables].slug = x
      BY <1>1, <1>14, <2>2 DEF PlaneInv
    <2> QED BY <1>1, <1>2, <1>8, <1>13, <2>3, <2>4 DEF PlaneInv
  <1>16. \A u \in Tenant : (Serving(u)' => Serving(u)) /\ registry'[u].slug = registry[u].slug
    BY <1>3, <1>6, <1>8 DEF Serving
  <1>17. \A u \in Tenant : Addressed(u) => Addressed(u)'
    BY <1>16 DEF Addressed
  <1>18. /\ lastOpen' \in [Tenant -> Nat]
         /\ \A u \in Tenant : /\ lastOpen[u] <= lastOpen'[u] /\ lastOpen'[u] <= clock
                              /\ Serving(u)' => lastOpen'[u] = clock
    BY <1>1, <1>2, <1>16 DEF TimesInv
  <1> QED BY <1>15, <1>17, <1>18 DEF PlaneGoesOn

LEMMA ProvisionGoesOn ==
    ASSUME GateInv, NEW t \in Tenant, NEW s \in Slug, Provision(t, s)
    PROVE  PlaneGoesOn
  <1>1. PlaneInv /\ TimesInv /\ None \notin Slug
    BY GateAssumption DEF GateInv
  <1> DEFINE after == [row |-> TRUE, slug |-> s, status |-> "OPEN", store |-> FALSE]
  <1>2. /\ registry[t].slug = None /\ \A u \in Tenant : registry[u].slug = s => ~registry[u].row
        /\ registry' = [registry EXCEPT ![t] = after]
        /\ base' = [base EXCEPT ![s].password = t]
        /\ lastOpen' = [lastOpen EXCEPT ![t] = clock] /\ UNCHANGED directory
    BY DEF Provision
  <1>3. after \in RegistryRow /\ after.row /\ after.slug = s
    BY DEF RegistryRow, TenantStatus
  <1> HIDE DEF after
  <1>4. registry' \in [Tenant -> RegistryRow] /\ registry'[t] = after
        /\ \A u \in Tenant \ {t} : registry'[u] = registry[u]
    BY <1>1, <1>2, <1>3 DEF PlaneInv
  <1>5. PICK d : d = [base[s] EXCEPT !.password = t]
    OBVIOUS
  <1>6. base[s] \in BaseRow
    BY <1>1 DEF PlaneInv
  <1>7. d \in BaseRow /\ d.tables = base[s].tables /\ d.password = t
    BY <1>5, <1>6 DEF BaseRow
  <1>8. base' = [base EXCEPT ![s] = d]
    BY <1>2, <1>5
  <1>9. /\ base' \in [Slug -> BaseRow] /\ base'[s].password = t
        /\ \A x \in Slug : base'[x].tables = base[x].tables
        /\ \A x \in Slug \ {s} : base'[x].password = base[x].password
    BY <1>1, <1>7, <1>8 DEF PlaneInv
  <1>10. \A x \in Slug : base[x].tables # None => base[x].tables \in Tenant \ {t}
    BY <1>1, <1>2 DEF PlaneInv, BaseRow
  <1>11. PlaneInv'
    <2>1. \A u \in Tenant : registry'[u].row =>
             registry'[u].slug \in Slug /\ base'[registry'[u].slug].password = u
      BY <1>1, <1>2, <1>3, <1>4, <1>9 DEF PlaneInv
    <2>2. \A x \in Slug : base'[x].tables # None =>
             /\ registry'[base'[x].tables].row /\ registry'[base'[x].tables].store
             /\ registry'[base'[x].tables].slug = x
      BY <1>1, <1>4, <1>9, <1>10 DEF PlaneInv
    <2> QED BY <1>1, <1>2, <1>4, <1>9, <2>1, <2>2 DEF PlaneInv
  <1>12. /\ lastOpen' \in [Tenant -> Nat] /\ lastOpen'[t] = clock
         /\ \A u \in Tenant \ {t} : lastOpen'[u] = lastOpen[u]
    BY <1>1, <1>2 DEF TimesInv
  <1>13. \A u \in Tenant \ {t} : Serving(u)' => Serving(u)
    BY <1>4 DEF Serving
  <1>14. \A u \in Tenant : Addressed(u) => Addressed(u)'
    BY <1>3, <1>4 DEF Addressed
  <1> QED BY <1>1, <1>11, <1>12, <1>13, <1>14 DEF PlaneGoesOn, TimesInv

LEMMA ProvisionedGoesOn ==
    ASSUME GateInv, NEW t \in Tenant, NEW member \in BOOLEAN, Provisioned(t, member)
    PROVE  PlaneGoesOn
  <1>1. PlaneInv /\ TimesInv /\ None \notin Tenant
    BY GateAssumption DEF GateInv
  <1>2. /\ registry[t].row /\ ~registry[t].store /\ UNCHANGED lastOpen
        /\ registry' = [registry EXCEPT ![t].store = TRUE]
        /\ base' = [base EXCEPT ![registry[t].slug].tables = t]
        /\ directory' = IF member THEN t ELSE directory
    BY DEF Provisioned
  <1>3. PICK s \in Slug : s = registry[t].slug
    BY <1>1, <1>2 DEF PlaneInv
  <1>4. registry[t] \in RegistryRow
    BY <1>1 DEF PlaneInv
  <1>5. PICK after : after = [registry[t] EXCEPT !.store = TRUE]
    OBVIOUS
  <1>6. /\ after \in RegistryRow /\ after.row /\ after.slug = s /\ after.store
        /\ after.status = registry[t].status
    BY <1>2, <1>3, <1>4, <1>5 DEF RegistryRow
  <1>7. registry' = [registry EXCEPT ![t] = after]
    BY <1>2, <1>5
  <1>8. registry' \in [Tenant -> RegistryRow] /\ registry'[t] = after
        /\ \A u \in Tenant \ {t} : registry'[u] = registry[u]
    BY <1>1, <1>6, <1>7 DEF PlaneInv
  <1>9. PICK d : d = [base[s] EXCEPT !.tables = t]
    OBVIOUS
  <1>10. base[s] \in BaseRow
    BY <1>1 DEF PlaneInv
  <1>11. d \in BaseRow /\ d.tables = t /\ d.password = base[s].password
    BY <1>9, <1>10 DEF BaseRow
  <1>12. base' = [base EXCEPT ![s] = d]
    BY <1>2, <1>3, <1>9
  <1>13. /\ base' \in [Slug -> BaseRow] /\ base'[s].tables = t
         /\ \A x \in Slug : base'[x].password = base[x].password
         /\ \A x \in Slug \ {s} : base'[x].tables = base[x].tables
    BY <1>1, <1>11, <1>12 DEF PlaneInv
  <1>14. \A u \in Tenant : /\ registry'[u].row = registry[u].row
                           /\ registry'[u].slug = registry[u].slug
                           /\ registry[u].store => registry'[u].store
                           /\ Serving(u)' => Serving(u)
    BY <1>2, <1>3, <1>6, <1>8 DEF Serving
  <1>15. PlaneInv'
    <2>1. \A u \in Tenant : registry'[u].row =>
             registry'[u].slug \in Slug /\ base'[registry'[u].slug].password = u
      BY <1>1, <1>13, <1>14 DEF PlaneInv
    <2>2. \A x \in Slug \ {s} : base'[x].tables # None =>
             /\ registry'[base'[x].tables].row /\ registry'[base'[x].tables].store
             /\ registry'[base'[x].tables].slug = x
      <3>1. \A x \in Slug : base[x].tables # None => base[x].tables \in Tenant
        BY <1>1 DEF PlaneInv, BaseRow
      <3> QED BY <1>1, <1>13, <1>14, <3>1 DEF PlaneInv
    <2>3. registry'[base'[s].tables].row /\ registry'[base'[s].tables].store
          /\ registry'[base'[s].tables].slug = s
      BY <1>6, <1>8, <1>13
    <2> QED BY <1>1, <1>2, <1>8, <1>13, <2>1, <2>2, <2>3 DEF PlaneInv
  <1> QED BY <1>1, <1>2, <1>14, <1>15 DEF PlaneGoesOn, TimesInv, Addressed

LEMMA ChangeKeeps ==
    ASSUME GateInv, Change
    PROVE  GateInv'
  <1>1. UNCHANGED <<kept, rq, clock, asked>>
    BY DEF Change, Turn
  <1>2. PlaneGoesOn
    BY CloseGoesOn, ResumeGoesOn, HardDeleteGoesOn, ProvisionGoesOn, ProvisionedGoesOn DEF Change
  <1>3. TimesInv' /\ PoolTells' /\ clock \in Nat
    BY <1>1, <1>2 DEF PlaneGoesOn, TimesInv, PoolTells, GateInv, kept
  <1>4. Onward
    BY <1>1, <1>2, <1>3 DEF PlaneGoesOn, Onward, kept
  <1>5. DOMAIN cache' = GateKey /\ \A k \in GateKey : CacheTells(k)'
    BY <1>1, <1>3, <1>4, CacheStays DEF kept
  <1>6. DOMAIN rq' = Caller /\ \A d \in Caller : RequestTells(d)'
    BY <1>1, <1>3, <1>4, AllRequests
  <1> QED BY <1>2, <1>3, <1>5, <1>6 DEF GateInv, PlaneGoesOn

LEMMA TickKeeps ==
    ASSUME GateInv, Tick
    PROVE  GateInv'
  <1>1. /\ clock' = clock + 1 /\ UNCHANGED <<registry, base, directory, pool, dawdled, rq>>
        /\ lastOpen' = [t \in Tenant |-> IF Serving(t) THEN clock + 1 ELSE lastOpen[t]]
        /\ cache' = [k \in DOMAIN cache |-> IF clock + 1 > cache[k].until THEN Expired ELSE cache[k]]
    BY DEF Tick
  <1>2. PlaneInv' /\ PoolTells'
    BY <1>1 DEF GateInv, PlaneInv, PoolTells
  <1>3. /\ clock \in Nat /\ \A t \in Tenant : lastOpen[t] \in Nat /\ lastOpen[t] <= clock
    BY DEF GateInv, TimesInv
  <1>4. TimesInv'
    BY <1>1, <1>3 DEF TimesInv, Serving
  <1>5. Onward
    BY <1>1, <1>3 DEF Onward, Addressed
  <1>6. DOMAIN cache' = GateKey /\ \A k \in GateKey : CacheTells(k)'
    <2> SUFFICES ASSUME NEW k \in GateKey PROVE CacheTells(k)'
      BY <1>1 DEF GateInv
    <2>1. CacheTells(k) /\ cache'[k] = IF clock + 1 > cache[k].until THEN Expired ELSE cache[k]
      BY <1>1 DEF GateInv
    <2>2. CASE cache'[k] = Expired
      <3>1. Expired.rec = NoRecord /\ Expired.until = 0 /\ NoRecord.status # "OPEN"
        BY DEF Expired, NoRecord, None
      <3>2. RecordTells(cache[k].rec)' /\ cache'[k].until \in Nat /\ cache'[k].rec.status # "OPEN"
        BY <2>2, <3>1 DEF RecordTells
      <3> QED BY <3>2 DEF CacheTells
    <2>3. CASE cache'[k] = cache[k] /\ ~(clock + 1 > cache[k].until)
      <3>1. PICK rec : rec = cache[k].rec
        OBVIOUS
      <3>2. RecordTells(rec)
        BY <2>1, <3>1 DEF CacheTells, RecordTells
      <3>3. RecordTells(rec)'
        BY <1>5, <3>2, RecordStays
      <3>4. RecordTells(cache[k].rec)'
        BY <2>3, <3>1, <3>3 DEF RecordTells, Addressed
      <3>5. ASSUME ~dawdled, rec.status = "OPEN"
            PROVE  clock' <= cache[k].until /\ cache[k].until <= lastOpen'[rec.id] + Ttl
        <4>1. rec.id \in Tenant
          BY <3>2, <3>5 DEF RecordTells, NoRecord, None
        <4>2. lastOpen[rec.id] \in Nat /\ lastOpen'[rec.id] \in Nat /\ lastOpen[rec.id] <= lastOpen'[rec.id]
          BY <1>1, <1>3, <4>1
        <4>3. /\ cache[k].until \in Nat /\ clock <= cache[k].until
              /\ cache[k].until <= lastOpen[rec.id] + Ttl /\ Ttl \in Nat
          BY <2>1, <3>1, <3>5, GateAssumption DEF CacheTells
        <4> QED BY <1>1, <1>3, <2>3, <4>2, <4>3
      <3> QED BY <1>1, <2>1, <2>3, <3>1, <3>4, <3>5 DEF CacheTells
    <2> QED BY <2>1, <2>2, <2>3
  <1>7. DOMAIN rq' = Caller /\ \A d \in Caller : RequestTells(d)'
    BY <1>1, <1>4, <1>5, AllRequests
  <1> QED BY <1>2, <1>4, <1>6, <1>7 DEF GateInv

-----------------------------------------------------------------------------
(* Requests *)

LEMMA Joined ==
    ASSUME NEW a \in Seq(Tenant), NEW b \in Seq(Tenant)
    PROVE  /\ a \o b \in Seq(Tenant) /\ Len(a \o b) = Len(a) + Len(b)
           /\ \A i \in 1 .. Len(a) : (a \o b)[i] = a[i]
           /\ \A i \in Len(a) + 1 .. Len(a) + Len(b) : (a \o b)[i] = b[i - Len(a)]
  <1>1. a \o b \in Seq(Tenant)
    OBVIOUS
  <1>2. Len(a \o b) = Len(a) + Len(b)
    OBVIOUS
  <1>3. \A i \in 1 .. Len(a) : (a \o b)[i] = a[i]
    OBVIOUS
  <1>4. \A i \in Len(a) + 1 .. Len(a) + Len(b) : (a \o b)[i] = b[i - Len(a)]
    OBVIOUS
  <1> QED BY <1>1, <1>2, <1>3, <1>4

LEMMA RemoveOne ==
    ASSUME NEW p \in Seq(Tenant), NEW n \in 1 .. Len(p),
           \A i, j \in 1 .. Len(p) : p[i] = p[j] => i = j
    PROVE  /\ RemoveAt(p, n) \in Seq(Tenant) /\ Len(RemoveAt(p, n)) = Len(p) - 1
           /\ \A i \in 1 .. Len(p) - 1 : RemoveAt(p, n)[i] = IF i < n THEN p[i] ELSE p[i + 1]
  <1>1. Len(p) \in Nat /\ n \in Nat /\ n >= 1 /\ n <= Len(p)
    OBVIOUS
  <1>2. PICK a : a = SubSeq(p, 1, n - 1)
    OBVIOUS
  <1>3. a \in Seq(Tenant) /\ Len(a) = n - 1 /\ \A i \in 1 .. n - 1 : a[i] = p[i]
    BY <1>1, <1>2
  <1>4. PICK b : b = SubSeq(p, n + 1, Len(p))
    OBVIOUS
  <1>5. b \in Seq(Tenant) /\ Len(b) = Len(p) - n /\ \A i \in 1 .. Len(p) - n : b[i] = p[n + i]
    BY <1>1, <1>4
  <1>6. RemoveAt(p, n) = a \o b
    BY <1>2, <1>4 DEF RemoveAt
  <1>7. PICK c : c = a \o b
    OBVIOUS
  <1>8. /\ c \in Seq(Tenant) /\ Len(c) = Len(p) - 1
        /\ \A i \in 1 .. n - 1 : c[i] = a[i]
        /\ \A i \in n .. Len(p) - 1 : c[i] = b[i - (n - 1)]
    <2>1. Len(a) + Len(b) = Len(p) - 1
      BY <1>1, <1>3, <1>5
    <2>2. c \in Seq(Tenant) /\ Len(c) = Len(a) + Len(b)
      BY <1>3, <1>5, <1>7, Joined
    <2>3. \A i \in 1 .. Len(a) : c[i] = a[i]
      BY <1>3, <1>5, <1>7, Joined
    <2>4. \A i \in Len(a) + 1 .. Len(a) + Len(b) : c[i] = b[i - Len(a)]
      BY <1>3, <1>5, <1>7, Joined
    <2> QED BY <1>1, <1>3, <2>1, <2>2, <2>3, <2>4
  <1>9. \A i \in 1 .. Len(p) - 1 : c[i] = IF i < n THEN p[i] ELSE p[i + 1]
    <2> SUFFICES ASSUME NEW i \in 1 .. Len(p) - 1 PROVE c[i] = IF i < n THEN p[i] ELSE p[i + 1]
      OBVIOUS
    <2>1. CASE i < n
      BY <1>1, <1>3, <1>8, <2>1
    <2>2. CASE ~(i < n)
      <3>1. i - (n - 1) \in 1 .. Len(p) - n /\ n + (i - (n - 1)) = i + 1
        BY <1>1, <2>2
      <3>2. b[i - (n - 1)] = p[n + (i - (n - 1))]
        BY <1>5, <3>1
      <3> QED BY <1>1, <1>8, <2>2, <3>1, <3>2
    <2> QED BY <2>1, <2>2
  <1> QED BY <1>6, <1>7, <1>8, <1>9

\* A client is added at the end, where there is none of its tenant.
LEMMA AddOne ==
    ASSUME NEW p \in Seq(Tenant), NEW t \in Tenant, Len(p) < MaxPool,
           \A i, j \in 1 .. Len(p) : p[i] = p[j] => i = j, \A i \in 1 .. Len(p) : p[i] # t
    PROVE  /\ Append(p, t) \in Seq(Tenant) /\ Len(Append(p, t)) <= MaxPool
           /\ \A i, j \in 1 .. Len(Append(p, t)) : Append(p, t)[i] = Append(p, t)[j] => i = j
  <1>1. PICK q : q = Append(p, t)
    OBVIOUS
  <1>2. /\ Len(p) \in Nat /\ q \in Seq(Tenant) /\ Len(q) = Len(p) + 1 /\ q[Len(p) + 1] = t
        /\ \A i \in 1 .. Len(p) : q[i] = p[i]
    BY <1>1
  <1>3. MaxPool \in Nat
    BY GateAssumption
  <1>4. \A i, j \in 1 .. Len(q) : q[i] = q[j] => i = j
    <2> SUFFICES ASSUME NEW i \in 1 .. Len(q), NEW j \in 1 .. Len(q), q[i] = q[j] PROVE i = j
      OBVIOUS
    <2>1. i = Len(p) + 1 \/ i \in 1 .. Len(p)
      BY <1>2
    <2>2. j = Len(p) + 1 \/ j \in 1 .. Len(p)
      BY <1>2
    <2> QED BY <1>2, <2>1, <2>2
  <1> QED BY <1>1, <1>2, <1>3, <1>4

LEMMA PooledKeeps ==
    ASSUME PoolTells, NEW t \in Tenant, pool' \in Pooled(t)
    PROVE  PoolTells'
  <1>1. PICK p : p = pool
    OBVIOUS
  <1>2. /\ p \in Seq(Tenant) /\ Len(p) <= MaxPool /\ Len(p) \in Nat
        /\ \A i, j \in 1 .. Len(p) : p[i] = p[j] => i = j
    BY <1>1 DEF PoolTells
  <1>3. MaxPool \in Nat /\ MaxPool > 0
    BY GateAssumption
  <1>4. \E s \in Seq(Tenant) :
           /\ pool' = Append(s, t) /\ Len(s) < MaxPool
           /\ \A i, j \in 1 .. Len(s) : s[i] = s[j] => i = j
           /\ \A i \in 1 .. Len(s) : s[i] # t
    <2>1. CASE Contains(p, t)
      <3>1. PICK n \in DOMAIN p : p[n] = t /\ pool' = Append(RemoveAt(p, n), t)
        BY <1>1, <2>1 DEF Pooled
      <3>2. n \in 1 .. Len(p)
        BY <1>2, <3>1
      <3>3. PICK s : s = RemoveAt(p, n)
        OBVIOUS
      <3>4. /\ s \in Seq(Tenant) /\ Len(s) = Len(p) - 1
            /\ \A i \in 1 .. Len(p) - 1 : s[i] = IF i < n THEN p[i] ELSE p[i + 1]
        BY <1>2, <3>2, <3>3, RemoveOne
      <3>5. \A i, j \in 1 .. Len(s) : s[i] = s[j] => i = j
        <4> SUFFICES ASSUME NEW i \in 1 .. Len(s), NEW j \in 1 .. Len(s), s[i] = s[j] PROVE i = j
          OBVIOUS
        <4>1. PICK k \in 1 .. Len(p) : s[i] = p[k] /\ k = IF i < n THEN i ELSE i + 1
          <5>1. i \in 1 .. Len(p) - 1 /\ i \in 1 .. Len(p) /\ i + 1 \in 1 .. Len(p)
            BY <1>2, <3>4
          <5>2. s[i] = IF i < n THEN p[i] ELSE p[i + 1]
            BY <3>4, <5>1
          <5> QED BY <5>1, <5>2
        <4>2. PICK m \in 1 .. Len(p) : s[j] = p[m] /\ m = IF j < n THEN j ELSE j + 1
          <5>1. j \in 1 .. Len(p) - 1 /\ j \in 1 .. Len(p) /\ j + 1 \in 1 .. Len(p)
            BY <1>2, <3>4
          <5>2. s[j] = IF j < n THEN p[j] ELSE p[j + 1]
            BY <3>4, <5>1
          <5> QED BY <5>1, <5>2
        <4>3. k = m
          BY <1>2, <4>1, <4>2
        <4> QED BY <3>2, <4>1, <4>2, <4>3
      <3>6. \A i \in 1 .. Len(s) : s[i] # t
        <4> SUFFICES ASSUME NEW i \in 1 .. Len(s), s[i] = t PROVE FALSE
          OBVIOUS
        <4>1. PICK k \in 1 .. Len(p) : s[i] = p[k] /\ k = IF i < n THEN i ELSE i + 1
          <5>1. i \in 1 .. Len(p) - 1 /\ i \in 1 .. Len(p) /\ i + 1 \in 1 .. Len(p)
            BY <1>2, <3>4
          <5>2. s[i] = IF i < n THEN p[i] ELSE p[i + 1]
            BY <3>4, <5>1
          <5> QED BY <5>1, <5>2
        <4>2. k = n
          BY <1>2, <3>1, <3>2, <4>1
        <4> QED BY <3>2, <4>1, <4>2
      <3> QED BY <1>2, <1>3, <3>1, <3>2, <3>3, <3>4, <3>5, <3>6
    <2>2. CASE ~Contains(p, t)
      <3>1. PICK n \in 1 .. Len(p) + 1 :
                LET rest == SubSeq(p, n, Len(p))
                IN  pool' = Append(IF Len(rest) >= MaxPool THEN Tail(rest) ELSE rest, t)
        BY <1>1, <2>2 DEF Pooled
      <3>2. PICK rest : rest = SubSeq(p, n, Len(p))
        OBVIOUS
      <3>3. /\ rest \in Seq(Tenant) /\ Len(rest) = Len(p) - n + 1
            /\ \A i \in 1 .. Len(rest) : rest[i] = p[n - 1 + i]
        BY <1>2, <3>2
      <3>4. \A i \in 1 .. Len(p) : p[i] # t
        BY <1>2, <2>2 DEF Contains
      <3>5. \A i \in 1 .. Len(rest) : n - 1 + i \in 1 .. Len(p)
        BY <1>2, <3>3
      <3>6. /\ \A i, j \in 1 .. Len(rest) : rest[i] = rest[j] => i = j
            /\ \A i \in 1 .. Len(rest) : rest[i] # t
        <4>1. ASSUME NEW i \in 1 .. Len(rest), NEW j \in 1 .. Len(rest), rest[i] = rest[j]
              PROVE  i = j
          <5>1. n - 1 + i = n - 1 + j
            BY <1>2, <3>3, <3>5, <4>1
          <5> QED BY <5>1
        <4>2. \A i \in 1 .. Len(rest) : rest[i] # t
          BY <3>3, <3>4, <3>5
        <4> QED BY <4>1, <4>2
      <3>7. CASE Len(rest) >= MaxPool
        <4>1. rest # <<>>
          BY <1>3, <3>7
        <4>2. PICK s : s = Tail(rest)
          OBVIOUS
        <4>3. /\ s \in Seq(Tenant) /\ Len(s) = Len(rest) - 1
              /\ \A i \in 1 .. Len(s) : s[i] = rest[i + 1] /\ i + 1 \in 1 .. Len(rest)
          BY <3>3, <4>1, <4>2
        <4>4. /\ \A i, j \in 1 .. Len(s) : s[i] = s[j] => i = j
              /\ \A i \in 1 .. Len(s) : s[i] # t
          <5>1. ASSUME NEW i \in 1 .. Len(s), NEW j \in 1 .. Len(s), s[i] = s[j]
                PROVE  i = j
            <6>1. i + 1 = j + 1
              BY <3>6, <4>3, <5>1
            <6> QED BY <6>1
          <5>2. \A i \in 1 .. Len(s) : s[i] # t
            BY <3>6, <4>3
          <5> QED BY <5>1, <5>2
        <4>5. Len(s) < MaxPool
          BY <1>2, <1>3, <3>3, <4>3
        <4> QED BY <3>1, <3>2, <3>7, <4>2, <4>3, <4>4, <4>5
      <3>8. CASE ~(Len(rest) >= MaxPool)
        <4>1. Len(rest) < MaxPool
          BY <1>2, <1>3, <3>3, <3>8
        <4> QED BY <3>1, <3>2, <3>3, <3>6, <3>8, <4>1
      <3> QED BY <3>7, <3>8
    <2> QED BY <2>1, <2>2
  <1>5. PICK s \in Seq(Tenant) :
           /\ pool' = Append(s, t) /\ Len(s) < MaxPool
           /\ \A i, j \in 1 .. Len(s) : s[i] = s[j] => i = j
           /\ \A i \in 1 .. Len(s) : s[i] # t
    BY <1>4
  <1> QED BY <1>5, AddOne DEF PoolTells

\* What the control plane says of a key.
LEMMA ReadTells ==
    ASSUME GateInv, NEW key \in GateKey
    PROVE  /\ RecordTells(Read(key))
           /\ Read(key).status = "OPEN" => clock <= lastOpen[Read(key).id]
  <1>1. PlaneInv /\ TimesInv
    BY DEF GateInv
  <1> DEFINE found == IF key[1] = "slug" THEN Owner(key[2]) ELSE {t \in {key[2]} : registry[t].row}
  <1>2. \A t \in found : t \in Tenant /\ registry[t].row
    <2>1. \/ \E s \in Slug : key = <<"slug", s>>
          \/ \E t \in Tenant : key = <<"id", t>>
      BY DEF GateKey
    <2> QED BY <2>1 DEF Owner
  <1>3. CASE found = {}
    <2>1. Read(key) = NoRecord
      BY <1>3 DEF Read
    <2> QED BY <2>1 DEF RecordTells, NoRecord, None
  <1>4. CASE found # {}
    <2>1. PICK t : t = CHOOSE u \in found : TRUE
      OBVIOUS
    <2>2. t \in found
      BY <1>4, <2>1
    <2>3. Read(key) = [id |-> t, status |-> registry[t].status, store |-> registry[t].store]
      BY <1>4, <2>1 DEF Read
    <2> HIDE DEF found
    <2>4. t \in Tenant /\ registry[t].row /\ registry[t] \in RegistryRow /\ registry[t].slug \in Slug
      BY <1>1, <1>2, <2>2 DEF PlaneInv
    <2>5. PICK rec : rec = Read(key)
      OBVIOUS
    <2>6. /\ rec.id = t /\ rec.status = registry[t].status
          /\ rec \in [id : Tenant, status : TenantStatus, store : BOOLEAN]
      BY <2>3, <2>4, <2>5 DEF RegistryRow
    <2>7. RecordTells(rec)
      BY <2>4, <2>6 DEF RecordTells, Addressed
    <2>8. rec.status = "OPEN" => lastOpen[t] = clock
      BY <1>1, <2>4, <2>6 DEF TimesInv, Serving
    <2>9. clock \in Nat
      BY <1>1 DEF TimesInv
    <2> QED BY <2>5, <2>6, <2>7, <2>8, <2>9
  <1> QED BY <1>3, <1>4

\* The process goes on with a record it has read or kept.
LEMMA ResolvedKeeps ==
    ASSUME GateInv, NEW r \in Caller, NEW stage \in {"slug", "bind", "query"}, NEW rec, NEW left,
           Resolved(r, stage, rec, left), UNCHANGED <<platform, directory, clock>>,
           dawdled => dawdled', RecordTells(rec),
           ~dawdled' /\ rec.status = "OPEN" => clock <= lastOpen[rec.id] + Ttl
    PROVE  /\ DOMAIN rq' = Caller /\ \A d \in Caller : RequestTells(d)'
           /\ PoolTells' /\ TimesInv' /\ PlaneInv' /\ Onward
  <1>1. PlaneInv' /\ TimesInv'
    BY DEF GateInv, PlaneInv, TimesInv, Serving, platform
  <1>2. Onward
    BY DEF GateInv, TimesInv, Onward, Addressed, platform
  <1>3. PICK code, key, using :
            /\ code = BlockedCode(rec) /\ key = <<"id", rec.id>>
            /\ using = [at |-> "using", tenant |-> rec.id, asOf |-> clock, left |-> left]
    OBVIOUS
  <1>4. rec # NoRecord => rec.id \in Tenant /\ Addressed(rec.id) /\ key \in GateKey
    BY <1>3 DEF RecordTells, GateKey
  <1>5. \/ \E c : rq' = [rq EXCEPT ![r] = [at |-> "none"]] /\ pool' = pool
        \/ /\ rec # NoRecord /\ pool' = pool
           /\ \/ rq' = [rq EXCEPT ![r] = [at |-> "bind", key |-> key]]
              \/ rq' = [rq EXCEPT ![r] = [at |-> "query", key |-> key, left |-> Queries]]
        \/ /\ rec # NoRecord /\ ~Blocked(rec) /\ pool' \in Pooled(rec.id)
           /\ rq' = [rq EXCEPT ![r] = using]
    BY <1>3 DEF Resolved, Step, Reply
  <1>6. CASE rq' = [rq EXCEPT ![r] = [at |-> "none"]] /\ pool' = pool
    <2>1. rq'[r].at = "none"
      BY <1>6 DEF GateInv
    <2>2. RequestTells(r)'
      BY <2>1 DEF RequestTells
    <2> QED BY <1>1, <1>2, <1>6, <2>2, OtherRequests DEF PoolTells, GateInv
  <1>7. CASE rec # NoRecord /\ pool' = pool /\ rq' = [rq EXCEPT ![r] = [at |-> "bind", key |-> key]]
    <2>1. rq'[r].at = "bind" /\ rq'[r].key \in GateKey
      BY <1>4, <1>7 DEF GateInv
    <2>2. RequestTells(r)'
      BY <2>1 DEF RequestTells
    <2> QED BY <1>1, <1>2, <1>7, <2>2, OtherRequests DEF PoolTells, GateInv
  <1>8. CASE /\ rec # NoRecord /\ pool' = pool
             /\ rq' = [rq EXCEPT ![r] = [at |-> "query", key |-> key, left |-> Queries]]
    <2>1. rq'[r].at = "query" /\ rq'[r].key \in GateKey
      BY <1>4, <1>8 DEF GateInv
    <2>2. RequestTells(r)'
      BY <2>1 DEF RequestTells
    <2> QED BY <1>1, <1>2, <1>8, <2>2, OtherRequests DEF PoolTells, GateInv
  <1>9. CASE /\ rec # NoRecord /\ ~Blocked(rec) /\ pool' \in Pooled(rec.id)
             /\ rq' = [rq EXCEPT ![r] = using]
    <2>1. /\ using.at = "using" /\ using.tenant = rec.id /\ using.asOf = clock
          /\ rq'[r] = using
      BY <1>3, <1>9 DEF GateInv
    <2>2. rec.status = "OPEN" /\ Addressed(rec.id)' /\ rec.id \in Tenant
      BY <1>2, <1>4, <1>9 DEF Blocked, Onward
    <2>3. clock \in Nat /\ lastOpen' = lastOpen
      BY DEF GateInv, TimesInv, platform
    <2>4. Addressed(rq[r].tenant)'
      BY <2>1, <2>2 DEF Addressed
    <2>5. rq'[r].asOf \in Nat /\ (~dawdled' => rq'[r].asOf <= lastOpen'[rq'[r].tenant] + Ttl)
      BY <2>1, <2>2, <2>3
    <2>6. RequestTells(r)'
      BY <2>1, <2>4, <2>5 DEF RequestTells
    <2>7. PoolTells'
      BY <1>9, <2>2, PooledKeeps DEF GateInv
    <2> QED BY <1>1, <1>2, <1>9, <2>6, <2>7, OtherRequests
  <1> QED BY <1>5, <1>6, <1>7, <1>8, <1>9

\* A step of a request that touches nothing but the request.
LEMMA OnlyRequest ==
    ASSUME GateInv, NEW r \in Caller, UNCHANGED <<platform, kept, directory, clock>>
    PROVE  /\ PlaneInv' /\ TimesInv' /\ PoolTells' /\ Onward
           /\ DOMAIN cache' = GateKey /\ \A k \in GateKey : CacheTells(k)'
  <1>1. PlaneInv' /\ TimesInv' /\ PoolTells'
    BY DEF GateInv, PlaneInv, TimesInv, PoolTells, Serving, platform, kept
  <1>2. Onward
    BY DEF GateInv, TimesInv, Onward, Addressed, platform, kept
  <1> QED BY <1>1, <1>2, CacheStays DEF kept

LEMMA ReplyKeeps ==
    ASSUME GateInv, NEW r \in Caller, UNCHANGED <<platform, kept, directory, clock>>,
           NEW code, Reply(r, code)
    PROVE  GateInv'
  <1>1. rq' = [rq EXCEPT ![r] = [at |-> "none"]] /\ rq'[r].at = "none"
    BY DEF Reply, Step, GateInv
  <1>2. RequestTells(r)'
    BY <1>1 DEF RequestTells
  <1> QED BY <1>1, <1>2, OnlyRequest, OtherRequests DEF GateInv

LEMMA StepKeeps ==
    ASSUME GateInv, NEW r \in Caller, UNCHANGED <<platform, kept, directory, clock>>,
           NEW next, Step(r, next), RequestTells(r)'
    PROVE  GateInv'
  BY OnlyRequest, OtherRequests DEF GateInv, Step

LEMMA CallKeeps ==
    ASSUME GateInv, NEW r \in Caller, NEW host \in Slug \cup {None}, NEW token,
           NEW valid \in BOOLEAN, NEW gated \in BOOLEAN, Call(r, host, token, valid, gated)
    PROVE  GateInv'
  <1>1. UNCHANGED <<platform, kept, directory, clock>>
    BY DEF Call
  <1>2. CASE Reply(r, "401")
    BY <1>1, <1>2, ReplyKeeps
  <1>3. CASE Step(r, Asserted(host, token, gated))
    <2>1. PICK next : next = Asserted(host, token, gated)
      OBVIOUS
    <2>2. next.at = "hop" /\ next.hint = host
      BY <2>1 DEF Asserted
    <2>3. rq'[r] = next
      BY <1>3, <2>1 DEF Step, GateInv
    <2>4. RequestTells(r)'
      BY <2>2, <2>3 DEF RequestTells
    <2> QED BY <1>1, <1>3, <2>4, StepKeeps
  <1> QED BY <1>2, <1>3 DEF Call

LEMMA EnterKeeps ==
    ASSUME GateInv, NEW r \in Caller, Enter(r)
    PROVE  GateInv'
  <1>1. UNCHANGED <<platform, kept, directory, clock>>
    BY DEF Enter
  <1>2. rq[r].hint \in Slug \cup {None}
    BY DEF Enter, GateInv, RequestTells
  <1>3. CASE \E code : Reply(r, code)
    BY <1>1, <1>3, ReplyKeeps
  <1>4. CASE rq[r].claim \in Tenant /\ Step(r, [at |-> "bind", key |-> <<"id", rq[r].claim>>])
    <2>1. rq'[r].at = "bind" /\ rq'[r].key \in GateKey
      BY <1>4 DEF Step, GateInv, GateKey
    <2>2. RequestTells(r)'
      BY <2>1 DEF RequestTells
    <2> QED BY <1>1, <1>4, <2>2, StepKeeps
  <1>5. CASE rq[r].hint # None /\ Step(r, [at |-> "slug", key |-> <<"slug", rq[r].hint>>])
    <2>1. rq'[r].at = "slug" /\ rq'[r].key \in GateKey
      BY <1>2, <1>5 DEF Step, GateInv, GateKey
    <2>2. RequestTells(r)'
      BY <2>1 DEF RequestTells
    <2> QED BY <1>1, <1>5, <2>2, StepKeeps
  <1> QED BY <1>3, <1>4, <1>5 DEF Enter

LEMMA LookUpKeeps ==
    ASSUME GateInv, NEW r \in Caller, LookUp(r)
    PROVE  GateInv'
  <1>1. /\ rq[r].at \in {"slug", "bind", "query"}
        /\ UNCHANGED <<platform, cache, dawdled, directory, clock>>
    BY DEF LookUp
  <1>2. PICK key, stage, left :
            /\ key = rq[r].key /\ stage = rq[r].at
            /\ left = IF rq[r].at = "query" THEN rq[r].left ELSE Queries
    OBVIOUS
  <1>3. key \in GateKey /\ stage \in {"slug", "bind", "query"}
    BY <1>1, <1>2 DEF GateInv, RequestTells
  <1>4. CacheTells(key) /\ clock \in Nat
    BY <1>3 DEF GateInv, TimesInv
  <1>5. CASE Fresh(key) /\ Resolved(r, stage, cache[key].rec, left)
    <2>1. PICK rec : rec = cache[key].rec
      OBVIOUS
    <2>2. RecordTells(rec)
      BY <1>4, <2>1 DEF CacheTells, RecordTells
    <2>3. ~dawdled /\ rec.status = "OPEN" => clock <= lastOpen[rec.id] + Ttl
      <3>1. ~dawdled /\ rec.status = "OPEN" => rec.id \in Tenant
        BY <2>2 DEF RecordTells, NoRecord, None
      <3>2. \A t \in Tenant : lastOpen[t] \in Nat
        BY DEF GateInv, TimesInv
      <3> QED BY <1>4, <2>1, <3>1, <3>2, GateAssumption DEF CacheTells
    <2>4. /\ DOMAIN rq' = Caller /\ \A d \in Caller : RequestTells(d)'
          /\ PoolTells' /\ TimesInv' /\ PlaneInv' /\ Onward
      BY <1>1, <1>3, <1>5, <2>1, <2>2, <2>3, ResolvedKeeps
    <2>5. DOMAIN cache' = GateKey /\ \A k \in GateKey : CacheTells(k)'
      BY <1>1, <2>4, CacheStays
    <2> QED BY <2>4, <2>5 DEF GateInv
  <1>6. CASE /\ UNCHANGED pool
             /\ Step(r, [at |-> "store", stage |-> stage, key |-> key, left |-> left,
                         rec |-> Read(key), read |-> clock])
    <2>1. PICK rec : rec = Read(key)
      OBVIOUS
    <2>2. RecordTells(rec) /\ (rec.status = "OPEN" => clock <= lastOpen[rec.id])
      BY <1>3, <2>1, ReadTells DEF RecordTells
    <2>3. UNCHANGED <<platform, kept, directory, clock>>
      BY <1>1, <1>6 DEF kept
    <2>4. Onward
      BY <2>3, OnlyRequest
    <2>5. RecordTells(rec)'
      BY <2>2, <2>4, RecordStays
    <2>6. PICK next : next = [at |-> "store", stage |-> stage, key |-> key, left |-> left,
                              rec |-> rec, read |-> clock]
      OBVIOUS
    <2>7. /\ next.at = "store" /\ next.key = key /\ next.rec = rec /\ next.read = clock
          /\ next.stage = stage
      BY <2>6
    <2>8. rq'[r] = next
      BY <1>6, <2>1, <2>6 DEF Step, GateInv
    <2>9. RecordTells(rq[r].rec)'
      BY <2>5, <2>7, <2>8 DEF RecordTells, Addressed
    <2>10. lastOpen' = lastOpen /\ clock' = clock
      BY <1>1 DEF platform
    <2>11. RequestTells(r)'
      BY <1>3, <1>4, <2>2, <2>7, <2>8, <2>9, <2>10 DEF RequestTells
    <2> QED BY <1>6, <2>3, <2>11, StepKeeps
  <1> QED BY <1>2, <1>5, <1>6 DEF LookUp

LEMMA KeepKeeps ==
    ASSUME GateInv, NEW r \in Caller, Keep(r)
    PROVE  GateInv'
  <1>1. rq[r].at = "store" /\ UNCHANGED <<platform, directory, clock>>
    BY DEF Keep
  <1>2. PICK rec, key, read : rec = rq[r].rec /\ key = rq[r].key /\ read = rq[r].read
    OBVIOUS
  <1>3. RequestTells(r) /\ clock \in Nat /\ Ttl \in Nat
    BY GateAssumption DEF GateInv, TimesInv
  <1>4. RecordTells(rec)
    BY <1>1, <1>2, <1>3 DEF RequestTells, RecordTells
  <1>5. /\ key \in GateKey /\ read \in Nat /\ read <= clock
        /\ rec.status = "OPEN" => read <= lastOpen[rec.id]
    BY <1>1, <1>2, <1>3 DEF RequestTells
  <1>6. rec.status = "OPEN" => rec.id \in Tenant /\ lastOpen[rec.id] \in Nat /\ rec # NoRecord
    BY <1>4 DEF RecordTells, NoRecord, None, GateInv, TimesInv
  <1>7. /\ rec = NoRecord => UNCHANGED <<cache, dawdled>>
        /\ rec # NoRecord => /\ cache' = [cache EXCEPT ![key] = [rec |-> rec, until |-> clock + Ttl]]
                             /\ dawdled' = (dawdled \/ clock > read)
    BY <1>2 DEF Keep
  <1>8. dawdled => dawdled'
    BY <1>7
  <1>9. ~dawdled' /\ rec.status = "OPEN" => clock <= lastOpen[rec.id]
    <2>1. ~dawdled' /\ rec.status = "OPEN" => ~(clock > read)
      BY <1>6, <1>7, Zenon
    <2>2. ~(clock > read) => clock <= read
      BY <1>3, <1>5
    <2>3. rec.status = "OPEN" /\ clock <= read => clock <= lastOpen[rec.id]
      BY <1>3, <1>5, <1>6
    <2> QED BY <2>1, <2>2, <2>3
  <1>10. PICK left, stage : left = rq[r].left /\ stage = rq[r].stage
    OBVIOUS
  <1>11. Resolved(r, stage, rec, left)
    BY <1>2, <1>10 DEF Keep
  <1>12. stage \in {"slug", "bind", "query"}
    BY <1>1, <1>3, <1>10 DEF RequestTells
  <1>13. ~dawdled' /\ rec.status = "OPEN" => clock <= lastOpen[rec.id] + Ttl
    BY <1>3, <1>6, <1>9
  <1>14. /\ DOMAIN rq' = Caller /\ \A d \in Caller : RequestTells(d)'
         /\ PoolTells' /\ TimesInv' /\ PlaneInv' /\ Onward
    BY <1>1, <1>4, <1>8, <1>11, <1>12, <1>13, ResolvedKeeps
  <1>15. DOMAIN cache' = GateKey /\ \A k \in GateKey : CacheTells(k)'
    <2>1. CASE rec = NoRecord
      BY <1>1, <1>7, <1>14, <2>1, CacheStays
    <2>2. CASE rec # NoRecord
      <3>1. PICK entry : entry = [rec |-> rec, until |-> clock + Ttl]
        OBVIOUS
      <3>2. entry.rec = rec /\ entry.until = clock + Ttl
        BY <3>1
      <3>3. DOMAIN cache = GateKey /\ cache' = [cache EXCEPT ![key] = entry]
        BY <1>7, <2>2, <3>1 DEF GateInv
      <3>4. /\ DOMAIN cache' = GateKey /\ cache'[key] = entry
            /\ \A k \in GateKey \ {key} : cache'[k] = cache[k]
        BY <1>5, <3>3
      <3>5. lastOpen' = lastOpen /\ clock' = clock
        BY <1>1 DEF platform
      <3>6. CacheTells(key)'
        <4>1. RecordTells(rec)'
          BY <1>4, <1>14, RecordStays
        <4>2. RecordTells(cache[key].rec)'
          BY <3>2, <3>4, <4>1 DEF RecordTells, Addressed
        <4>3. cache'[key].until \in Nat /\ clock' <= cache'[key].until
          BY <1>3, <3>2, <3>4, <3>5
        <4>4. ~dawdled' /\ cache'[key].rec.status = "OPEN" =>
                 cache'[key].until <= lastOpen'[cache'[key].rec.id] + Ttl
          BY <1>3, <1>6, <1>9, <3>2, <3>4, <3>5
        <4> QED BY <4>2, <4>3, <4>4 DEF CacheTells
      <3>7. ASSUME NEW k \in GateKey \ {key} PROVE CacheTells(k)'
        <4>1. CacheTells(k) /\ cache'[k] = cache[k]
          BY <3>4 DEF GateInv
        <4>2. PICK old : old = cache[k].rec
          OBVIOUS
        <4>3. RecordTells(old)
          BY <4>1, <4>2 DEF CacheTells, RecordTells
        <4>4. RecordTells(old)'
          BY <1>14, <4>3, RecordStays
        <4>5. RecordTells(cache[k].rec)'
          BY <4>1, <4>2, <4>4 DEF RecordTells, Addressed
        <4> QED BY <1>8, <3>5, <4>1, <4>5 DEF CacheTells
      <3> QED BY <3>4, <3>6, <3>7
    <2> QED BY <2>1, <2>2
  <1> QED BY <1>14, <1>15 DEF GateInv

\* A client of a tenant reaches the tenant's own tables or none.
LEMMA ReachesOwn ==
    ASSUME GateInv, NEW t, Addressed(t), Reaches(t) # None
    PROVE  Reaches(t) = t
  <1>1. PICK s \in Slug : s = registry[t].slug
    BY DEF Addressed
  <1>2. base[s].password = t /\ Reaches(t) = base[s].tables /\ base[s].tables # None
    BY <1>1 DEF Reaches
  <1>3. base[s].tables \in Tenant
    BY <1>2 DEF GateInv, PlaneInv, BaseRow
  <1> QED BY <1>1, <1>2, <1>3 DEF GateInv, PlaneInv

LEMMA QueryKeeps ==
    ASSUME GateInv, NEW r \in Caller, Query(r)
    PROVE  GateInv'
  <1>1. rq[r].at = "using" /\ UNCHANGED <<platform, kept, directory, clock>>
    BY DEF Query
  <1>2. CASE Reply(r, "500")
    BY <1>1, <1>2, ReplyKeeps
  <1>3. CASE /\ Reaches(rq[r].tenant) # None
             /\ Step(r, [at |-> "read", tenant |-> rq[r].tenant, left |-> rq[r].left - 1,
                         from |-> Reaches(rq[r].tenant)])
    <2>1. PICK t : t = rq[r].tenant
      OBVIOUS
    <2>2. Addressed(t)
      BY <1>1, <2>1 DEF GateInv, RequestTells, Addressed
    <2>3. Reaches(t) = t
      BY <1>3, <2>1, <2>2, ReachesOwn
    <2>4. rq'[r].at = "read" /\ rq'[r].tenant = t /\ rq'[r].from = t
      BY <1>3, <2>1, <2>3 DEF Step, GateInv
    <2>5. Addressed(rq[r].tenant)'
      BY <1>1, <2>2, <2>4 DEF Addressed, platform
    <2>6. RequestTells(r)'
      BY <2>4, <2>5 DEF RequestTells
    <2> QED BY <1>1, <1>3, <2>6, StepKeeps
  <1> QED BY <1>2, <1>3 DEF Query

LEMMA ProceedKeeps ==
    ASSUME GateInv, NEW r \in Caller, Proceed(r)
    PROVE  GateInv'
  <1>1. rq[r].at = "read" /\ UNCHANGED <<platform, kept, directory, clock>>
    BY DEF Proceed
  <1>2. CASE Reply(r, "200")
    BY <1>1, <1>2, ReplyKeeps
  <1>3. CASE Step(r, [at |-> "query", key |-> <<"id", rq[r].tenant>>, left |-> rq[r].left])
    <2>1. rq[r].tenant \in Tenant
      BY <1>1 DEF GateInv, RequestTells, Addressed
    <2>2. rq'[r].at = "query" /\ rq'[r].key \in GateKey
      BY <1>3, <2>1 DEF Step, GateInv, GateKey
    <2>3. RequestTells(r)'
      BY <2>2 DEF RequestTells
    <2> QED BY <1>1, <1>3, <2>3, StepKeeps
  <1> QED BY <1>2, <1>3 DEF Proceed

LEMMA LoginKeeps ==
    ASSUME GateInv, NEW r \in Caller, NEW host \in Slug \cup {None}, Login(r, host)
    PROVE  GateInv'
  <1>1. UNCHANGED <<platform, kept, directory, clock>>
    BY DEF Login
  <1> DEFINE next == [at |-> "route", hint |-> host, dir |-> directory, began |-> clock]
  <1>2. Step(r, next)
    BY DEF Login
  <1>3. next.at = "route" /\ next.hint = host /\ next.dir = directory /\ next.began = clock
    OBVIOUS
  <1> HIDE DEF next
  <1>4. rq'[r] = next
    BY <1>2 DEF Step, GateInv
  <1>5. clock \in Nat /\ clock' = clock /\ directory \in Tenant \cup {None}
    BY <1>1 DEF GateInv, TimesInv, PlaneInv
  <1>6. RequestTells(r)'
    BY <1>3, <1>4, <1>5 DEF RequestTells
  <1> QED BY <1>1, <1>2, <1>6, StepKeeps

LEMMA RouteKeeps ==
    ASSUME GateInv, NEW r \in Caller, Route(r)
    PROVE  GateInv'
  <1>1. rq[r].at = "route" /\ UNCHANGED <<platform, kept, directory, clock>>
    BY DEF Route
  <1>2. /\ rq[r].hint \in Slug \cup {None} /\ rq[r].dir \in Tenant \cup {None}
        /\ rq[r].began \in Nat /\ rq[r].began <= clock
    BY <1>1 DEF GateInv, RequestTells
  <1>3. PICK rec : rec = IF rq[r].hint # None THEN Read(<<"slug", rq[r].hint>>)
                         ELSE IF rq[r].dir = None THEN NoRecord ELSE Read(<<"id", rq[r].dir>>)
    OBVIOUS
  <1>4. RecordTells(rec) /\ (rec.status = "OPEN" => clock <= lastOpen[rec.id])
    <2>1. rq[r].hint # None => <<"slug", rq[r].hint>> \in GateKey
      BY <1>2 DEF GateKey
    <2>2. rq[r].dir # None => <<"id", rq[r].dir>> \in GateKey
      BY <1>2 DEF GateKey
    <2>3. CASE rec = NoRecord
      BY <2>3 DEF RecordTells, NoRecord, None
    <2>4. CASE \E key \in GateKey : rec = Read(key)
      <3>1. PICK key \in GateKey : rec = Read(key)
        BY <2>4
      <3> QED BY <3>1, ReadTells DEF RecordTells
    <2> QED BY <1>3, <2>1, <2>2, <2>3, <2>4
  <1>5. \/ \E code : Reply(r, code)
        \/ Step(r, [at |-> "check", tenant |-> Unrouted, began |-> rq[r].began])
        \/ rec.store /\ ~Blocked(rec) /\ Step(r, [at |-> "check", tenant |-> rec.id, began |-> rq[r].began])
    <2>1. NoRecord.store = FALSE
      BY DEF NoRecord
    <2> QED BY <1>3, <2>1 DEF Route
  <1>6. CASE \E code : Reply(r, code)
    BY <1>1, <1>6, ReplyKeeps
  <1>7. CASE Step(r, [at |-> "check", tenant |-> Unrouted, began |-> rq[r].began])
    <2>1. rq'[r].at = "check" /\ rq'[r].tenant = Unrouted /\ rq'[r].began = rq[r].began
      BY <1>7 DEF Step, GateInv
    <2>2. Unrouted \notin Tenant
      BY GateAssumption
    <2>3. RequestTells(r)'
      BY <1>2, <2>1, <2>2 DEF RequestTells
    <2> QED BY <1>1, <1>7, <2>3, StepKeeps
  <1>8. CASE /\ rec.store /\ ~Blocked(rec)
             /\ Step(r, [at |-> "check", tenant |-> rec.id, began |-> rq[r].began])
    <2>1. rec.status = "OPEN"
      BY <1>8 DEF Blocked
    <2>2. Addressed(rec.id) /\ rec.id \in Tenant
      BY <1>4, <2>1 DEF RecordTells, NoRecord, None
    <2>3. rq'[r].at = "check" /\ rq'[r].tenant = rec.id /\ rq'[r].began = rq[r].began
      BY <1>8 DEF Step, GateInv
    <2>4. lastOpen' = lastOpen /\ lastOpen[rec.id] \in Nat /\ clock \in Nat
      BY <1>1, <2>2 DEF GateInv, TimesInv, platform
    <2>5. rq'[r].began <= lastOpen'[rec.id]
      BY <1>2, <1>4, <2>1, <2>3, <2>4
    <2>6. Addressed(rq[r].tenant)'
      BY <1>1, <2>2, <2>3 DEF Addressed, platform
    <2>7. RequestTells(r)'
      BY <1>2, <2>3, <2>5, <2>6 DEF RequestTells
    <2> QED BY <1>1, <1>8, <2>7, StepKeeps
  <1> QED BY <1>5, <1>6, <1>7, <1>8

LEMMA CheckKeeps ==
    ASSUME GateInv, NEW r \in Caller, NEW valid \in BOOLEAN, Check(r, valid)
    PROVE  GateInv'
  <1>1. rq[r].at = "check" /\ UNCHANGED <<platform, kept, directory, clock>>
    BY DEF Check
  <1>2. PICK t, began : t = rq[r].tenant /\ began = rq[r].began
    OBVIOUS
  <1>3. /\ t = Unrouted \/ Addressed(t)
        /\ began \in Nat /\ (t \in Tenant => began <= lastOpen[t])
    BY <1>1, <1>2 DEF GateInv, RequestTells, Addressed
  <1>4. PICK tables : tables = IF t = Unrouted THEN Unrouted ELSE Reaches(t)
    OBVIOUS
  <1>5. tables # None => tables = t
    BY <1>3, <1>4, ReachesOwn
  <1>6. \/ \E code : Reply(r, code)
        \/ /\ tables # None
           /\ Step(r, [at |-> "index", tenant |-> t, from |-> tables, began |-> began])
    BY <1>2, <1>4 DEF Check
  <1>7. CASE \E code : Reply(r, code)
    BY <1>1, <1>7, ReplyKeeps
  <1>8. CASE /\ tables # None
             /\ Step(r, [at |-> "index", tenant |-> t, from |-> tables, began |-> began])
    <2>1. rq'[r].at = "index" /\ rq'[r].tenant = t /\ rq'[r].from = t /\ rq'[r].began = began
      BY <1>5, <1>8 DEF Step, GateInv
    <2>2. rq'[r].tenant = Unrouted \/ Addressed(rq[r].tenant)'
      BY <1>1, <1>3, <2>1 DEF Addressed, platform
    <2>3. lastOpen' = lastOpen
      BY <1>1 DEF platform
    <2>4. RequestTells(r)'
      BY <1>3, <2>1, <2>2, <2>3 DEF RequestTells
    <2> QED BY <1>1, <1>8, <2>4, StepKeeps
  <1> QED BY <1>6, <1>7, <1>8

LEMMA IssueKeeps ==
    ASSUME GateInv, NEW r \in Caller, NEW indexed \in BOOLEAN, Issue(r, indexed)
    PROVE  GateInv'
  <1>1. rq[r].at = "index" /\ UNCHANGED <<platform, kept, clock>> /\ Reply(r, "200")
        /\ directory' = IF indexed /\ rq[r].tenant \in Tenant THEN rq[r].tenant ELSE directory
    BY DEF Issue
  <1>2. PlaneInv'
    BY <1>1 DEF GateInv, PlaneInv, platform
  <1>3. TimesInv' /\ PoolTells'
    BY <1>1 DEF GateInv, TimesInv, PoolTells, Serving, platform, kept
  <1>4. Onward
    BY <1>1 DEF GateInv, TimesInv, Onward, Addressed, platform, kept
  <1>5. DOMAIN cache' = GateKey /\ \A k \in GateKey : CacheTells(k)'
    BY <1>1, <1>3, <1>4, CacheStays DEF kept
  <1>6. rq' = [rq EXCEPT ![r] = [at |-> "none"]] /\ rq'[r].at = "none"
    BY <1>1 DEF Reply, Step, GateInv
  <1>7. RequestTells(r)'
    BY <1>6 DEF RequestTells
  <1>8. DOMAIN rq' = Caller /\ \A d \in Caller : RequestTells(d)'
    BY <1>3, <1>4, <1>6, <1>7, OtherRequests
  <1> QED BY <1>2, <1>3, <1>5, <1>8 DEF GateInv

LEMMA GateInvInit == GateInit => GateInv
  <1> SUFFICES ASSUME GateInit PROVE GateInv
    OBVIOUS
  <1>1. PICK t \in Tenant \cup {None}, s \in Slug :
        /\ registry = [u \in Tenant |->
                          IF u = t THEN [row |-> TRUE, slug |-> s, status |-> "OPEN", store |-> TRUE]
                          ELSE [row |-> FALSE, slug |-> None, status |-> "OPEN", store |-> FALSE]]
        /\ base = [x \in Slug |-> [tables   |-> IF x = s THEN t ELSE None,
                                   password |-> IF x = s THEN t ELSE None]]
        /\ directory \in {None, t}
        /\ cache = [k \in GateKey |-> Expired]
        /\ pool = <<>> /\ rq = [r \in Caller |-> [at |-> "none"]]
        /\ clock = 0 /\ lastOpen = [u \in Tenant |-> 0]
    BY DEF GateInit, GateKey
  <1>2. registry \in [Tenant -> RegistryRow]
    BY <1>1 DEF RegistryRow, TenantStatus
  <1>3. \A u \in Tenant : registry[u].row => u = t /\ registry[u].slug = s /\ registry[u].store
    BY <1>1
  <1>4. t \in Tenant => registry[t].row /\ registry[t].slug = s /\ registry[t].store
    BY <1>1
  <1>5. base \in [Slug -> BaseRow] /\ base[s].password = t /\ base[s].tables = t
        /\ \A x \in Slug \ {s} : base[x].tables = None
    BY <1>1 DEF BaseRow
  <1>6. PlaneInv
    <2>1. directory \in Tenant \cup {None}
      BY <1>1
    <2>2. \A x \in Slug : base[x].tables # None => x = s /\ t \in Tenant
      BY <1>5
    <2> QED BY <1>2, <1>3, <1>4, <1>5, <2>1, <2>2 DEF PlaneInv
  <1>7. TimesInv /\ PoolTells
    <2>1. MaxPool \in Nat
      BY GateAssumption
    <2> QED BY <1>1, <2>1 DEF TimesInv, PoolTells
  <1>8. DOMAIN cache = GateKey /\ \A k \in GateKey : CacheTells(k)
    <2>1. Expired.rec = NoRecord /\ Expired.until = 0 /\ NoRecord.status # "OPEN"
      BY DEF Expired, NoRecord, None
    <2>2. \A k \in GateKey : cache[k] = Expired
      BY <1>1
    <2>3. \A k \in GateKey : cache[k].rec = NoRecord /\ cache[k].until = 0
      BY <2>1, <2>2
    <2> QED BY <1>1, <2>1, <2>3 DEF CacheTells, RecordTells
  <1>9. DOMAIN rq = Caller /\ \A r \in Caller : RequestTells(r)
    <2>1. \A r \in Caller : rq[r].at = "none"
      BY <1>1
    <2> QED BY <1>1, <2>1 DEF RequestTells
  <1> QED BY <1>6, <1>7, <1>8, <1>9 DEF GateInv

LEMMA GateInvKept == GateInv /\ [GateNext]_gateVars => GateInv'
  <1> SUFFICES ASSUME GateInv, [GateNext]_gateVars PROVE GateInv'
    OBVIOUS
  <1>1. CASE UNCHANGED gateVars
    <2>1. UNCHANGED <<platform, kept, directory, clock, rq>>
      BY <1>1 DEF gateVars, platform, kept
    <2>2. PlaneInv' /\ TimesInv' /\ PoolTells'
      BY <2>1 DEF GateInv, PlaneInv, TimesInv, PoolTells, Serving, platform, kept
    <2>3. Onward
      BY <2>1 DEF GateInv, TimesInv, Onward, Addressed, platform, kept
    <2>4. DOMAIN cache' = GateKey /\ \A k \in GateKey : CacheTells(k)'
      BY <2>1, <2>2, <2>3, CacheStays DEF kept
    <2>5. DOMAIN rq' = Caller /\ \A d \in Caller : RequestTells(d)'
      BY <2>1, <2>2, <2>3, AllRequests
    <2> QED BY <2>2, <2>4, <2>5 DEF GateInv
  <1>2. CASE GateNext
    <2>1. ASSUME NEW r \in Caller, NEW host \in Slug \cup {None}, NEW token,
                 NEW valid \in BOOLEAN, NEW gated \in BOOLEAN, Call(r, host, token, valid, gated)
          PROVE  GateInv'
      BY <2>1, CallKeeps
    <2>2. ASSUME NEW r \in Caller, NEW host \in Slug \cup {None}, Login(r, host)
          PROVE  GateInv'
      BY <2>2, LoginKeeps
    <2>3. ASSUME NEW r \in Caller,
                 \/ Enter(r) \/ LookUp(r) \/ Keep(r) \/ Query(r) \/ Proceed(r) \/ Route(r)
                 \/ \E yes \in BOOLEAN : Check(r, yes) \/ Issue(r, yes)
          PROVE  GateInv'
      BY <2>3, EnterKeeps, LookUpKeeps, KeepKeeps, QueryKeeps, ProceedKeeps, RouteKeeps,
         CheckKeeps, IssueKeeps
    <2> QED BY <1>2, <2>1, <2>2, <2>3, ChangeKeeps, TickKeeps DEF GateNext
  <1> QED BY <1>1, <1>2

\* A request and a login reach the tables of the school they are routed to, whoever
\* holds its address by then; no client and no session is given out for a school
\* that has been closed for longer than the cache keeps it, unless an answer of the
\* control plane lingered; and a process keeps one client of a school, MaxPool in all.
THEOREM GateAgreesHolds == GateSpec => []GateAgrees
  <1>1. GateInv => GateAgrees
    <2> SUFFICES ASSUME GateInv PROVE GateAgrees
      OBVIOUS
    <2>1. \A r \in Caller : RequestTells(r)
      BY DEF GateInv
    <2>2. RightSchool
      BY <2>1 DEF RightSchool, RequestTells
    <2>3. SuspensionIsFelt
      BY <2>1 DEF SuspensionIsFelt, RequestTells
    <2>4. NoSessionWhenClosed
      BY <2>1 DEF NoSessionWhenClosed, RequestTells
    <2>5. PoolIsBounded
      <3>1. PICK p : p = pool
        OBVIOUS
      <3>2. p \in Seq(Tenant) /\ Len(p) <= MaxPool
            /\ \A i, j \in 1 .. Len(p) : p[i] = p[j] => i = j
        BY <3>1 DEF GateInv, PoolTells
      <3>3. DOMAIN p = 1 .. Len(p)
        BY <3>2
      <3> QED BY <3>1, <3>2, <3>3 DEF PoolIsBounded
    <2> QED BY <2>2, <2>3, <2>4, <2>5 DEF GateAgrees
  <1> QED BY <1>1, GateInvInit, GateInvKept, PTL DEF GateSpec
=============================================================================
