------------------------------ MODULE Tenancy ------------------------------
(***************************************************************************)
(* Who may act for a tenant: onboarding, API keys and their revocation,    *)
(* dashboard users, logins and tokens, and the two middlewares in front of *)
(* every handler.  A request is authenticated in one step and handled in   *)
(* later ones, so keys are revoked and tokens expire in between.           *)
(*                                                                         *)
(* A raw API key, its hash and its row are one member of KeyIds: SHA-256   *)
(* and 256 random bits are taken to be injective and unguessable.  A token *)
(* is the tenant and user it names; nobody can sign another one.           *)
(***************************************************************************)
EXTENDS Integers

CONSTANTS TenantIds, KeyIds, Emails,
          Calls,        \* concurrent requests to the API
          BadKey,       \* an API key that was never issued
          BadToken,     \* a bearer token with a wrong signature
          Nothing,      \* no credential at all
          NoTenant, NoCred

Users  == TenantIds \X Emails
Tokens == Users

(* What a client may present instead of a credential it was given. *)
BadCreds == {BadKey, BadToken, Nothing}
Creds    == KeyIds \cup Tokens \cup BadCreds

(* Routes behind MiddlewareAPIKey, and the mutating ones behind MeAuth. *)
KeyRoutes == {"payment", "user"}
MeRoutes  == {"webhook", "revoke"}

ASSUME TenancyConstants ==
    /\ NoTenant \notin TenantIds
    /\ NoCred \notin Creds
    /\ KeyIds \cap (Tokens \cup BadCreds) = {}
    /\ Tokens \cap BadCreds = {}

VARIABLES tenants,      \* rows of tenants
          keyOwner,     \* api_keys.tenant_id
          revoked,      \* keys with revoked_at
          users,        \* rows of dashboard_users
          audit,        \* the tenants the rows of audit_events name
          revocations,  \* how many api_key_revoked events a key has
          known,        \* keys their client was told
          tokens,       \* tokens clients hold that have not expired
          call,         \* the requests in progress
          madeBy,       \* history: the credential that created a user
          effect        \* history: whose rows the last step changed, and
                        \* with which credential

db   == <<tenants, keyOwner, revoked, users, audit, revocations>>
vars == <<db, known, tokens, call, madeBy, effect>>

Idle == [stage |-> "idle", route |-> "none", cred |-> NoCred,
         tenant |-> NoTenant, target |-> NoCred]

NoEffect == [route |-> "none", tenant |-> NoTenant, cred |-> NoCred]

Init == /\ tenants     = {}
        /\ keyOwner    = [k \in KeyIds |-> NoTenant]
        /\ revoked     = {}
        /\ users       = {}
        /\ audit       = {}
        /\ revocations = [k \in KeyIds |-> 0]
        /\ known       = {}
        /\ tokens      = {}
        /\ call        = [c \in Calls |-> Idle]
        /\ madeBy      = [u \in Users |-> NoCred]
        /\ effect      = NoEffect

-----------------------------------------------------------------------------
Become(c, r)  == call' = [call EXCEPT ![c] = r]
Done(c)       == Become(c, Idle)
Goto(c, s)    == call' = [call EXCEPT ![c].stage = s]

(* A step that changes nothing for a tenant. *)
Quiet == effect' = NoEffect /\ UNCHANGED madeBy

(* Mutant: no foreign key to tenants. *)
TryAuditAnyTenant(t) == audit' \in {audit, audit \cup {t}}

(* audit.Write outside a transaction: its error is ignored, and the        *)
(* foreign key refuses a tenant that does not exist.                       *)
TryAudit(t) == audit' \in {audit, (audit \cup {t}) \cap (tenants \cup {NoTenant})}

-----------------------------------------------------------------------------
(* POST /v1/tenants: one transaction inserts the tenant, its only key and  *)
(* both audit events.  Ids are random, so nobody can meet it half done.    *)
CreateTenantWithAPIKey(c) ==
    /\ call[c] = Idle
    /\ \E t \in TenantIds \ tenants, k \in KeyIds :
         /\ keyOwner[k] = NoTenant
         /\ tenants'  = tenants \cup {t}
         /\ keyOwner' = [keyOwner EXCEPT ![k] = t]
         /\ audit'    = audit \cup {t}
         /\ Become(c, [Idle EXCEPT !.stage = "issued", !.target = k])
    /\ Quiet /\ UNCHANGED <<revoked, users, revocations, known, tokens>>

(* The raw key is in this answer and nowhere else. *)
TellKey(c) ==
    /\ call[c].stage = "issued"
    /\ known' = known \cup {call[c].target}
    /\ Done(c)
    /\ Quiet /\ UNCHANGED <<db, tokens>>

-----------------------------------------------------------------------------
(* POST /v1/auth/login with a wrong tenant, email or password. *)
LoginRefused(c, t) ==
    /\ call[c] = Idle
    /\ TryAudit(t)
    /\ Quiet
    /\ UNCHANGED <<tenants, keyOwner, revoked, users, revocations, known,
                   tokens, call>>

(* Mutant: the user is looked up by email alone. *)
LoginAcceptedAnyTenant(c, u) ==
    /\ call[c] = Idle
    /\ \E v \in users : v[2] = u[2]
    /\ Become(c, [Idle EXCEPT !.stage = "signed", !.target = u])
    /\ Quiet /\ UNCHANGED <<db, known, tokens>>

(* The user is found, the password matches and a token is signed. *)
LoginAccepted(c, u) ==
    /\ call[c] = Idle
    /\ u \in users
    /\ Become(c, [Idle EXCEPT !.stage = "signed", !.target = u])
    /\ Quiet /\ UNCHANGED <<db, known, tokens>>

LoginReply(c) ==
    /\ call[c].stage = "signed"
    /\ TryAudit(call[c].target[1])
    /\ tokens' = tokens \cup {call[c].target}
    /\ Done(c)
    /\ Quiet
    /\ UNCHANGED <<tenants, keyOwner, revoked, users, revocations, known>>

(* A token is a day old.  Nothing else ends it. *)
Expire(u) ==
    /\ u \in tokens
    /\ tokens' = tokens \ {u}
    /\ Quiet /\ UNCHANGED <<db, known, call>>

-----------------------------------------------------------------------------
(* Mutant: revoked_at is not looked at. *)
LiveForEver(k) == keyOwner[k] # NoTenant

(* SELECT ... FROM api_keys WHERE key_hash = $1 AND revoked_at IS NULL. *)
Live(k) == keyOwner[k] # NoTenant /\ k \notin revoked

(* The tenant a middleware puts into the request's context.  Only MeAuth   *)
(* looks at a token.                                                       *)
TenantID(route, cred) ==
    IF cred \in KeyIds /\ Live(cred) THEN keyOwner[cred]
    ELSE IF cred \in tokens /\ route \in MeRoutes THEN cred[1]
    ELSE NoTenant

(* What a request is about: a key to revoke or a user to create, of any    *)
(* tenant.                                                                 *)
Targets(route) == CASE route = "revoke" -> KeyIds
                    [] route = "user"   -> Users
                    [] OTHER            -> {NoCred}

(* The middleware lets a request with a credential it was given pass. *)
Authenticate(c, route, cred) ==
    /\ call[c] = Idle
    /\ TenantID(route, cred) # NoTenant
    /\ \E x \in Targets(route) :
         Become(c, [stage |-> "handle", route |-> route, cred |-> cred,
                    tenant |-> TenantID(route, cred), target |-> x])
    /\ Quiet /\ UNCHANGED <<db, known, tokens>>

(* Refusals, also of a live key when its lookup fails.  MiddlewareAPIKey   *)
(* audits a bad key, MeAuth a bad token but not a bad key, and nobody a    *)
(* request without a credential.                                           *)
Refuse(c, route, cred) ==
    /\ call[c] = Idle
    /\ cred \in KeyIds \/ TenantID(route, cred) = NoTenant
    /\ \/ /\ \/ route \in KeyRoutes /\ cred \in KeyIds \cup {BadKey}
             \/ route \in MeRoutes /\ cred \in Tokens \cup {BadToken}
          /\ TryAudit(NoTenant)
       \/ UNCHANGED audit
    /\ Quiet
    /\ UNCHANGED <<tenants, keyOwner, revoked, users, revocations, known,
                   tokens, call>>

-----------------------------------------------------------------------------
Handling(c, route) == call[c].stage = "handle" /\ call[c].route = route

(* The request changes rows of tenant t. *)
Acted(c, t) == effect' = [route |-> call[c].route, tenant |-> t,
                          cred |-> call[c].cred]

(* A payment or refund is created, or the webhook registration or a        *)
(* delivery changed, for the tenant of the context; the other modules have *)
(* the details.                                                            *)
Act(c) ==
    /\ Handling(c, "payment") \/ Handling(c, "webhook")
    /\ Acted(c, call[c].tenant)
    /\ Done(c)
    /\ UNCHANGED <<db, known, tokens, madeBy>>

(* pathID = ctxTid. *)
SamePath(c) == call[c].target[1] = call[c].tenant

(* POST /v1/tenants/{id}/dashboard-users: the unique index refuses a       *)
(* second user with the same email.                                        *)
postDashboardUser(c) ==
    LET u == <<call[c].tenant, call[c].target[2]>> IN
    /\ Handling(c, "user")
    /\ IF call[c].cred \in KeyIds /\ SamePath(c) /\ u \notin users
         THEN /\ users'  = users \cup {u}
              /\ madeBy' = [madeBy EXCEPT ![u] = call[c].cred]
              /\ Acted(c, u[1])
              /\ TryAudit(call[c].tenant)
         ELSE Quiet /\ UNCHANGED <<users, audit>>
    /\ Done(c)
    /\ UNCHANGED <<tenants, keyOwner, revoked, revocations, known, tokens>>

(* Mutant: the second UPDATE does not wait for the first. *)
UnlockedNoWait(k) == TRUE

(* No transaction has revoked k and not ended yet. *)
Unlocked(k) ==
    \A c \in Calls : ~(call[c].stage = "revoking" /\ call[c].target = k)

(* Mutant: the UPDATE does not say AND tenant_id = $2. *)
RevokeUpdateAnyTenant(c) ==
    LET k == call[c].target IN
    /\ Handling(c, "revoke")
    /\ Unlocked(k)
    /\ IF keyOwner[k] # NoTenant /\ k \notin revoked
         THEN Goto(c, "revoking") ELSE Done(c)
    /\ Quiet /\ UNCHANGED <<db, known, tokens>>

(* RevokeAPIKey's UPDATE: it waits for another one of the same key, then   *)
(* finds a live key of the caller's tenant, or answers 404.                *)
RevokeUpdate(c) ==
    LET k == call[c].target IN
    /\ Handling(c, "revoke")
    /\ Unlocked(k)
    /\ IF keyOwner[k] = call[c].tenant /\ k \notin revoked
         THEN Goto(c, "revoking") ELSE Done(c)
    /\ Quiet /\ UNCHANGED <<db, known, tokens>>

(* The audit event and the commit. *)
RevokeCommit(c) ==
    LET k == call[c].target IN
    /\ call[c].stage = "revoking"
    /\ revoked' = revoked \cup {k}
    /\ revocations' = [revocations EXCEPT ![k] = @ + 1]
    /\ audit' = audit \cup {call[c].tenant}
    /\ Acted(c, keyOwner[k])
    /\ Done(c)
    /\ UNCHANGED <<tenants, keyOwner, users, known, tokens, madeBy>>

(* DELETE /v1/tenants/me/api-keys/{id}, for a key or a token. *)
deleteTenantAPIKey(c) == RevokeUpdate(c) \/ RevokeCommit(c)

(* A statement fails, the process dies or the client goes away: an open    *)
(* transaction is rolled back, a key or token is never told.               *)
Abort(c) ==
    /\ call[c] # Idle
    /\ Done(c)
    /\ Quiet /\ UNCHANGED <<db, known, tokens>>

-----------------------------------------------------------------------------
Progress(c) == \/ TellKey(c) \/ LoginReply(c) \/ Act(c)
               \/ postDashboardUser(c) \/ deleteTenantAPIKey(c)

Request(c) ==
    \/ CreateTenantWithAPIKey(c)
    \/ \E t \in TenantIds : LoginRefused(c, t)
    \/ \E u \in Users : LoginAccepted(c, u)
    \/ \E route \in KeyRoutes \cup MeRoutes,
          cred \in known \cup Tokens \cup BadCreds :
          Authenticate(c, route, cred) \/ Refuse(c, route, cred)

Next == \/ \E c \in Calls : Request(c) \/ Progress(c) \/ Abort(c)
        \/ \E u \in Users : Expire(u)

Spec == Init /\ [][Next]_vars

(* A request that has arrived is worked on; the calls are finitely many,   *)
(* so one that waits for a key's row gets its turn.                        *)
FairSpec ==
    Spec /\ \A c \in Calls : WF_vars(Progress(c)) /\ SF_vars(RevokeUpdate(c))

-----------------------------------------------------------------------------
Stages == {"idle", "issued", "signed", "handle", "revoking"}

(* Every variable keeps its type. *)
TypeOK ==
    /\ tenants \subseteq TenantIds
    /\ keyOwner \in [KeyIds -> TenantIds \cup {NoTenant}]
    /\ revoked \subseteq KeyIds
    /\ users \subseteq Users
    /\ revocations \in [KeyIds -> Nat]
    /\ known \subseteq KeyIds
    /\ tokens \subseteq Tokens
    /\ call \in [Calls -> [stage : Stages,
                           route : {"none"} \cup KeyRoutes \cup MeRoutes,
                           cred : Creds \cup {NoCred},
                           tenant : TenantIds \cup {NoTenant},
                           target : KeyIds \cup Users \cup {NoCred}]]
    /\ audit \subseteq tenants \cup {NoTenant}
    /\ madeBy \in [Users -> Creds \cup {NoCred}]
    /\ effect \in [route : {"none"} \cup KeyRoutes \cup MeRoutes,
                   tenant : TenantIds \cup {NoTenant},
                   cred : Creds \cup {NoCred}]

(* A key vouches for its owner, a token for its tenant if a key of that    *)
(* tenant created the user it names.                                       *)
VouchedFor(cred, t) ==
    \/ cred \in known /\ keyOwner[cred] = t
    \/ /\ cred \in users /\ cred[1] = t
       /\ madeBy[cred] \in known /\ keyOwner[madeBy[cred]] = t

(* Every change to a tenant's rows goes back, through the token, the user  *)
(* and the key that created it, to that tenant's own onboarding: no        *)
(* sequence of logins, user creations and revocations crosses tenants, and *)
(* nobody revokes another tenant's key (R8).  And payments, refunds and    *)
(* users take a key, never just a token (R2).                              *)
EffectsTraceBack ==
    effect # NoEffect =>
        /\ VouchedFor(effect.cred, effect.tenant)
        /\ effect.route \in KeyRoutes => effect.cred \in KeyIds

(* A key is revoked once, and the audit log says so once, however many     *)
(* calls revoke it at the same time (R11).                                 *)
RevokedOnce ==
    \A k \in KeyIds : revocations[k] = IF k \in revoked THEN 1 ELSE 0

(* After a revocation only the requests that were already past the         *)
(* middleware still use the key; they end, and none follows.               *)
RevokedKeysDrain ==
    \A k \in KeyIds :
        k \in revoked ~> [](\A c \in Calls : call[c].cred # k)
=============================================================================
