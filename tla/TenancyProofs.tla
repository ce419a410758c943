--------------------------- MODULE TenancyProofs ---------------------------
(***************************************************************************)
(* Theorems about Tenancy, for any number of tenants, keys, users and      *)
(* concurrent requests.                                                    *)
(***************************************************************************)
EXTENDS Tenancy, TLAPS

(* A key belongs to a tenant that exists, and was told only if it does. *)
KeyInv == /\ \A k \in KeyIds : keyOwner[k] \in tenants \cup {NoTenant}
          /\ \A k \in known : keyOwner[k] # NoTenant

(* A user was created with a key of its own tenant. *)
UserInv == /\ tokens \subseteq users
           /\ \A u \in users : VouchedFor(u, u[1])

(* What a request has read when it was let in still holds: a key keeps its *)
(* owner and a user its tenant.                                            *)
LetIn(r) == /\ r.tenant \in tenants
            /\ VouchedFor(r.cred, r.tenant)
            /\ r.route \in KeyRoutes => r.cred \in KeyIds
            /\ r.target \in Targets(r.route)

(* The row lock is held by a call of the tenant whose key it revokes, and  *)
(* the key is still live.                                                  *)
CallInv(c) ==
    LET r == call[c] IN
    /\ r.stage = "issued" => r.target \in KeyIds /\ keyOwner[r.target] # NoTenant
    /\ r.stage = "signed" => r.target \in users
    /\ r.stage \in {"handle", "revoking"} => LetIn(r)
    /\ r.stage = "revoking" => /\ r.route = "revoke" /\ r.target \notin revoked
                               /\ keyOwner[r.target] = r.tenant

(* One transaction at a time revokes a key. *)
RowLock == \A c, d \in Calls :
    /\ call[c].stage = "revoking" /\ call[d].stage = "revoking"
    /\ call[c].target = call[d].target
    => c = d

(* The inductive invariant. *)
TenancyInv == /\ TypeOK /\ KeyInv /\ UserInv
              /\ \A c \in Calls : CallInv(c)
              /\ RowLock
              /\ EffectsTraceBack
              /\ RevokedOnce

-----------------------------------------------------------------------------
LEMMA TenancyStart == Init => TenancyInv
  BY TenancyConstants
  DEF Init, TenancyInv, TypeOK, KeyInv, UserInv, CallInv, RowLock,
      EffectsTraceBack, RevokedOnce, Idle, NoEffect, Stages, Creds

LEMMA TypesStep ==
  ASSUME TenancyInv, [Next]_vars
  PROVE  TypeOK'
  <1> USE TenancyConstants
      DEF TenancyInv, TypeOK, CallInv, LetIn, Targets, Idle, NoEffect, Stages, Creds,
          BadCreds, Tokens, Users, KeyRoutes, MeRoutes, db
  <1>1. ASSUME NEW c \in Calls, CreateTenantWithAPIKey(c)
        PROVE  TypeOK'
    <2>1. PICK t \in TenantIds \ tenants, k \in KeyIds :
            /\ keyOwner[k] = NoTenant
            /\ tenants'  = tenants \cup {t}
            /\ keyOwner' = [keyOwner EXCEPT ![k] = t]
            /\ audit'    = audit \cup {t}
            /\ Become(c, [Idle EXCEPT !.stage = "issued", !.target = k])
      BY <1>1 DEF CreateTenantWithAPIKey
    <2>2. UNCHANGED <<revoked, users, revocations, known, tokens>> /\ Quiet
      BY <1>1 DEF CreateTenantWithAPIKey
    <2>3. (call \in [Calls -> [stage : Stages,
                           route : {"none"} \cup KeyRoutes \cup MeRoutes,
                           cred : Creds \cup {NoCred},
                           tenant : TenantIds \cup {NoTenant},
                           target : KeyIds \cup Users \cup {NoCred}]])'
      BY <2>1 DEF Become
    <2>4. /\ tenants' \subseteq TenantIds /\ audit' \subseteq tenants' \cup {NoTenant}
          /\ keyOwner' \in [KeyIds -> TenantIds \cup {NoTenant}]
      BY <2>1
    <2>5. /\ effect' \in [route : {"none"} \cup KeyRoutes \cup MeRoutes,
                          tenant : TenantIds \cup {NoTenant},
                          cred : Creds \cup {NoCred}]
          /\ madeBy' \in [Users -> Creds \cup {NoCred}]
      BY <2>2 DEF Quiet
    <2> QED BY <2>2, <2>3, <2>4, <2>5
  <1>2. ASSUME NEW c \in Calls, TellKey(c)
        PROVE  TypeOK'
    BY <1>2 DEF TellKey, Done, Become, Quiet
  <1>3. ASSUME NEW c \in Calls, NEW t \in TenantIds, LoginRefused(c, t)
        PROVE  TypeOK'
    BY <1>3 DEF LoginRefused, TryAudit, Quiet
  <1>4. ASSUME NEW c \in Calls, NEW u \in Users, LoginAccepted(c, u)
        PROVE  TypeOK'
    BY <1>4 DEF LoginAccepted, Become, Quiet
  <1>5. ASSUME NEW c \in Calls, LoginReply(c)
        PROVE  TypeOK'
    BY <1>5 DEF LoginReply, TryAudit, Done, Become, Quiet
  <1>6. ASSUME NEW u \in Users, Expire(u)
        PROVE  TypeOK'
    BY <1>6 DEF Expire, Quiet
  <1>7. ASSUME NEW c \in Calls, NEW route \in KeyRoutes \cup MeRoutes,
               NEW cred \in known \cup Tokens \cup BadCreds, Authenticate(c, route, cred)
        PROVE  TypeOK'
    <2>1. TenantID(route, cred) \in TenantIds
      BY <1>7 DEF Authenticate, TenantID
    <2>2. PICK x \in Targets(route) :
            Become(c, [stage |-> "handle", route |-> route, cred |-> cred,
                       tenant |-> TenantID(route, cred), target |-> x])
      BY <1>7 DEF Authenticate
    <2>3. UNCHANGED <<db, known, tokens>> /\ Quiet
      BY <1>7 DEF Authenticate
    <2> QED BY <2>1, <2>2, <2>3 DEF Become, Quiet
  <1>8. ASSUME NEW c \in Calls, NEW route \in KeyRoutes \cup MeRoutes,
               NEW cred \in known \cup Tokens \cup BadCreds, Refuse(c, route, cred)
        PROVE  TypeOK'
    BY <1>8 DEF Refuse, TryAudit, Quiet
  <1>9. ASSUME NEW c \in Calls, Act(c)
        PROVE  TypeOK'
    BY <1>9 DEF Act, Handling, Acted, Done, Become
  <1>10. ASSUME NEW c \in Calls, postDashboardUser(c)
        PROVE  TypeOK'
    <2> DEFINE u == <<call[c].tenant, call[c].target[2]>>
    <2>1. /\ call[c].target \in Users /\ call[c].tenant \in tenants
          /\ u \in Users
      BY <1>10 DEF postDashboardUser, Handling
    <2>2. (call \in [Calls -> [stage : Stages,
                           route : {"none"} \cup KeyRoutes \cup MeRoutes,
                           cred : Creds \cup {NoCred},
                           tenant : TenantIds \cup {NoTenant},
                           target : KeyIds \cup Users \cup {NoCred}]])'
      BY <1>10 DEF postDashboardUser, Done, Become
    <2>3. CASE call[c].cred \in KeyIds /\ SamePath(c) /\ u \notin users
      <3>1. /\ users' = users \cup {u} /\ madeBy' = [madeBy EXCEPT ![u] = call[c].cred]
            /\ Acted(c, u[1]) /\ TryAudit(call[c].tenant)
            /\ UNCHANGED <<tenants, keyOwner, revoked, revocations, known, tokens>>
        BY <1>10, <2>3 DEF postDashboardUser
      <3>2. effect' \in [route : {"none"} \cup KeyRoutes \cup MeRoutes,
                         tenant : TenantIds \cup {NoTenant},
                         cred : Creds \cup {NoCred}]
        BY <3>1 DEF Acted
      <3>3. madeBy' \in [Users -> Creds \cup {NoCred}] /\ users' \subseteq Users
        BY <2>1, <3>1
      <3>4. audit' \subseteq tenants' \cup {NoTenant}
        BY <3>1 DEF TryAudit
      <3> QED BY <2>2, <3>1, <3>2, <3>3, <3>4
    <2>4. CASE ~(call[c].cred \in KeyIds /\ SamePath(c) /\ u \notin users)
      BY <1>10, <2>2, <2>4 DEF postDashboardUser, Quiet
    <2> QED BY <2>3, <2>4
  <1>11. ASSUME NEW c \in Calls, RevokeUpdate(c)
        PROVE  TypeOK'
    BY <1>11 DEF RevokeUpdate, Handling, Goto, Done, Become, Quiet
  <1>12. ASSUME NEW c \in Calls, RevokeCommit(c)
        PROVE  TypeOK'
    BY <1>12 DEF RevokeCommit, Acted, Done, Become
  <1>13. ASSUME NEW c \in Calls, Abort(c)
        PROVE  TypeOK'
    BY <1>13 DEF Abort, Done, Become, Quiet
  <1>14. CASE UNCHANGED vars
    BY <1>14 DEF vars
  <1> QED BY <1>1, <1>2, <1>3, <1>4, <1>5, <1>6, <1>7, <1>8, <1>9, <1>10, <1>11, <1>12, <1>13, <1>14
          DEF Next, Request, Progress, deleteTenantAPIKey

(* Rows are never taken back: a tenant stays, a key keeps its owner, a user  *)
(* its creator.                                                              *)
Kept == /\ tenants \subseteq tenants' /\ known \subseteq known'
        /\ users \subseteq users' /\ revoked \subseteq revoked'
        /\ \A k \in KeyIds : keyOwner[k] # NoTenant => keyOwner'[k] = keyOwner[k]
        /\ \A u \in users : madeBy'[u] = madeBy[u]

LEMMA NothingTakenBack ==
  ASSUME TenancyInv, [Next]_vars
  PROVE  Kept
  <1> USE DEF TenancyInv, TypeOK, Kept, db
  <1>1. ASSUME NEW c \in Calls, CreateTenantWithAPIKey(c)
        PROVE  Kept
    BY <1>1 DEF CreateTenantWithAPIKey, Become, Quiet
  <1>2. ASSUME NEW c \in Calls, TellKey(c)
        PROVE  Kept
    BY <1>2 DEF TellKey, Done, Become, Quiet
  <1>3. ASSUME NEW c \in Calls, NEW t \in TenantIds, LoginRefused(c, t)
        PROVE  Kept
    BY <1>3 DEF LoginRefused, TryAudit, Quiet
  <1>4. ASSUME NEW c \in Calls, NEW u \in Users, LoginAccepted(c, u)
        PROVE  Kept
    BY <1>4 DEF LoginAccepted, Become, Quiet
  <1>5. ASSUME NEW c \in Calls, LoginReply(c)
        PROVE  Kept
    BY <1>5 DEF LoginReply, TryAudit, Done, Become, Quiet
  <1>6. ASSUME NEW u \in Users, Expire(u)
        PROVE  Kept
    BY <1>6 DEF Expire, Quiet
  <1>7. ASSUME NEW c \in Calls, NEW route \in KeyRoutes \cup MeRoutes,
               NEW cred \in known \cup Tokens \cup BadCreds, Authenticate(c, route, cred)
        PROVE  Kept
    BY <1>7 DEF Authenticate, Become, Quiet
  <1>8. ASSUME NEW c \in Calls, NEW route \in KeyRoutes \cup MeRoutes,
               NEW cred \in known \cup Tokens \cup BadCreds, Refuse(c, route, cred)
        PROVE  Kept
    BY <1>8 DEF Refuse, TryAudit, Quiet
  <1>9. ASSUME NEW c \in Calls, Act(c)
        PROVE  Kept
    BY <1>9 DEF Act, Handling, Acted, Done, Become
  <1>10. ASSUME NEW c \in Calls, postDashboardUser(c)
        PROVE  Kept
    BY <1>10 DEF postDashboardUser, Handling, Acted, Quiet, TryAudit, Done, Become
  <1>11. ASSUME NEW c \in Calls, RevokeUpdate(c)
        PROVE  Kept
    BY <1>11 DEF RevokeUpdate, Handling, Goto, Done, Become, Quiet
  <1>12. ASSUME NEW c \in Calls, RevokeCommit(c)
        PROVE  Kept
    BY <1>12 DEF RevokeCommit, Acted, Done, Become
  <1>13. ASSUME NEW c \in Calls, Abort(c)
        PROVE  Kept
    BY <1>13 DEF Abort, Done, Become, Quiet
  <1>14. CASE UNCHANGED vars
    BY <1>14 DEF vars
  <1> QED BY <1>1, <1>2, <1>3, <1>4, <1>5, <1>6, <1>7, <1>8, <1>9, <1>10, <1>11, <1>12, <1>13, <1>14
          DEF Next, Request, Progress, deleteTenantAPIKey

(* So what vouches for a tenant vouches for it ever after. *)
LEMMA VouchedForEver ==
  ASSUME TenancyInv, [Next]_vars, NEW cred, NEW t \in TenantIds, VouchedFor(cred, t)
  PROVE  VouchedFor(cred, t)'
  BY NothingTakenBack, TenancyConstants DEF TenancyInv, TypeOK, Kept, VouchedFor, Creds

LEMMA KeysStep ==
  ASSUME TenancyInv, [Next]_vars
  PROVE  KeyInv'
  <1> USE TenancyConstants DEF TenancyInv, TypeOK, KeyInv, CallInv, db
  <1>1. ASSUME NEW c \in Calls, CreateTenantWithAPIKey(c)
        PROVE  KeyInv'
    BY <1>1 DEF CreateTenantWithAPIKey, Become, Quiet
  <1>2. ASSUME NEW c \in Calls, TellKey(c)
        PROVE  KeyInv'
    BY <1>2 DEF TellKey, Done, Become, Quiet
  <1>3. ASSUME NEW c \in Calls, NEW t \in TenantIds, LoginRefused(c, t)
        PROVE  KeyInv'
    BY <1>3 DEF LoginRefused, TryAudit, Quiet
  <1>4. ASSUME NEW c \in Calls, NEW u \in Users, LoginAccepted(c, u)
        PROVE  KeyInv'
    BY <1>4 DEF LoginAccepted, Become, Quiet
  <1>5. ASSUME NEW c \in Calls, LoginReply(c)
        PROVE  KeyInv'
    BY <1>5 DEF LoginReply, TryAudit, Done, Become, Quiet
  <1>6. ASSUME NEW u \in Users, Expire(u)
        PROVE  KeyInv'
    BY <1>6 DEF Expire, Quiet
  <1>7. ASSUME NEW c \in Calls, NEW route \in KeyRoutes \cup MeRoutes,
               NEW cred \in known \cup Tokens \cup BadCreds, Authenticate(c, route, cred)
        PROVE  KeyInv'
    BY <1>7 DEF Authenticate, Become, Quiet
  <1>8. ASSUME NEW c \in Calls, NEW route \in KeyRoutes \cup MeRoutes,
               NEW cred \in known \cup Tokens \cup BadCreds, Refuse(c, route, cred)
        PROVE  KeyInv'
    BY <1>8 DEF Refuse, TryAudit, Quiet
  <1>9. ASSUME NEW c \in Calls, Act(c)
        PROVE  KeyInv'
    BY <1>9 DEF Act, Handling, Acted, Done, Become
  <1>10. ASSUME NEW c \in Calls, postDashboardUser(c)
        PROVE  KeyInv'
    BY <1>10 DEF postDashboardUser, Handling, Acted, Quiet, TryAudit, Done, Become
  <1>11. ASSUME NEW c \in Calls, RevokeUpdate(c)
        PROVE  KeyInv'
    BY <1>11 DEF RevokeUpdate, Handling, Goto, Done, Become, Quiet
  <1>12. ASSUME NEW c \in Calls, RevokeCommit(c)
        PROVE  KeyInv'
    BY <1>12 DEF RevokeCommit, Acted, Done, Become
  <1>13. ASSUME NEW c \in Calls, Abort(c)
        PROVE  KeyInv'
    BY <1>13 DEF Abort, Done, Become, Quiet
  <1>14. CASE UNCHANGED vars
    BY <1>14 DEF vars
  <1> QED BY <1>1, <1>2, <1>3, <1>4, <1>5, <1>6, <1>7, <1>8, <1>9, <1>10, <1>11, <1>12, <1>13, <1>14
          DEF Next, Request, Progress, deleteTenantAPIKey

(* Only postDashboardUser adds users, and only users get tokens. *)
LEMMA WhoAddsUsers ==
  ASSUME TenancyInv, [Next]_vars
  PROVE  /\ tokens' \subseteq users'
         /\ users' # users => \E d \in Calls : postDashboardUser(d)
  <1> USE DEF TenancyInv, TypeOK, UserInv, CallInv, db
  <1>1. ASSUME NEW c \in Calls, CreateTenantWithAPIKey(c)
        PROVE  /\ tokens' \subseteq users'
               /\ users' # users => \E d \in Calls : postDashboardUser(d)
    BY <1>1 DEF CreateTenantWithAPIKey, Become, Quiet
  <1>2. ASSUME NEW c \in Calls, TellKey(c)
        PROVE  /\ tokens' \subseteq users'
               /\ users' # users => \E d \in Calls : postDashboardUser(d)
    BY <1>2 DEF TellKey, Done, Become, Quiet
  <1>3. ASSUME NEW c \in Calls, NEW t \in TenantIds, LoginRefused(c, t)
        PROVE  /\ tokens' \subseteq users'
               /\ users' # users => \E d \in Calls : postDashboardUser(d)
    BY <1>3 DEF LoginRefused, TryAudit, Quiet
  <1>4. ASSUME NEW c \in Calls, NEW u \in Users, LoginAccepted(c, u)
        PROVE  /\ tokens' \subseteq users'
               /\ users' # users => \E d \in Calls : postDashboardUser(d)
    BY <1>4 DEF LoginAccepted, Become, Quiet
  <1>5. ASSUME NEW c \in Calls, LoginReply(c)
        PROVE  /\ tokens' \subseteq users'
               /\ users' # users => \E d \in Calls : postDashboardUser(d)
    BY <1>5 DEF LoginReply, TryAudit, Done, Become, Quiet
  <1>6. ASSUME NEW u \in Users, Expire(u)
        PROVE  /\ tokens' \subseteq users'
               /\ users' # users => \E d \in Calls : postDashboardUser(d)
    BY <1>6 DEF Expire, Quiet
  <1>7. ASSUME NEW c \in Calls, NEW route \in KeyRoutes \cup MeRoutes,
               NEW cred \in known \cup Tokens \cup BadCreds, Authenticate(c, route, cred)
        PROVE  /\ tokens' \subseteq users'
               /\ users' # users => \E d \in Calls : postDashboardUser(d)
    BY <1>7 DEF Authenticate, Become, Quiet
  <1>8. ASSUME NEW c \in Calls, NEW route \in KeyRoutes \cup MeRoutes,
               NEW cred \in known \cup Tokens \cup BadCreds, Refuse(c, route, cred)
        PROVE  /\ tokens' \subseteq users'
               /\ users' # users => \E d \in Calls : postDashboardUser(d)
    BY <1>8 DEF Refuse, TryAudit, Quiet
  <1>9. ASSUME NEW c \in Calls, Act(c)
        PROVE  /\ tokens' \subseteq users'
               /\ users' # users => \E d \in Calls : postDashboardUser(d)
    BY <1>9 DEF Act, Handling, Acted, Done, Become
  <1>10. ASSUME NEW c \in Calls, postDashboardUser(c)
        PROVE  /\ tokens' \subseteq users'
               /\ users' # users => \E d \in Calls : postDashboardUser(d)
    BY <1>10 DEF postDashboardUser, Handling, Acted, Quiet, TryAudit, Done, Become
  <1>11. ASSUME NEW c \in Calls, RevokeUpdate(c)
        PROVE  /\ tokens' \subseteq users'
               /\ users' # users => \E d \in Calls : postDashboardUser(d)
    BY <1>11 DEF RevokeUpdate, Handling, Goto, Done, Become, Quiet
  <1>12. ASSUME NEW c \in Calls, RevokeCommit(c)
        PROVE  /\ tokens' \subseteq users'
               /\ users' # users => \E d \in Calls : postDashboardUser(d)
    BY <1>12 DEF RevokeCommit, Acted, Done, Become
  <1>13. ASSUME NEW c \in Calls, Abort(c)
        PROVE  /\ tokens' \subseteq users'
               /\ users' # users => \E d \in Calls : postDashboardUser(d)
    BY <1>13 DEF Abort, Done, Become, Quiet
  <1>14. CASE UNCHANGED vars
    BY <1>14 DEF vars
  <1> QED BY <1>1, <1>2, <1>3, <1>4, <1>5, <1>6, <1>7, <1>8, <1>9, <1>10, <1>11, <1>12, <1>13, <1>14
          DEF Next, Request, Progress, deleteTenantAPIKey

LEMMA UsersStep ==
  ASSUME TenancyInv, [Next]_vars
  PROVE  UserInv'
  <1>1. ASSUME NEW u \in users
        PROVE  VouchedFor(u, u[1])'
    BY VouchedForEver DEF TenancyInv, TypeOK, UserInv, Users
  <1>2. ASSUME NEW c \in Calls, postDashboardUser(c), NEW u \in users', u \notin users
        PROVE  VouchedFor(u, u[1])'
    <2>1. /\ call[c].stage = "handle" /\ call[c].cred \in KeyIds
          /\ u = <<call[c].tenant, call[c].target[2]>>
          /\ madeBy' = [madeBy EXCEPT ![u] = call[c].cred]
          /\ UNCHANGED <<keyOwner, known>>
      BY <1>2 DEF postDashboardUser, Handling
    <2>2. /\ call[c].cred \in known /\ keyOwner[call[c].cred] = call[c].tenant
          /\ call[c].tenant = u[1]
      BY <2>1, TenancyConstants
      DEF TenancyInv, TypeOK, CallInv, LetIn, VouchedFor, Tokens
    <2>3. u \in Users /\ madeBy \in [Users -> Creds \cup {NoCred}]
      BY <1>2, TypesStep DEF TypeOK, TenancyInv
    <2> QED BY <1>2, <2>1, <2>2, <2>3 DEF VouchedFor
  <1> QED BY <1>1, <1>2, WhoAddsUsers DEF UserInv

(* What a request was let in on still holds at its next step. *)
LEMMA KeptCall ==
  ASSUME TenancyInv, [Next]_vars, NEW d \in Calls, call'[d] = call[d],
         call[d].stage = "revoking" => call[d].target \notin revoked'
  PROVE  CallInv(d)'
  <1>1. ASSUME LetIn(call[d])
        PROVE  LetIn(call[d])'
    <2>1. VouchedFor(call[d].cred, call[d].tenant)'
      BY <1>1, VouchedForEver DEF LetIn, VouchedFor, TenancyInv, TypeOK
    <2> QED BY <1>1, <2>1, NothingTakenBack DEF LetIn, Kept, Targets
  <1>2. ASSUME call[d].stage = "revoking"
        PROVE  keyOwner'[call[d].target] = call[d].tenant
    <2>1. /\ call[d].target \in KeyIds /\ call[d].tenant \in TenantIds
          /\ keyOwner[call[d].target] = call[d].tenant
      BY <1>2 DEF TenancyInv, TypeOK, CallInv, LetIn, Targets
    <2> QED BY <2>1, NothingTakenBack, TenancyConstants DEF Kept
  <1> QED BY <1>1, <1>2, NothingTakenBack DEF TenancyInv, CallInv, Kept

LEMMA QuietCall ==
  ASSUME TenancyInv, [Next]_vars, NEW d \in Calls, revoked' = revoked,
         call'[d] = call[d] \/ call'[d] = Idle
  PROVE  CallInv(d)'
  <1>1. CASE call'[d] = call[d]
    BY <1>1, KeptCall DEF TenancyInv, CallInv
  <1>2. CASE call'[d] = Idle
    BY <1>2 DEF CallInv, Idle
  <1> QED BY <1>1, <1>2

LEMMA CallsStep ==
  ASSUME TenancyInv, [Next]_vars, NEW d \in Calls
  PROVE  CallInv(d)'
  <1> USE DEF TenancyInv
  <1>1. ASSUME NEW c \in Calls, CreateTenantWithAPIKey(c)
        PROVE  CallInv(d)'
    <2>1. CASE d # c
      BY <1>1, <2>1, QuietCall DEF CreateTenantWithAPIKey, Become, TypeOK
    <2>2. CASE d = c
      BY <1>1, <2>2, TenancyConstants DEF CreateTenantWithAPIKey, Become, Idle, CallInv, TypeOK
    <2> QED BY <2>1, <2>2
  <1>2. ASSUME NEW c \in Calls, TellKey(c)
        PROVE  CallInv(d)'
    BY <1>2, QuietCall DEF TellKey, Done, Become, Quiet, TypeOK, db
  <1>3. ASSUME NEW c \in Calls, NEW t \in TenantIds, LoginRefused(c, t)
        PROVE  CallInv(d)'
    BY <1>3, QuietCall DEF LoginRefused, TryAudit, Quiet, TypeOK, db
  <1>4. ASSUME NEW c \in Calls, NEW u \in Users, LoginAccepted(c, u)
        PROVE  CallInv(d)'
    <2>1. CASE d # c
      BY <1>4, <2>1, QuietCall DEF LoginAccepted, Become, TypeOK, db
    <2>2. CASE d = c
      BY <1>4, <2>2 DEF LoginAccepted, Become, Idle, CallInv, TypeOK, db
    <2> QED BY <2>1, <2>2
  <1>5. ASSUME NEW c \in Calls, LoginReply(c)
        PROVE  CallInv(d)'
    BY <1>5, QuietCall DEF LoginReply, TryAudit, Done, Become, Quiet, TypeOK, db
  <1>6. ASSUME NEW u \in Users, Expire(u)
        PROVE  CallInv(d)'
    BY <1>6, QuietCall DEF Expire, Quiet, TypeOK, db
  <1>7. ASSUME NEW c \in Calls, NEW route \in KeyRoutes \cup MeRoutes,
               NEW cred \in known \cup Tokens \cup BadCreds, Authenticate(c, route, cred)
        PROVE  CallInv(d)'
    <2>1. CASE d # c
      BY <1>7, <2>1, QuietCall DEF Authenticate, Become, TypeOK, db
    <2>2. CASE d = c
      <3> DEFINE t == TenantID(route, cred)
      <3>1. /\ UNCHANGED <<db, known, madeBy>>
            /\ call'[d].stage = "handle" /\ call'[d].route = route
            /\ call'[d].cred = cred /\ call'[d].tenant = t
            /\ call'[d].target \in Targets(route)
        BY <1>7, <2>2 DEF Authenticate, Become, Quiet, TypeOK
      <3>2. t # NoTenant
        BY <1>7 DEF Authenticate
      <3>3. CASE cred \in KeyIds
        <4>1. t = keyOwner[cred] /\ cred \in known
          BY <3>2, <3>3, TenancyConstants DEF TenantID, Tokens, TypeOK
        <4>2. t \in tenants
          BY <3>2, <3>3, <4>1 DEF KeyInv
        <4> QED BY <3>1, <3>3, <4>1, <4>2 DEF CallInv, LetIn, VouchedFor, db, Targets
      <3>4. CASE cred \notin KeyIds
        <4>1. t = cred[1] /\ cred \in users /\ route \in MeRoutes
          BY <3>2, <3>4 DEF TenantID, UserInv
        <4>2. VouchedFor(cred, t) /\ t \in tenants
          BY <3>2, <4>1, <3>4 DEF UserInv, KeyInv, VouchedFor, TypeOK
        <4>3. route \notin KeyRoutes
          BY <4>1 DEF MeRoutes, KeyRoutes
        <4> QED BY <3>1, <4>2, <4>3 DEF CallInv, LetIn, VouchedFor, db, Targets
      <3> QED BY <3>3, <3>4
    <2> QED BY <2>1, <2>2
  <1>8. ASSUME NEW c \in Calls, NEW route \in KeyRoutes \cup MeRoutes,
               NEW cred \in known \cup Tokens \cup BadCreds, Refuse(c, route, cred)
        PROVE  CallInv(d)'
    BY <1>8, QuietCall DEF Refuse, TryAudit, Quiet, TypeOK, db
  <1>9. ASSUME NEW c \in Calls, Act(c)
        PROVE  CallInv(d)'
    BY <1>9, QuietCall DEF Act, Handling, Acted, Done, Become, TypeOK, db
  <1>10. ASSUME NEW c \in Calls, postDashboardUser(c)
        PROVE  CallInv(d)'
    BY <1>10, QuietCall DEF postDashboardUser, Handling, Acted, Quiet, TryAudit, Done, Become, TypeOK, db
  <1>11. ASSUME NEW c \in Calls, RevokeUpdate(c)
        PROVE  CallInv(d)'
    <2>1. CASE d # c
      BY <1>11, <2>1, QuietCall DEF RevokeUpdate, Goto, Done, Become, TypeOK, db
    <2>2. CASE d = c
      <3>1. CASE call'[d].stage = "idle"
        BY <3>1 DEF CallInv
      <3>2. CASE call'[d].stage # "idle"
        <4>1. /\ call'[d] = [call[d] EXCEPT !.stage = "revoking"]
              /\ call[d].target \notin revoked
              /\ keyOwner[call[d].target] = call[d].tenant
          BY <1>11, <2>2, <3>2 DEF RevokeUpdate, Goto, Done, Become, Idle, TypeOK
        <4>2. LetIn(call[d]) /\ call[d].route = "revoke"
          BY <1>11, <2>2 DEF RevokeUpdate, Handling, CallInv
        <4>3. /\ call'[d].cred = call[d].cred /\ call'[d].tenant = call[d].tenant
              /\ call'[d].route = "revoke" /\ call'[d].target = call[d].target
              /\ call'[d].stage = "revoking" /\ UNCHANGED <<db, known, madeBy>>
          BY <1>11, <4>1, <4>2 DEF RevokeUpdate, Quiet, TypeOK
        <4> QED BY <4>1, <4>2, <4>3 DEF CallInv, LetIn, VouchedFor, Targets, db
      <3> QED BY <3>1, <3>2
    <2> QED BY <2>1, <2>2
  <1>12. ASSUME NEW c \in Calls, RevokeCommit(c)
        PROVE  CallInv(d)'
    <2>1. CASE d # c
      <3>1. call'[d] = call[d] /\ revoked' = revoked \cup {call[c].target}
        BY <1>12, <2>1 DEF RevokeCommit, Done, Become, TypeOK
      <3>2. call[d].stage = "revoking" => call[d].target \notin revoked'
        BY <1>12, <2>1, <3>1 DEF RevokeCommit, RowLock, CallInv
      <3> QED BY <3>1, <3>2, KeptCall
    <2>2. CASE d = c
      BY <1>12, <2>2 DEF RevokeCommit, Done, Become, Idle, CallInv, TypeOK
    <2> QED BY <2>1, <2>2
  <1>13. ASSUME NEW c \in Calls, Abort(c)
        PROVE  CallInv(d)'
    BY <1>13, QuietCall DEF Abort, Done, Become, Quiet, TypeOK, db
  <1>14. CASE UNCHANGED vars
    BY <1>14, QuietCall DEF vars, db
  <1> QED BY <1>1, <1>2, <1>3, <1>4, <1>5, <1>6, <1>7, <1>8, <1>9, <1>10, <1>11, <1>12, <1>13, <1>14
          DEF Next, Request, Progress, deleteTenantAPIKey

LEMMA LockStep ==
  ASSUME TenancyInv, [Next]_vars
  PROVE  RowLock'
  <1> USE DEF TenancyInv, TypeOK, RowLock, Idle, db
  <1>1. ASSUME NEW c \in Calls, CreateTenantWithAPIKey(c)
        PROVE  RowLock'
    BY <1>1 DEF CreateTenantWithAPIKey, Become, Quiet
  <1>2. ASSUME NEW c \in Calls, TellKey(c)
        PROVE  RowLock'
    BY <1>2 DEF TellKey, Done, Become, Quiet
  <1>3. ASSUME NEW c \in Calls, NEW t \in TenantIds, LoginRefused(c, t)
        PROVE  RowLock'
    BY <1>3 DEF LoginRefused, TryAudit, Quiet
  <1>4. ASSUME NEW c \in Calls, NEW u \in Users, LoginAccepted(c, u)
        PROVE  RowLock'
    BY <1>4 DEF LoginAccepted, Become, Quiet
  <1>5. ASSUME NEW c \in Calls, LoginReply(c)
        PROVE  RowLock'
    BY <1>5 DEF LoginReply, TryAudit, Done, Become, Quiet
  <1>6. ASSUME NEW u \in Users, Expire(u)
        PROVE  RowLock'
    BY <1>6 DEF Expire, Quiet
  <1>7. ASSUME NEW c \in Calls, NEW route \in KeyRoutes \cup MeRoutes,
               NEW cred \in known \cup Tokens \cup BadCreds, Authenticate(c, route, cred)
        PROVE  RowLock'
    BY <1>7 DEF Authenticate, Become
  <1>8. ASSUME NEW c \in Calls, NEW route \in KeyRoutes \cup MeRoutes,
               NEW cred \in known \cup Tokens \cup BadCreds, Refuse(c, route, cred)
        PROVE  RowLock'
    BY <1>8 DEF Refuse, TryAudit, Quiet
  <1>9. ASSUME NEW c \in Calls, Act(c)
        PROVE  RowLock'
    BY <1>9 DEF Act, Handling, Acted, Done, Become
  <1>10. ASSUME NEW c \in Calls, postDashboardUser(c)
        PROVE  RowLock'
    BY <1>10 DEF postDashboardUser, Handling, Acted, Quiet, TryAudit, Done, Become
  <1>11. ASSUME NEW c \in Calls, RevokeUpdate(c)
        PROVE  RowLock'
    BY <1>11 DEF RevokeUpdate, Unlocked, Handling, Goto, Done, Become
  <1>12. ASSUME NEW c \in Calls, RevokeCommit(c)
        PROVE  RowLock'
    BY <1>12 DEF RevokeCommit, Acted, Done, Become
  <1>13. ASSUME NEW c \in Calls, Abort(c)
        PROVE  RowLock'
    BY <1>13 DEF Abort, Done, Become, Quiet
  <1>14. CASE UNCHANGED vars
    BY <1>14 DEF vars
  <1> QED BY <1>1, <1>2, <1>3, <1>4, <1>5, <1>6, <1>7, <1>8, <1>9, <1>10, <1>11, <1>12, <1>13, <1>14
          DEF Next, Request, Progress, deleteTenantAPIKey

(* An effect is a let-in request's, with its tenant and credential. *)
LEMMA WhoActs ==
  ASSUME TenancyInv, [Next]_vars
  PROVE  \/ effect' = NoEffect \/ effect' = effect
               \/ \E d \in Calls : Acted(d, call[d].tenant) /\ LetIn(call[d])
  <1> USE DEF TenancyInv, CallInv
  <1>1. ASSUME NEW c \in Calls, CreateTenantWithAPIKey(c)
        PROVE  \/ effect' = NoEffect \/ effect' = effect
               \/ \E d \in Calls : Acted(d, call[d].tenant) /\ LetIn(call[d])
    BY <1>1 DEF CreateTenantWithAPIKey, Become, Quiet
  <1>2. ASSUME NEW c \in Calls, TellKey(c)
        PROVE  \/ effect' = NoEffect \/ effect' = effect
               \/ \E d \in Calls : Acted(d, call[d].tenant) /\ LetIn(call[d])
    BY <1>2 DEF TellKey, Done, Become, Quiet
  <1>3. ASSUME NEW c \in Calls, NEW t \in TenantIds, LoginRefused(c, t)
        PROVE  \/ effect' = NoEffect \/ effect' = effect
               \/ \E d \in Calls : Acted(d, call[d].tenant) /\ LetIn(call[d])
    BY <1>3 DEF LoginRefused, TryAudit, Quiet
  <1>4. ASSUME NEW c \in Calls, NEW u \in Users, LoginAccepted(c, u)
        PROVE  \/ effect' = NoEffect \/ effect' = effect
               \/ \E d \in Calls : Acted(d, call[d].tenant) /\ LetIn(call[d])
    BY <1>4 DEF LoginAccepted, Become, Quiet
  <1>5. ASSUME NEW c \in Calls, LoginReply(c)
        PROVE  \/ effect' = NoEffect \/ effect' = effect
               \/ \E d \in Calls : Acted(d, call[d].tenant) /\ LetIn(call[d])
    BY <1>5 DEF LoginReply, TryAudit, Done, Become, Quiet
  <1>6. ASSUME NEW u \in Users, Expire(u)
        PROVE  \/ effect' = NoEffect \/ effect' = effect
               \/ \E d \in Calls : Acted(d, call[d].tenant) /\ LetIn(call[d])
    BY <1>6 DEF Expire, Quiet
  <1>7. ASSUME NEW c \in Calls, NEW route \in KeyRoutes \cup MeRoutes,
               NEW cred \in known \cup Tokens \cup BadCreds, Authenticate(c, route, cred)
        PROVE  \/ effect' = NoEffect \/ effect' = effect
               \/ \E d \in Calls : Acted(d, call[d].tenant) /\ LetIn(call[d])
    BY <1>7 DEF Authenticate, Become, Quiet
  <1>8. ASSUME NEW c \in Calls, NEW route \in KeyRoutes \cup MeRoutes,
               NEW cred \in known \cup Tokens \cup BadCreds, Refuse(c, route, cred)
        PROVE  \/ effect' = NoEffect \/ effect' = effect
               \/ \E d \in Calls : Acted(d, call[d].tenant) /\ LetIn(call[d])
    BY <1>8 DEF Refuse, TryAudit, Quiet
  <1>9. ASSUME NEW c \in Calls, Act(c)
        PROVE  \/ effect' = NoEffect \/ effect' = effect
               \/ \E d \in Calls : Acted(d, call[d].tenant) /\ LetIn(call[d])
    BY <1>9 DEF Act, Handling
  <1>10. ASSUME NEW c \in Calls, postDashboardUser(c)
        PROVE  \/ effect' = NoEffect \/ effect' = effect
               \/ \E d \in Calls : Acted(d, call[d].tenant) /\ LetIn(call[d])
    BY <1>10 DEF postDashboardUser, Handling, Quiet
  <1>11. ASSUME NEW c \in Calls, RevokeUpdate(c)
        PROVE  \/ effect' = NoEffect \/ effect' = effect
               \/ \E d \in Calls : Acted(d, call[d].tenant) /\ LetIn(call[d])
    BY <1>11 DEF RevokeUpdate, Handling, Goto, Done, Become, Quiet
  <1>12. ASSUME NEW c \in Calls, RevokeCommit(c)
        PROVE  \/ effect' = NoEffect \/ effect' = effect
               \/ \E d \in Calls : Acted(d, call[d].tenant) /\ LetIn(call[d])
    BY <1>12 DEF RevokeCommit
  <1>13. ASSUME NEW c \in Calls, Abort(c)
        PROVE  \/ effect' = NoEffect \/ effect' = effect
               \/ \E d \in Calls : Acted(d, call[d].tenant) /\ LetIn(call[d])
    BY <1>13 DEF Abort, Done, Become, Quiet
  <1>14. CASE UNCHANGED vars
    BY <1>14 DEF vars
  <1> QED BY <1>1, <1>2, <1>3, <1>4, <1>5, <1>6, <1>7, <1>8, <1>9, <1>10, <1>11, <1>12, <1>13, <1>14
          DEF Next, Request, Progress, deleteTenantAPIKey

LEMMA EffectStep ==
  ASSUME TenancyInv, [Next]_vars
  PROVE  EffectsTraceBack'
  <1>1. CASE effect' = NoEffect
    BY <1>1 DEF EffectsTraceBack
  <1>2. CASE effect' = effect /\ effect # NoEffect
    <2>1. VouchedFor(effect.cred, effect.tenant)
      BY <1>2 DEF TenancyInv, EffectsTraceBack
    <2>2. effect.tenant \in TenantIds
      <3>1. CASE effect.cred \in known /\ keyOwner[effect.cred] = effect.tenant
        BY <3>1 DEF TenancyInv, TypeOK, KeyInv
      <3>2. CASE effect.cred \in users /\ effect.cred[1] = effect.tenant
        BY <3>2 DEF TenancyInv, TypeOK, Users
      <3> QED BY <2>1, <3>1, <3>2 DEF VouchedFor
    <2>3. VouchedFor(effect.cred, effect.tenant)'
      BY <1>2, <2>1, <2>2, VouchedForEver DEF VouchedFor
    <2> QED BY <1>2, <2>3 DEF TenancyInv, EffectsTraceBack
  <1>3. ASSUME NEW d \in Calls, Acted(d, call[d].tenant), LetIn(call[d])
        PROVE  EffectsTraceBack'
    <2>1. /\ effect'.route = call[d].route /\ effect'.tenant = call[d].tenant
          /\ effect'.cred = call[d].cred
      BY <1>3 DEF Acted
    <2>2. call[d].tenant \in TenantIds /\ VouchedFor(call[d].cred, call[d].tenant)
      BY <1>3 DEF LetIn, TenancyInv, TypeOK
    <2>3. VouchedFor(effect.cred, effect.tenant)'
      BY <2>1, <2>2, VouchedForEver DEF VouchedFor
    <2> QED BY <1>3, <2>1, <2>3 DEF EffectsTraceBack, LetIn
  <1> QED BY <1>1, <1>2, <1>3, WhoActs

LEMMA OnceStep ==
  ASSUME TenancyInv, [Next]_vars
  PROVE  RevokedOnce'
  <1> USE DEF TenancyInv, TypeOK, RevokedOnce, db
  <1>1. ASSUME NEW c \in Calls, CreateTenantWithAPIKey(c)
        PROVE  RevokedOnce'
    BY <1>1 DEF CreateTenantWithAPIKey, Become, Quiet
  <1>2. ASSUME NEW c \in Calls, TellKey(c)
        PROVE  RevokedOnce'
    BY <1>2 DEF TellKey, Done, Become, Quiet
  <1>3. ASSUME NEW c \in Calls, NEW t \in TenantIds, LoginRefused(c, t)
        PROVE  RevokedOnce'
    BY <1>3 DEF LoginRefused, TryAudit, Quiet
  <1>4. ASSUME NEW c \in Calls, NEW u \in Users, LoginAccepted(c, u)
        PROVE  RevokedOnce'
    BY <1>4 DEF LoginAccepted, Become, Quiet
  <1>5. ASSUME NEW c \in Calls, LoginReply(c)
        PROVE  RevokedOnce'
    BY <1>5 DEF LoginReply, TryAudit, Done, Become, Quiet
  <1>6. ASSUME NEW u \in Users, Expire(u)
        PROVE  RevokedOnce'
    BY <1>6 DEF Expire, Quiet
  <1>7. ASSUME NEW c \in Calls, NEW route \in KeyRoutes \cup MeRoutes,
               NEW cred \in known \cup Tokens \cup BadCreds, Authenticate(c, route, cred)
        PROVE  RevokedOnce'
    BY <1>7 DEF Authenticate, Become, Quiet
  <1>8. ASSUME NEW c \in Calls, NEW route \in KeyRoutes \cup MeRoutes,
               NEW cred \in known \cup Tokens \cup BadCreds, Refuse(c, route, cred)
        PROVE  RevokedOnce'
    BY <1>8 DEF Refuse, TryAudit, Quiet
  <1>9. ASSUME NEW c \in Calls, Act(c)
        PROVE  RevokedOnce'
    BY <1>9 DEF Act, Handling, Acted, Done, Become
  <1>10. ASSUME NEW c \in Calls, postDashboardUser(c)
        PROVE  RevokedOnce'
    BY <1>10 DEF postDashboardUser, Handling, Acted, Quiet, TryAudit, Done, Become
  <1>11. ASSUME NEW c \in Calls, RevokeUpdate(c)
        PROVE  RevokedOnce'
    BY <1>11 DEF RevokeUpdate, Handling, Goto, Done, Become, Quiet
  <1>12. ASSUME NEW c \in Calls, RevokeCommit(c)
        PROVE  RevokedOnce'
    <2>1. call[c].target \in KeyIds /\ call[c].target \notin revoked
      BY <1>12 DEF RevokeCommit, CallInv, LetIn, Targets
    <2> QED BY <1>12, <2>1 DEF RevokeCommit
  <1>13. ASSUME NEW c \in Calls, Abort(c)
        PROVE  RevokedOnce'
    BY <1>13 DEF Abort, Done, Become, Quiet
  <1>14. CASE UNCHANGED vars
    BY <1>14 DEF vars
  <1> QED BY <1>1, <1>2, <1>3, <1>4, <1>5, <1>6, <1>7, <1>8, <1>9, <1>10, <1>11, <1>12, <1>13, <1>14
          DEF Next, Request, Progress, deleteTenantAPIKey

-----------------------------------------------------------------------------
(* The inductive invariant holds however requests interleave or abort. *)
THEOREM TenancyInvariant == Spec => []TenancyInv
  <1>1. TenancyInv /\ [Next]_vars => TenancyInv'
    BY TypesStep, KeysStep, UsersStep, CallsStep, LockStep, EffectStep, OnceStep
    DEF TenancyInv
  <1> QED BY <1>1, TenancyStart, PTL DEF Spec

(* Every variable keeps its type; the audit log only names tenants that    *)
(* exist, or none.                                                         *)
THEOREM TenancyTypes == Spec => []TypeOK
  <1>1. TenancyInv => TypeOK
    BY DEF TenancyInv
  <1> QED BY <1>1, TenancyInvariant, PTL

(* Whatever is done for a tenant goes back to that tenant's own            *)
(* onboarding, and payments, refunds and users take a key.                 *)
THEOREM NoCrossTenantEffect == Spec => []EffectsTraceBack
  <1>1. TenancyInv => EffectsTraceBack
    BY DEF TenancyInv
  <1> QED BY <1>1, TenancyInvariant, PTL

(* However many calls revoke a key at once, one of them does, and the      *)
(* audit log says so once.                                                 *)
THEOREM KeysRevokedOnce == Spec => []RevokedOnce
  <1>1. TenancyInv => RevokedOnce
    BY DEF TenancyInv
  <1> QED BY <1>1, TenancyInvariant, PTL
=============================================================================
