------------------------------- MODULE Access -------------------------------
(***************************************************************************)
(* Who may call a procedure, and in which tenant's database it then works: *)
(* the interceptors of pkg/security/validation and pkg/tenant in the chain *)
(* of pkg/http/connect/interceptor, and the headers a service sends on.    *)
(*                                                                         *)
(* An interceptor sees in its context what the interceptors before it in   *)
(* the chain have put there.  A request is handled when none of them       *)
(* returns an error or panics.                                             *)
(***************************************************************************)
EXTENDS Integers

CONSTANTS
    Tenants,    \* tenant slugs
    NoTenant    \* an empty slug, and the tenant of a token that has none

ASSUME AccessAssumption == NoTenant \notin Tenants

Slugs == Tenants \cup {NoTenant}

CrossTenant == "cross-tenant"
OIDCScopes == {"openid", "profile", "email", "offline_access", "all"}

\* What the scope claim of a token may hold.
Scopes == {CrossTenant, "write"} \cup OIDCScopes

\* A bearer token: whether its signature, issuer, audience, expiry and subject
\* hold, its tenant and its scopes.  No Authorization header is "invalid" too:
\* both end in CodeUnauthenticated.
Tokens == [valid : BOOLEAN, tenant : Slugs, scopes : SUBSET Scopes]

Invalid == [valid |-> FALSE, tenant |-> NoTenant, scopes |-> {}]

\* ProcedurePermissions of the services: nil, no permission in particular, one.
Procedures == {"public", "authenticated", "restricted", "unregistered"}

Requests == [slug : Slugs, token : Tokens, procedure : Procedures]
-----------------------------------------------------------------------------
(* The configuration of the JWKS validation.                               *)

JwksKeys == {"jwks-url", "issuer", "audience"}

\* ApplyDefaults: enabled is "unset", "true" or "false".
AuthEnabled(jwks) ==
    \/ jwks.enabled = "true"
    \/ jwks.enabled = "unset" /\ jwks.keys # {}

JwksValid(jwks) == AuthEnabled(jwks) => jwks.keys = JwksKeys
-----------------------------------------------------------------------------
(* The configuration of a service's own token.                             *)

CredentialKeys == {"client-id", "client-secret", "token-url"}

CredentialsEnabled(c) ==
    \/ c.enabled = "true"
    \/ c.enabled = "unset" /\ (c.keys # {} \/ c.scopes # {})

CredentialsValid(c) == CredentialsEnabled(c) => CredentialKeys \subseteq c.keys

\* ApplyDefaults asks for "openid", which is no permission, when no scope is
\* configured.
RequestedScopes(c) == IF c.scopes = {} THEN {"openid"} ELSE c.scopes

\* What the authorization server gives for client_credentials; without them the
\* clients send no token.
ServiceToken(c) ==
    IF CredentialsEnabled(c)
    THEN [valid |-> TRUE, tenant |-> NoTenant, scopes |-> RequestedScopes(c)]
    ELSE Invalid

\* What the services are configured with: tenancy, validation, credentials.
Services ==
    [tenancy : BOOLEAN,
     jwks : [enabled : {"unset", "true", "false"}, keys : SUBSET JwksKeys],
     credentials : [enabled : {"unset", "true", "false"}, scopes : SUBSET Scopes,
                    keys : SUBSET (CredentialKeys \cup {"resource"})]]
-----------------------------------------------------------------------------
(* The chain.                                                              *)

Interceptors == {"resolver", "auth", "validator"}

AuthLast == [resolver |-> 18, auth |-> 27, validator |-> 26]      \* mutant
Priority == [resolver |-> 18, auth |-> 22, validator |-> 26]

\* A provider of something disabled returns a nil handler, which is left out.
Installed(svc) ==
    {i \in Interceptors : IF i = "auth" THEN AuthEnabled(svc.jwks) ELSE svc.tenancy}

SetBefore(svc, setter, reader) ==
    setter \in Installed(svc) /\ Priority[setter] < Priority[reader]

\* The validator splits the scope claim and leaves out those of OIDC.
Permissions(token) == token.scopes \ OIDCScopes

AuthPasses(r) ==
    \/ r.procedure = "public"
    \/ /\ r.procedure \in {"authenticated", "restricted"}
       /\ r.token.valid
       /\ r.procedure = "restricted" => "write" \in Permissions(r.token)

IsTenantScoped(token) == token.tenant # NoTenant

CanAccessAnyTenant(token) == ~IsTenantScoped(token) /\ CrossTenant \in Permissions(token)

HasClaims(svc, r) == SetBefore(svc, "auth", "validator") /\ r.procedure # "public"
HasSlug(svc, r) == SetBefore(svc, "resolver", "validator") /\ r.slug # NoTenant

AnyService(svc, r) ==                        \* mutant: a token without tenant is enough
    HasClaims(svc, r) => HasSlug(svc, r) /\ r.token.tenant \in {r.slug, NoTenant}

\* A panic of MustSlugFromContext ends in an error like a refusal.
ValidatorPasses(svc, r) ==
    HasClaims(svc, r) =>
        /\ HasSlug(svc, r)
        /\ IsTenantScoped(r.token) => r.token.tenant = r.slug
        /\ ~IsTenantScoped(r.token) => CanAccessAnyTenant(r.token)

Passes(svc, i, r) ==
    CASE i = "resolver" -> r.slug # NoTenant
      [] i = "auth" -> AuthPasses(r)
      [] i = "validator" -> ValidatorPasses(svc, r)

Handled(svc, r) == \A i \in Installed(svc) : Passes(svc, i, r)

\* The slug in the handler's context.
ContextSlug(svc, r) == IF "resolver" \in Installed(svc) THEN r.slug ELSE NoTenant
-----------------------------------------------------------------------------
(* Calls from service to service.                                          *)

\* The client's transports set X-Tenant-Slug from the context, and the token of
\* the service instead of the caller's.
Onward(svc, r, procedure) ==
    [slug |-> ContextSlug(svc, r), token |-> ServiceToken(svc.credentials), procedure |-> procedure]
-----------------------------------------------------------------------------
(* What it is for: the caller's own right to a tenant.                     *)

Entitled(token, tenant) ==
    /\ token.valid
    /\ token.tenant = tenant \/ (token.tenant = NoTenant /\ CrossTenant \in token.scopes)
=============================================================================
