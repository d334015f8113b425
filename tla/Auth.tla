-------------------------------- MODULE Auth --------------------------------
(***************************************************************************)
(* API keys (internal/store/keys.go) and the middleware that admits a      *)
(* request on /api and says which tenant it acts for (internal/api/auth.go *)
(* APIKeyAuth).  The middleware asks the database up to two questions, and *)
(* keys are issued and revoked between them.                               *)
(***************************************************************************)
EXTENDS Naturals

CONSTANTS
  Clients,      \* callers of the API, each with one request at a time
  Configured,   \* the values of CONDUIT_API_KEYS to consider
  Issued,       \* keys `conduit keys` may mint
  KeyTenant,    \* the tenant each of them is minted for
  Default,      \* models.DefaultTenant
  NoKey         \* no bearer token in the request

ActsFor == {Default} \cup {KeyTenant[k] : k \in Issued}

Presentable == (UNION Configured) \cup Issued \cup {NoKey}

ASSUME AuthAssumption ==
  /\ NoKey \notin Issued /\ NoKey \notin (UNION Configured)
  /\ \A S \in Configured : S \cap Issued = {}

VARIABLES
  static,   \* the instance's CONDUIT_API_KEYS
  keys,     \* the api_keys table
  req       \* the request of each client

authVars == <<static, keys, req>>

\* "lookup" waits for TenantForKey, "open" for HasActiveKeys; "in" is a request
\* the handler has.  History: guarded, some issued key has been live all through
\* the request; late, the presented key was revoked before it.
Request == [pc      : {"idle", "lookup", "open", "in"},
            key     : Presentable,
            tenant  : ActsFor,
            guarded : BOOLEAN,
            late    : BOOLEAN]

NoRequest == [pc |-> "idle", key |-> NoKey, tenant |-> Default,
              guarded |-> FALSE, late |-> FALSE]

AuthTypeOK ==
  /\ static \in Configured
  /\ keys \in [Issued -> {"unissued", "live", "revoked"}]
  /\ req \in [Clients -> Request]

AuthInit ==
  /\ static \in Configured
  /\ keys = [k \in Issued |-> "unissued"]
  /\ req = [c \in Clients |-> NoRequest]

-----------------------------------------------------------------------------
Live(k) == k \in Issued /\ keys[k] = "live"

HasActiveKeys == \E k \in Issued : Live(k)

CreateKey(k) ==
  /\ keys[k] = "unissued"
  /\ keys' = [keys EXCEPT ![k] = "live"]
  /\ UNCHANGED <<static, req>>

RevokeKey(k) ==
  /\ Live(k)
  /\ keys' = [keys EXCEPT ![k] = "revoked"]
  /\ req' = [c \in Clients |-> [req[c] EXCEPT !.guarded = @ /\ HasActiveKeys']]
  /\ UNCHANGED static

Enter(c, t) == req' = [req EXCEPT ![c].pc = "in", ![c].tenant = t]

\* The middleware or the handler answers.
Respond(c) == req' = [req EXCEPT ![c] = NoRequest]

\* A request arrives.  A configured key needs no database.
Present(c, k) ==
  /\ req[c].pc = "idle"
  /\ req' = [req EXCEPT ![c] =
       [pc |-> CASE k \in static -> "in" [] k = NoKey -> "open" [] OTHER -> "lookup",
        key |-> k, tenant |-> Default, guarded |-> HasActiveKeys,
        late |-> k \in Issued /\ keys[k] = "revoked"]]
  /\ UNCHANGED <<static, keys>>

\* Mutant: a revoked key is still found.
FindsIssued(k) == k \in Issued /\ keys[k] # "unissued"

\* TenantForKey's WHERE clause.
Finds(k) == Live(k)

TenantForKey(c) ==
  /\ req[c].pc = "lookup"
  /\ IF Finds(req[c].key)
     THEN Enter(c, KeyTenant[req[c].key])
     ELSE req' = [req EXCEPT ![c].pc = "open"]
  /\ UNCHANGED <<static, keys>>

\* An instance with no configured key and no live issued one is open.
Open(c) ==
  /\ req[c].pc = "open"
  /\ IF static = {} /\ ~HasActiveKeys THEN Enter(c, Default) ELSE Respond(c)
  /\ UNCHANGED <<static, keys>>

\* Either question fails: 500.
CheckFails(c) ==
  /\ req[c].pc = "lookup" \/ (req[c].pc = "open" /\ static = {})
  /\ Respond(c)
  /\ UNCHANGED <<static, keys>>

\* The handler is done, in whatever way JobAPI and JobList say.
Handled(c) ==
  /\ req[c].pc = "in"
  /\ Respond(c)
  /\ UNCHANGED <<static, keys>>

AuthStep ==
  \/ \E k \in Issued : CreateKey(k) \/ RevokeKey(k)
  \/ \E c \in Clients :
       \/ \E k \in Presentable : Present(c, k)
       \/ TenantForKey(c) \/ Open(c) \/ CheckFails(c) \/ Handled(c)

AuthSpec == AuthInit /\ [][AuthStep]_authVars

-----------------------------------------------------------------------------
\* A request is admitted for a tenant only with a configured key, with a key of
\* that tenant that was not revoked when it arrived, or, for the default tenant,
\* on an instance that had neither kind of key at some moment of the request.
\* Keys issued and revoked between the two questions do not open another way in.
AdmittedRightly ==
  \A c \in Clients : req[c].pc = "in" =>
    \/ req[c].key \in static /\ req[c].tenant = Default
    \/ req[c].key \in Issued /\ req[c].tenant = KeyTenant[req[c].key] /\ ~req[c].late
    \/ static = {} /\ req[c].tenant = Default /\ ~req[c].guarded
=============================================================================
