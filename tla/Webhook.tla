------------------------------ MODULE Webhook -------------------------------
(***************************************************************************)
(* The webhook handler (internal/webhook): what it makes of a job and of   *)
(* the answer it gets.  An outcome is the verdict, "ok", "retry" or        *)
(* "permanent" (retry.ErrNoRetry), and, for the properties, what is to     *)
(* blame: the job, the endpoint's answer, the resolver, or passing trouble.*)
(***************************************************************************)
EXTENDS Integers

CONSTANTS
  MaxRedirects,  \* Config.MaxRedirects
  AllowPrivate   \* Config.AllowPrivateNetworks

ASSUME WebhookAssumption == MaxRedirects \in Nat /\ AllowPrivate \in BOOLEAN

\* metadata.url.  A host is a name or a literal address, public or private.
URL == [text     : {"missing", "malformed", "parses"},
        scheme   : {"http", "https", "ftp"},
        userinfo : BOOLEAN,
        host     : {"", "localhost", "public", "private", "name"}]

\* What the resolver answers: that it failed, or some addresses.
Lookups == [failed : BOOLEAN, addrs : SUBSET {"public", "private"}]

validateAddr(a) == AllowPrivate \/ a = "public"

validateURL(u, lookup) ==
  /\ u.scheme \in {"http", "https"}
  /\ ~u.userinfo
  /\ u.host \notin {"", "localhost"}
  /\ IF u.host = "name"
     THEN ~lookup.failed /\ lookup.addrs # {} /\ \A a \in lookup.addrs : validateAddr(a)
     ELSE validateAddr(u.host)

\* client.Do.  The endpoint redirects hops times before it answers with status,
\* 0 for a request that fails, and redirect number refused leads where
\* validateURL says no.  CheckRedirect sees len(via) = k at redirect k, and the
\* one it does not follow is itself the answer.
Do(hops, refused, status) ==
  LET Follows(k) == k < MaxRedirects
      stop == {k \in 1..hops : ~Follows(k) \/ k = refused}
  IN IF stop = {} THEN status
     ELSE IF \E k \in stop : ~Follows(k) /\ (\A i \in stop : k <= i) THEN 302 ELSE 0

\* Mutant: a status that asks for patience is a client error like the others.
WorthRetryFrom500(status) == status >= 500

\* The statuses of a failure that may pass.
WorthRetry(status) == status \in {408, 429} \/ status >= 500

StatusVerdict(status) ==
  IF status \in 200..299 THEN "ok"
  ELSE IF status = 0 \/ WorthRetry(status) THEN "retry" ELSE "permanent"

Statuses == {0, 200, 404, 408, 429, 500}

\* Handler: nothing is sent unless the URL and the method pass.  The body can
\* always be marshalled, as any payload can.
WebhookHandler(u, lookup, method, status) ==
  IF \/ u.text # "parses"
     \/ ~validateURL(u, lookup)
     \/ method \notin {"", "POST", "PUT", "PATCH"}
  THEN "permanent" ELSE StatusVerdict(status)

\* A job that some endpoint could accept: nothing in it is wrong, whatever the
\* resolver and the endpoint say on the day.
WebhookSound(u, method) ==
  /\ u.text = "parses" /\ ~u.userinfo /\ method # "GET"
  /\ <<u.scheme, u.host>> \in {"http", "https"} \X
       ({"public", "name"} \cup IF AllowPrivate THEN {"private"} ELSE {})

\* What is to blame for a failure of a sound job.
WebhookCause(u, lookup, status) ==
  IF u.host = "name" /\ (lookup.failed \/ lookup.addrs = {}) THEN "resolver"
  ELSE IF u.host = "name" /\ "private" \in lookup.addrs /\ ~AllowPrivate THEN "endpoint"
  ELSE IF status \in {0, 408, 429, 500} THEN "trouble" ELSE "endpoint"

\* The outcomes of executing a job that is sound or is not.
WebhookOutcomes ==
  [sound \in BOOLEAN |-> {<<WebhookHandler(x.u, x.lookup, x.method, s), IF sound THEN WebhookCause(x.u, x.lookup, s) ELSE "job">> :
     x \in {y \in [u : URL, lookup : Lookups, method : {"", "POST", "PUT", "PATCH", "GET"}] :
              WebhookSound(y.u, y.method) = sound},
     s \in {Do(hops, refused, status) : hops \in 0..(MaxRedirects + 1),
              refused \in 0..(MaxRedirects + 1), status \in Statuses}}]
=============================================================================
