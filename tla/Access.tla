------------------------------- MODULE Access -------------------------------
(***************************************************************************)
(* Who may use the dashboard: the authorize hook with its default           *)
(* credentials, the two guards (one for the JSON routes, one for pages) and *)
(* the signed session cookie of `dashboardAuth`.  A cookie is the key it    *)
(* was signed with and its two times; the signature itself is not           *)
(* modelled, a cookie that was not minted here carries the key 0.           *)
(***************************************************************************)
EXTENDS Integers, Sequences, FiniteSets

CONSTANTS Setups,    \* configurations of the dashboard, one per behaviour
          Ttl,       \* lifetime of a session
          Grace,     \* EXP_GRACE_MS
          MaxTime,   \* bound on the clock
          MaxKey     \* bound: keys the deployments of a behaviour sign with

ASSUME AccessAssumption ==
  Ttl \in Nat \ {0} /\ Grace \in Nat /\ MaxTime \in Nat /\ MaxKey \in Nat \ {0}

VARIABLES setup,     \* the resolved configuration
          key,       \* the secret of the running deployment
          time,
          jar,       \* the cookie the browser holds
          warned,    \* the login hook's throw was reported
          signIns    \* history: key -> time of the last sign-in the hook accepted, or -1

accessVars == <<setup, key, time, jar, warned, signIns>>

NoCookie == [key |-> 0, iat |-> 0, exp |-> -1]

AccessInit ==
  /\ setup \in Setups
  /\ key = 1 /\ time = 0 /\ jar = NoCookie /\ warned = FALSE
  /\ signIns = [k \in 1..MaxKey |-> -1]

-----------------------------------------------------------------------------
(* The authorize hook                                                      *)

Credential == {"none", "token", "basic", "wrong"}
\* What a host's own hook may do; the default one only allows or denies.
Verdict == {"allow", "deny", "unauthenticated", "forbidden", "throws", "redirects", "answers"}

DefaultAuthorize(cred) ==
  \/ cred = "token" /\ setup.token
  \/ cred = "basic" /\ setup.basic
  \/ ~setup.production

\* withCredentialStatus(): the default hook's denial says whether a credential was presented.
Authorize(cred, own) ==
  IF setup.hook = "custom" THEN own
  ELSE IF DefaultAuthorize(cred) THEN "allow"
  ELSE IF cred = "none" THEN "unauthenticated" ELSE "forbidden"

RunGuard(verdict) ==
  CASE verdict = "allow" -> 200 [] verdict = "unauthenticated" -> 401 [] OTHER -> 403

Reply(status, body) == [status |-> status, body |-> body, place |-> "none"]
ReplyTo(status, body, place) == [status |-> status, body |-> body, place |-> place]

\* enforceGuard(): what the hook redirected to stands, a body it sent is overwritten.
GuardReply(verdict) ==
  IF verdict = "redirects" THEN Reply(302, "host") ELSE Reply(RunGuard(verdict), "error")

\* enforcePageGuard() with resolveAccessDeniedPage(): a renderer may return a page, answer
\* itself, or return nothing and get the default page.
PageGuardReply(verdict, rendered) ==
  IF verdict = "redirects" THEN Reply(302, "host")
  ELSE IF verdict = "answers" THEN Reply(200, "host")
  ELSE IF setup.denied = "renderer" /\ rendered = "answers" THEN Reply(302, "host")
  ELSE Reply(RunGuard(verdict), "denied_page")

-----------------------------------------------------------------------------
(* The session cookie                                                      *)

SignSessionCookie == [key |-> key, iat |-> time, exp |-> time + Ttl]

\* Mutant: the signature is compared with nothing.
VerifyUnsigned(cookie) == time <= cookie.exp + Grace

\* verifySessionCookie()
VerifySessionCookie(cookie) == cookie.key = key /\ time <= cookie.exp + Grace

\* decideDashboardAuth()
DecideDashboardAuth(cookie, mode) ==
  IF ~setup.session \/ VerifySessionCookie(cookie) THEN "allow"
  ELSE IF mode = "page" THEN "redirect" ELSE "unauthorized"

\* Where a browser asks to be sent back to: the base path, a page, a target that begins with two
\* slashes, one with a scheme, a path that holds one further on, a path whose first slash is
\* followed by a backslash.
Place == {"base", "page", "two_slashes", "absolute", "nested", "backslash"}

StartsWithSlash == Place \ {"absolute"}
StartsWithTwo == {"two_slashes"}
HoldsScheme == {"absolute", "nested"}

\* Mutant: a path that begins with two slashes is kept.
SanitizeOnce(place) == IF place \in StartsWithSlash \ HoldsScheme THEN place ELSE "base"

\* sanitizeReturnTo(): what begins with exactly one slash and holds no scheme is kept as it is.
SanitizeReturnTo(place) ==
  IF place \in StartsWithSlash \ (StartsWithTwo \cup HoldsScheme) THEN place ELSE "base"

\* enforceDashboardAuth()
AuthReply(mode, place) ==
  IF mode = "page" THEN ReplyTo(302, "login", place) ELSE Reply(401, "error")

-----------------------------------------------------------------------------
(* Time, a new deployment, and a jar the browser lost or never earned       *)

Tick == time < MaxTime /\ time' = time + 1 /\ UNCHANGED <<setup, key, jar, warned, signIns>>

Redeploy ==
  /\ key < MaxKey /\ key' = key + 1 /\ warned' = FALSE
  /\ UNCHANGED <<setup, time, jar, signIns>>

\* The browser drops a cookie at its max-age, or presents one that was not minted here.
JarChanges ==
  \/ time >= jar.exp /\ jar' = NoCookie /\ jar # NoCookie
     /\ UNCHANGED <<setup, key, time, warned, signIns>>
  \/ jar' = [key |-> 0, iat |-> time, exp |-> time + Ttl] /\ jar' # jar
     /\ UNCHANGED <<setup, key, time, warned, signIns>>

AccessMoves == Tick \/ Redeploy \/ JarChanges
=============================================================================
