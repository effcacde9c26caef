------------------------------- MODULE Access -------------------------------
(***************************************************************************)
(* What decides about a request before a handler sees it, as operators on  *)
(* the environment the process was started with and on the request:        *)
(* NewApp's checks, the address of the client and the address under which  *)
(* it knows the service (httputil), and the keys (middleware).             *)
(*                                                                         *)
(* A text that stands where an address is expected has a meaning, Parse,   *)
(* which is None when net.ParseIP refuses it.  An entry of TRUSTED_PROXIES *)
(* is what it trusts: everything ("*"), an address, the addresses of a     *)
(* CIDR block, or nothing when it cannot be parsed.                        *)
(***************************************************************************)
EXTENDS Integers, Sequences

CONSTANTS Texts, Parse,   \* texts, and the address each stands for
          LocalProxies,   \* the entries for 127.0.0.1 and ::1
          Keys,
          DefaultKey,     \* "changeme"
          Malformed,      \* an Authorization header that carries no Bearer token
          None

ASSUME AccessAssumption ==
  /\ DOMAIN Parse = Texts
  /\ \A entry \in LocalProxies : ~entry.all
  /\ DefaultKey \in Keys /\ {None, Malformed} \cap Keys = {} /\ None # Malformed

Request ==
  [remote : Texts, forwardedFor : Seq(Texts), realIP : Texts, host : STRING, tls : BOOLEAN,
   proto : {None, "http", "https"}, forwarded : {None, "http", "https"}, hint : BOOLEAN,
   forwardedHost : STRING \cup {None},
   authorization : Keys \cup {None, Malformed}, apiKey : Keys \cup {None}]

-----------------------------------------------------------------------------
\* app.NewApp: an environment is [prod, apiKey, metricsKey, proxies, demoKey].
AuthKey(env) == IF env.apiKey = None THEN DefaultKey ELSE env.apiKey

MetricsKey(env) == IF env.metricsKey = None THEN AuthKey(env) ELSE env.metricsKey

HasTrustAllProxy(env) == \E entry \in env.proxies : entry.all

AllowDemoKey(env) == IF env.demoKey = None THEN ~env.prod ELSE env.demoKey

\* Mutated form: a metrics key is asked for, but not that it differs.
StartsWithAnyMetricsKey(env) ==
  env.prod => /\ AuthKey(env) # DefaultKey
              /\ env.metricsKey # None
              /\ ~HasTrustAllProxy(env)

Starts(env) ==
  env.prod => /\ AuthKey(env) # DefaultKey
              /\ env.metricsKey # None
              /\ MetricsKey(env) # AuthKey(env)
              /\ ~HasTrustAllProxy(env)

-----------------------------------------------------------------------------
(* setupRouter hands the entries on, or the default when there is none.     *)
TrustedProxies(env) == IF env.proxies = {} THEN LocalProxies ELSE env.proxies

\* httputil.isTrustedProxyIP, for the proxies of SetTrustedProxiesForRealIP.
IsTrusted(env, text) ==
  /\ Parse[text] # None
  /\ \E entry \in TrustedProxies(env) : entry.all \/ Parse[text] \in entry.addrs

Least(S) == CHOOSE i \in S : \A j \in S : i <= j
Greatest(S) == CHOOSE i \in S : \A j \in S : j <= i

(* RealIP.  forwardedFor is what Header.Get reads, the first line of        *)
(* X-Forwarded-For: of further lines nothing is seen.  forwardedForChain    *)
(* keeps the positions that can be parsed; the chain is searched from the   *)
(* right for one that is not a proxy of ours.                              *)
Chain(r) == {i \in DOMAIN r.forwardedFor : Parse[r.forwardedFor[i]] # None}

Strangers(env, r) == {i \in Chain(r) : ~IsTrusted(env, r.forwardedFor[i])}

\* Mutated form: the chain is searched from the left.
RealIPFromLeft(env, r) ==
  IF ~IsTrusted(env, r.remote) THEN r.remote
  ELSE IF Strangers(env, r) # {} THEN r.forwardedFor[Least(Strangers(env, r))]
  ELSE IF Chain(r) # {} THEN r.forwardedFor[Least(Chain(r))]
  ELSE IF Parse[r.realIP] # None THEN r.realIP
  ELSE r.remote

RealIP(env, r) ==
  IF ~IsTrusted(env, r.remote) THEN r.remote
  ELSE IF Strangers(env, r) # {} THEN r.forwardedFor[Greatest(Strangers(env, r))]
  ELSE IF Chain(r) # {} THEN r.forwardedFor[Least(Chain(r))]
  ELSE IF Parse[r.realIP] # None THEN r.realIP
  ELSE r.remote

(* detectScheme: proto is the first value of X-Forwarded-Proto, forwarded   *)
(* the proto= of the first entry of Forwarded, hint whether one of the     *)
(* other four headers says https.                                          *)
DetectScheme(env, r) ==
  CASE r.tls -> "https"
    [] ~r.tls /\ ~IsTrusted(env, r.remote) -> "http"
    [] OTHER -> IF r.proto \in {"http", "https"} THEN r.proto
                ELSE IF r.forwarded \in {"http", "https"} THEN r.forwarded
                ELSE IF r.hint THEN "https" ELSE "http"

BaseURL(env, r) ==
  [scheme |-> DetectScheme(env, r),
   host |-> IF IsTrusted(env, r.remote) /\ r.forwardedHost # None THEN r.forwardedHost
            ELSE r.host]

-----------------------------------------------------------------------------
(* readAPIKeyFromHeader: Authorization comes before X-API-Key, also when it  *)
(* is malformed; who sends neither is a demo user.                         *)
ProvidedKey(r) == IF r.authorization # None THEN r.authorization ELSE r.apiKey

IsDemo(r) == ProvidedKey(r) = None

OpensMetrics(env, r) ==
  ProvidedKey(r) \notin {Malformed, None} /\ ProvidedKey(r) = MetricsKey(env)

OpensAPI(env, r) ==
  IF IsDemo(r) THEN AllowDemoKey(env)
  ELSE ProvidedKey(r) # Malformed /\ ProvidedKey(r) = AuthKey(env)
=============================================================================
