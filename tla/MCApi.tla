------------------------------- MODULE MCApi -------------------------------
EXTENDS Api
CONSTANTS proxy, client, other, junk, key, metrics

MCKeys == {key, metrics, DefaultKey}
MCTexts == {proxy, client, other, junk}
MCParse == [t \in MCTexts |-> IF t = junk THEN None ELSE t]

All == [all |-> TRUE, addrs |-> {}]
Nothing == [all |-> FALSE, addrs |-> {}]
One(t) == [all |-> FALSE, addrs |-> {t}]
MCLocal == {One(proxy)}

MCEnvs == [prod : BOOLEAN, apiKey : {None, key}, metricsKey : {None, key, metrics},
           proxies : {{}, {Nothing}, {One(proxy)}, {One(proxy), One(other)}, {All}},
           demoKey : {None, TRUE, FALSE}]

Plain == [remote |-> client, forwardedFor |-> <<>>, realIP |-> junk, host |-> "here",
          tls |-> FALSE, proto |-> None, forwarded |-> None, hint |-> FALSE,
          forwardedHost |-> None, authorization |-> None, apiKey |-> None]

Chains == {<<>>} \cup {<<a>> : a \in MCTexts} \cup {<<a, b>> : a, b \in MCTexts}
            \cup {<<a, b, c>> : a, b, c \in MCTexts \ {junk}}

MCRequests ==
  {[Plain EXCEPT !.remote = p, !.forwardedFor = c, !.realIP = x] :
     p \in {proxy, client}, c \in Chains, x \in {other, junk}}
  \cup {[Plain EXCEPT !.remote = p, !.tls = s, !.proto = a, !.forwarded = b, !.hint = h,
                      !.forwardedHost = "there"] :
          p \in {proxy, client}, s \in BOOLEAN, a \in {None, "http", "https"},
          b \in {None, "https"}, h \in BOOLEAN}
  \cup {[Plain EXCEPT !.authorization = a, !.apiKey = k] :
          a \in {None, Malformed, DefaultKey, key, metrics}, k \in {None, key, metrics}}

MCRecords ==
  {[date |-> 1, media |-> "image", origin |-> o, url |-> "u"] : o \in {None, "o", "p"}}
  \cup {[date |-> 1, media |-> "video", origin |-> None, url |-> u] : u \in {"u", "v"}}
  \cup {[date |-> 2, media |-> "image", origin |-> "o", url |-> None]}
=============================================================================
