--------------------------------- MODULE Api ---------------------------------
(***************************************************************************)
(* The handlers of /v1/apod, /v1/apod/image and /static/apod/, and an HTTP *)
(* cache between them and whoever reads the answer: the reader's own or a  *)
(* shared one.  It keeps one answer, gives it out while it is fresh and    *)
(* asks for it anew afterwards, with its tag in If-None-Match; it is       *)
(* external and does what Cache-Control and ETag ask of it.                *)
(*                                                                         *)
(* Ages are counted in ticks while an answer is fresh.  What GetAPOD gives *)
(* (Fetch says which) and which pictures are in the directory (ImageCache) *)
(* may be different at every request.                                      *)
(***************************************************************************)
EXTENDS Access

CONSTANTS Envs,      \* environments
          Requests,  \* requests, by what Access looks at
          Records,   \* what GetAPOD may give: [date, media, origin, url]
          APODMaxAge, PictureMaxAge  \* 3600 s and 86400 s, in ticks

ASSUME ApiAssumption ==
  /\ APODMaxAge \in Nat /\ PictureMaxAge \in Nat
  /\ Requests \subseteq Request

VARIABLES
  env,    \* the environment the process was started with
  route,  \* the route of the answer the cache keeps
  copy    \* that answer: [answer, tag, maxAge, age, lag], or None

vars == <<env, route, copy>>

Init ==
  /\ env \in {e \in Envs : Starts(e)}
  /\ route \in {"/v1/apod", "/v1/apod/image", "/static/apod/"}
  /\ copy = None

-----------------------------------------------------------------------------
\* PresentAPOD gives an image the address of its picture here.
HDURL(rec) == IF rec.origin = None /\ rec.media = "image" THEN rec.url ELSE rec.origin

Link(rec) ==
  IF rec.media = "image" /\ HDURL(rec) # None THEN <<"/static/apod/", rec.date>> ELSE <<rec.url>>

Present(rec) ==
  [status |-> 200, date |-> rec.date, link |-> Link(rec), hdurl |-> HDURL(rec)]

\* Mutated form: the tag is made of the date alone.
BuildDateTag(answer) == <<answer.date>>

BuildETag(answer) == <<answer.date, answer.link>>

Status(code) == [status |-> code, date |-> None, link |-> None, hdurl |-> None]

\* lag: how long ago the service last answered this, or would have.
Stored(answer, tag, maxAge) ==
  [answer |-> answer, tag |-> tag, maxAge |-> maxAge, age |-> 0, lag |-> 0]

SameLink(a, b) == a.status = b.status /\ a.date = b.date /\ a.link = b.link

(* 304: the cache goes on with what it has, for another max-age.            *)
Revalidated(answer) ==
  [copy EXCEPT !.age = 0, !.lag = IF SameLink(copy.answer, answer) THEN 0 ELSE @]

\* apodHandler sets Cache-Control before it knows the outcome.
APODHandler(ifNoneMatch) ==
  /\ route = "/v1/apod"
  /\ \/ \E code \in {400, 502} : copy' = Stored(Status(code), None, APODMaxAge)
     \/ \E rec \in Records :
          LET answer == Present(rec)
              tag == BuildETag(answer)
          IN  copy' = IF ifNoneMatch # None /\ ifNoneMatch = tag THEN Revalidated(answer)
                      ELSE Stored(answer, tag, APODMaxAge)

\* imageRedirectHandler sets it when there is something to redirect to.
ImageRedirectHandler ==
  /\ route = "/v1/apod/image"
  /\ \/ copy' = None
     \/ \E rec \in Records :
          copy' = IF rec.media # "image" THEN None
                  ELSE Stored([Status(302) EXCEPT !.link = <<"/static/apod/", rec.date>>],
                              None, PictureMaxAge)

\* staticImageHandler sets it before it has looked for the picture.
StaticImageHandler ==
  /\ route = "/static/apod/"
  /\ \E code \in {200, 404} : copy' = Stored(Status(code), None, PictureMaxAge)

Fresh == copy # None /\ copy.age < copy.maxAge

(* A request the cache passes on: pictures are public, the others need a    *)
(* key or the demo (a refusal tells the cache nothing).                    *)
Ask ==
  /\ ~Fresh
  /\ route = "/static/apod/" \/ ~\A r \in Requests : ~OpensAPI(env, r)
  /\ \/ APODHandler(IF copy = None THEN None ELSE copy.tag)
     \/ ImageRedirectHandler
     \/ StaticImageHandler
  /\ UNCHANGED <<env, route>>

Tick ==
  /\ Fresh
  /\ copy' = [copy EXCEPT !.age = @ + 1, !.lag = @ + 1]
  /\ UNCHANGED <<env, route>>

Next == Ask \/ Tick

Spec == Init /\ [][Next]_vars

-----------------------------------------------------------------------------
(* What the cache gives out, the status, the day and the link of it, the    *)
(* service would have answered at some moment of the last max-age: neither *)
(* 304 nor an error that is cached makes it older.  (Of the other fields   *)
(* this is not true: the tag does not cover them.)                         *)
StaleAtMostMaxAge == Fresh => copy.lag <= copy.age

\* The same request without its forwarding headers.
Bare(r) ==
  [r EXCEPT !.forwardedFor = <<>>, !.realIP = r.remote, !.proto = None, !.forwarded = None,
            !.hint = FALSE, !.forwardedHost = None]

\* The same request with what came before position k of the chain left out.
From(r, k) == [r EXCEPT !.forwardedFor = SubSeq(@, k, Len(@))]

(* The client's address, to which demo requests are charged, is decided by   *)
(* the nearest hop that is not a proxy of ours: what stood in the headers  *)
(* before it does not matter, and nothing in the headers does when the     *)
(* request comes from elsewhere.                                           *)
FarHopsDoNotMatter ==
  \A r \in Requests :
    /\ ~IsTrusted(env, r.remote) =>
         RealIP(env, r) = RealIP(env, Bare(r)) /\ BaseURL(env, r) = BaseURL(env, Bare(r))
    /\ \A k \in 1..Len(r.forwardedFor) :
         Strangers(env, From(r, k)) # {} => RealIP(env, From(r, k)) = RealIP(env, r)

(* In production what NewApp checks and what the middleware does with it    *)
(* fit: no request opens both the API and the metrics, the default key     *)
(* opens nothing of the API, only an explicit setting lets in a request    *)
(* without a key, and a text that is no proxy's address is not trusted.    *)
ProductionKeepsApart ==
  env.prod => \A r \in Requests :
    /\ ~(OpensAPI(env, r) /\ OpensMetrics(env, r))
    /\ r.authorization = DefaultKey => ~OpensAPI(env, r)
    /\ OpensAPI(env, r) /\ IsDemo(r) => env.demoKey = TRUE
    /\ IsTrusted(env, r.remote) => \E entry \in TrustedProxies(env) : Parse[r.remote] \in entry.addrs
=============================================================================
