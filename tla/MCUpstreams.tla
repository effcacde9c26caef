----------------------------- MODULE MCUpstreams -----------------------------
(* A small instance of Upstreams: three dates share a bucket of one token   *)
(* and can be waiting for the limiter all at once.  The upstreams know      *)
(* something about one date only; the others get what is known of that one. *)
EXTENDS Upstreams, TLC

CONSTANTS d1, d2, d3

MCDates == {d1, d2, d3}

\* The API's picture, a video, a picture known only by the page of its article,
\* an item of another kind, and one without texts.
Items ==
  {[date |-> d1, media |-> "image", url |-> "page", hdurl |-> "asset", texts |-> TRUE],
   [date |-> d1, media |-> "video", url |-> "asset", hdurl |-> "none", texts |-> TRUE],
   [date |-> d1, media |-> "image", url |-> "asset", hdurl |-> "page", texts |-> TRUE],
   [date |-> d1, media |-> "other", url |-> "asset", hdurl |-> "none", texts |-> TRUE],
   [date |-> d1, media |-> "image", url |-> "page", hdurl |-> "asset", texts |-> FALSE]}

\* An item alone, and in a collection that begins with another day's.
MCReplies ==
  {<<i>> : i \in Items} \cup
  {<<[i EXCEPT !.date = d], i>> : i \in Items, d \in {d2, d3}}

Article1 == [title |-> d1, body |-> d1, media |-> {"image"}, linked |-> TRUE,
             texts |-> TRUE]
Players  == [Article1 EXCEPT !.media = {"image", "video"}]
Mismatched == {[Article1 EXCEPT !.body = d] : d \in {d2, d3}} \cup
              {[Article1 EXCEPT !.title = d] : d \in {d2, d3}}
Unusable == {[Article1 EXCEPT !.media = {}], [Article1 EXCEPT !.linked = FALSE]}

\* Nothing, one article, or one to pass over and another.
MCSearches ==
  {<<>>} \cup {<<a>> : a \in Mismatched \cup Unusable} \cup
  {<<a, b>> : a \in Mismatched, b \in {Article1, Players}}

Symmetry == Permutations({d2, d3})
=============================================================================
