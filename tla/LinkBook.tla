------------------------------ MODULE LinkBook ------------------------------
(***************************************************************************)
(* What the URL shortener promises, with no cache, no audit copies, no     *)
(* replica and no requests: a book of links that is only ever added to.  A *)
(* link that is promised is one the book has, a link that is followed is   *)
(* one the book has, and following it and counting it are one step.        *)
(***************************************************************************)
EXTENDS Naturals

CONSTANTS
  Keys,   \* what a link is found by: two codes may share one
  Urls,
  NoUrl   \* what an empty page has

VARIABLES
  links,     \* the URL under each key
  clicks,    \* how often each link was counted
  promised,  \* the links somebody was told he has
  followed   \* how often somebody was sent to each link

Init ==
  /\ links = [k \in Keys |-> NoUrl] /\ clicks = [k \in Keys |-> 0]
  /\ promised = {} /\ followed = [k \in Keys |-> 0]

Listed(k) == links[k] # NoUrl

\* Only an empty page is written, and only once.
Shorten(k) ==
  /\ ~Listed(k)
  /\ \E u \in Urls : links' = [links EXCEPT ![k] = u]
  /\ UNCHANGED <<clicks, promised, followed>>

\* Told too late or never: the link is there all the same.
Promise(k) ==
  /\ Listed(k)
  /\ promised' = promised \cup {[key |-> k, url |-> links[k]]}
  /\ UNCHANGED <<links, clicks, followed>>

Follow(k) ==
  /\ Listed(k)
  /\ clicks' = [clicks EXCEPT ![k] = @ + 1]
  /\ followed' = [followed EXCEPT ![k] = @ + 1]
  /\ UNCHANGED <<links, promised>>

\* Counted, and the one who asked was told of an error.
CountOnly(k) ==
  /\ Listed(k)
  /\ clicks' = [clicks EXCEPT ![k] = @ + 1]
  /\ UNCHANGED <<links, promised, followed>>

Next == \E k \in Keys : Shorten(k) \/ Promise(k) \/ Follow(k) \/ CountOnly(k)

Spec == Init /\ [][Next]_<<links, clicks, promised, followed>>
=============================================================================
