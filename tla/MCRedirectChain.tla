-------------------------- MODULE MCRedirectChain --------------------------
(* Small instances of RedirectChain for TLC.                               *)
EXTENDS RedirectChain, TLC

CONSTANTS a, b, w1, w2

Asking(method, url, hand, max) ==
    [hop |-> [method |-> method, url |-> url,
              options |-> [body |-> TRUE, option |-> TRUE, header |-> hand,
                           cookie |-> hand]],
     max_redirects |-> max]

\* A request with a body and every credential, and one whose method and body
\* only a 303 changes and that leaves its cookies to the jar.
Post(max) == Asking("POST", a, TRUE, max)
Put(max) == Asking("PUT", b, FALSE, max)

\* One may go two hops, enough to leave an origin and return; the other one
\* hop, none at all, or the negative limit that means 20 without a jar.
MCCalls ==
    {(w1 :> first) @@ (w2 :> second) :
       <<first, second>> \in
         {<<Post(2), Put(1)>>, <<Put(2), Post(1)>>, <<Post(2), Put(0)>>,
          <<Post(-1), Put(2)>>}}
=============================================================================
