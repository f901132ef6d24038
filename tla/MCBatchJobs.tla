---------------------------- MODULE MCBatchJobs ----------------------------
(* Model checking instances of BatchJobs. *)
EXTENDS BatchJobs

CONSTANTS u1, k1, k2, url1, url2, bad, both, auto, blank, c1, c2, w1, w2

Want(url, code) == [url |-> url, code |-> code]

\* `both' is url1, a bar, and the text of the refused url: the joined text of a
\* batch of the two is the joined text of `both' alone.
MCPieces == both :> <<url1, bad>> @@ [x \in {url1, url2, bad} |-> <<x>>]
MCRank == url1 :> 1 @@ both :> 2 @@ bad :> 3 @@ url2 :> 4

\* A batch that can succeed, the same url with a code of its own, one with an
\* unreadable row and a refused url, and a url that makes up the same text.
MCRequests == { <<Want(url1, auto)>>, <<Want(url1, k1)>>, <<Want(both, auto)>>,
                <<Want(url1, k1), Want(blank, auto), Want(bad, auto)>> }

\* Bound: the other code and the other url come from one caller, when the text
\* has its job; who inserts it first is explored with two submissions of one batch.
MCTwins == { <<Want(url1, k1)>>, <<Want(both, auto)>> }
MCTwinsLater ==
    \A c \in Callers : caller[c].at = "idle" /\ caller'[c].batch \in MCTwins =>
        c = c2 /\ Under(CallKey(c)') # {}

\* Two different batches that succeed.
MCTwoRequests == { <<Want(url1, auto)>>, <<Want(url2, auto)>> }
=============================================================================
