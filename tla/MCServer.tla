------------------------------ MODULE MCServer ------------------------------
EXTENDS Server

R(op, k, v, x) == [op |-> op, key |-> k, value |-> v, expected |-> x, fits |-> TRUE]
B(op) == R(op, 1, 1, 0)
Put   == R("bput", 1, 2, 0)
W1 == R("awrite", 1, 3, 0)
W2 == R("awrite", 2, 4, 0)
Cas(v) == R("cas", 1, v, 1)
TooBig == [R("write", 2, 6, 0) EXCEPT !.fits = FALSE]
BadPut == [Put EXCEPT !.fits = FALSE]

MCClients == {1, 2, 3}
OneClient == {1}
MCKeySize == <<1, 3>>
MCPreload == <<1, 0>>

Singles == {R("write", 1, 7, 0), R("delete", 1, 1, 0), Cas(5), W2}

\* A batch beside other writes; batches that others interfere with; refused and repeated
\* batch calls; a compare-and-swap beside a batch whose timestamp a write has taken, and
\* beside writes of its key; more writes than there is room for.
MCPlans ==
    {<<<<B("begin"), Put, B(end)>>, <<a, b>>, <<>>>> : end \in {"commit", "abort"}, a, b \in Singles}
    \cup {<<<<B("begin"), Put, B("commit")>>, p, <<>>>> :
             p \in {<<B("commit")>>, <<B("abort"), B("begin")>>, <<B("begin"), Put, B("commit")>>}}
    \cup {<<<<B("begin"), B("commit")>>, <<W1, W2, R("write", 1, 7, 0)>>, <<>>>>}
    \cup {<<<<B("begin"), Put, B("abort")>>, <<B("commit")>>, <<>>>>}
    \cup {<<<<B("begin"), BadPut, Put, B("commit")>>, <<TooBig, W1>>, <<>>>>}
    \cup {<<<<B("begin"), Put, B("abort")>>, <<W2, W1, R("cas", 1, 5, 3)>>, <<>>>>}
    \cup {<<<<B("begin"), p, B("begin"), Put, B("commit")>>, <<>>, <<>>>> : p \in {Put, BadPut}}
    \cup {<<<<W1, R("awrite", 1, 8, 0)>>, <<Cas(5)>>, <<a>>>> : a \in {Cas(6), W2, R("adelete", 1, 1, 0)}}
    \cup {<<<<W2, W2>>, <<R("write", 2, 7, 0)>>, p>> : p \in {<<B("begin"), Put, Put, Put>>, <<W1>>}}
    \cup {<<<<B("begin"), Put, Put, B("commit")>>, <<W1>>, <<>>>>}

\* One batch and nothing else.
OneBatch == {<<<<B("begin"), Put, B("commit")>>>>}
=============================================================================
