------------------------------ MODULE MCMessages ------------------------------
\* Who sends which message.
EXTENDS Messages

CONSTANTS a, b,       \* threads
          k1, k2, k3  \* messages

\* k1 and k3 go from a to b, k2 from b to a.
Across   == (k1 :> a) @@ (k2 :> b) @@ (k3 :> a)
AcrossTo == (k1 :> b) @@ (k2 :> a) @@ (k3 :> b)
=============================================================================
