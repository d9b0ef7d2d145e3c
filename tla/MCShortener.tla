---------------------------- MODULE MCShortener ----------------------------
EXTENDS Shortener, TLC

CONSTANTS r1, r2, r3, s1, s2, s3, s4, s5, s6, now, later

Symmetric == Permutations(Requests)

\* One second (or RandSeed), and two whose generators yield different strings.
OneSecond  == now :> <<s1, s2, s3, s4>>
TwoSeconds == now :> <<s1, s2, s3>> @@ later :> <<s4, s5, s6>>
=============================================================================
