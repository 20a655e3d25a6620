------------------------------- MODULE MCService -------------------------------
EXTENDS ServiceProperties, TLC
CONSTANTS s1, s2, s3, s4, k1, u1
\* The bits of s4 are set once s1 and s2 are there.
SaltBits == s1 :> {1, 2} @@ s2 :> {3, 4} @@ s3 :> {5, 6} @@ s4 :> {1, 3}
\* One that succeeds, one with a duplicate behind a good entry, one with a bad key.
Entry == <<u1, k1>>
UserUpdates == {<<Entry>>, <<Entry, Entry>>, <<Entry, <<u1, BadKey>> >>}
AllKinds == {<<5, TRUE>>, <<6, TRUE>>, <<6, FALSE>>}
Symmetry == Permutations(Conns)
=============================================================================
