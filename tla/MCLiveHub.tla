------------------------------ MODULE MCLiveHub ------------------------------
(* Instances of LiveHub for TLC: everything but the names of points is     *)
(* interchangeable.                                                        *)
EXTENDS LiveHub, TLC

Symmetry == Permutations(Clients) \cup Permutations(Streams)
              \cup Permutations(Conns) \cup Permutations(Names)
=============================================================================
