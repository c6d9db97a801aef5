----------------------------- MODULE MCNativeDex -----------------------------
(* Instances of NativeDex for TLC. *)
EXTENDS NativeDex, TLC

CONSTANTS x1, x2, pool, dA, dB, dLP, c1, c2

MCCreator == (dA :> x1) @@ (dB :> x1) @@ (dLP :> pool)
MCTokenA == pool :> dA
MCTokenB == pool :> dB
MCLpOf == pool :> dLP
Symmetric == Permutations({c1, c2})

(* integer_sqrt as the code computes it, by Newton's method.  The first    *)
(* step is (n + 1) / 2, and n / n is 1.                                    *)
integer_sqrt(n) ==
  LET loop[x \in 1 .. n] ==
        LET y == (x + n \div x) \div 2 IN IF y < x THEN loop[y] ELSE x
  IN  IF n = 0 THEN 0 ELSE loop[n]

ASSUME NewtonFindsRoots == \A n \in 0 .. Word - 2 : integer_sqrt(n) = Isqrt(n)
=============================================================================
