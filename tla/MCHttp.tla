------------------------------- MODULE MCHttp -------------------------------
(* TLC instances of HttpLifecycle: addresses are interchangeable.          *)
EXTENDS HttpLifecycle, TLC

\* SetRetry arguments: unlimited, and two retries
UnlimitedOrTwo == {-1, 2}

AddrSymmetry == Permutations(Addr)
=============================================================================
