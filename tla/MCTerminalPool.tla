--------------------------- MODULE MCTerminalPool ---------------------------
(* Small instances of TerminalPool for TLC: two workers, one or two         *)
(* terminals in the pool, and two accounts whose server prefers the first. *)
EXTENDS TerminalPool, TLC

CONSTANTS w1, w2, t1, t2, a1, a2

BothPreferFirst == a1 :> t1 @@ a2 :> t1
Pool == <<t1, t2>>
OnePool == <<t1>>

Sym == Permutations(Workers) \cup Permutations(Accounts)
=============================================================================
