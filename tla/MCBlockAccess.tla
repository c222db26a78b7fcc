---------------------------- MODULE MCBlockAccess ------------------------------
(***************************************************************************)
(* BlockAccess for TLC: two threads on one handle, on two handles of one   *)
(* file, or on two files.                                                  *)
(***************************************************************************)
EXTENDS BlockAccess, TLC

CONSTANTS t1, t2, h1, h2, h3, f, g

MCOpenings == {t1 :> h1 @@ t2 :> h : h \in {h1, h2, h3}}
MCFileOf == h1 :> f @@ h2 :> f @@ h3 :> g
MCKindsOf == t1 :> {"read", "write", "extend"} @@ t2 :> {"write", "extend", "getattr"}
\* For the threads that share a block: both read and write.
MCBoth == {t1 :> h1 @@ t2 :> h2}
MCReadWrite == [t \in Threads |-> {"read", "write", "extend"}]
=============================================================================
