----------------------------- MODULE MCPortQueue -----------------------------
(* Instances of PortQueue for TLC: five items, two of them interchangeable *)
(* transports, on a queue of two slots.                                    *)
EXTENDS PortQueue, TLC

CONSTANTS t1, t2, r1, p1, p2

MCItems == {t1, t2, r1, p1, p2}
MCReservers == {t1, t2}
MCReturning == {r1}
MCPlain == {r1, p1, p2}
MCSymmetry == Permutations({t1, t2}) \union Permutations({p1, p2})
=============================================================================
