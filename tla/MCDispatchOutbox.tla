-------------------------- MODULE MCDispatchOutbox --------------------------
(* Small instances of DispatchOutbox for TLC: what producers enqueue.      *)
EXTENDS DispatchOutbox, TLC

Request(key, ack, max, life) == [key |-> key, ack |-> ack, max |-> max, life |-> life]

\* Two attempts: an acknowledged row without deadline, a plain one with it.
AckOrPlain == {Request(NoKey, TRUE, 2, Never), Request(NoKey, FALSE, 2, 1)}

\* No attempt allowed, and two, with a deadline and with acknowledgement.
Mixed == {Request("k", FALSE, 2, 1), Request("j", TRUE, 2, Never), Request("i", FALSE, 0, Never)}

\* Scanners differ in nothing, nor do rows.
Symmetry == Permutations(Scanners) \cup Permutations(Rows)
=============================================================================
