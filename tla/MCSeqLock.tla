------------------------------ MODULE MCSeqLock ------------------------------
(***************************************************************************)
(* Instances of SeqLock for TLC.                                           *)
(***************************************************************************)
EXTENDS SeqLock

\* A mix of two of them is none of them.
MCInstants == {<<0, 1>>, <<1, 0>>, <<2, 2>>}

MCStart == <<0, 1>>
=============================================================================
