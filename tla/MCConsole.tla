------------------------------ MODULE MCConsole ------------------------------
(***************************************************************************)
(* An instance of Console for TLC.                                         *)
(***************************************************************************)
EXTENDS Console

CONSTANTS r1, r2

TwoReaders == {r1, r2}

Use(readers, lens, caseKeys) == [readers |-> readers, lens |-> lens, caseKeys |-> caseKeys]

\* One reader and every key, or two readers and no keys that change the case.
OneOrTwo == {Use({r1}, 0 .. 2, TRUE), Use(TwoReaders, {1}, FALSE)}

=============================================================================
