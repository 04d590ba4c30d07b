-------------------------- MODULE MCExclusiveLease ---------------------------
(* Instances of ExclusiveLease for TLC.                                    *)
EXTENDS ExclusiveLease, TLC

CONSTANTS i1, i2, i3

\* With and without the lock, coroutines and plain functions, under exclusive
\* tokens.  The kinds left out never touch the lease: a token that allows
\* concurrent branches, and a plain function without the lock.
AllCalls == {c \in Call : c.exclusive /\ (c.sync => c.locks)}

\* Coroutines only.
AsyncCalls == {c \in Call : c.exclusive /\ ~ c.sync}

=============================================================================
