----------------------------- MODULE UnitOfWork -----------------------------
(***************************************************************************)
(* What a SQLAlchemy session of app/db/session.py does with a row it has   *)
(* loaded and changed: its UPDATE names the columns whose value differs    *)
(* from the loaded copy, and leaves the others as the row has them now.    *)
(***************************************************************************)

\* The row after a session that loaded copy and changed it to new commits.
Flushed(row, copy, new) ==
    [f \in DOMAIN row |-> IF new[f] # copy[f] THEN new[f] ELSE row[f]]

=============================================================================
