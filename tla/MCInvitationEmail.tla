------------------------- MODULE MCInvitationEmail -------------------------
(* Instances of InvitationEmail for model checking. *)
EXTENDS InvitationEmail

\* The backoff doubles with every attempt up to a limit.
Doubling(n) == IF n = 1 THEN 1 ELSE 2

\* No Retry-After, and one longer than the backoff.
Asked == {0, 3}

============================================================================
