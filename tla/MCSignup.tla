------------------------------ MODULE MCSignup ------------------------------
(* Bounded instances of Signup. *)
EXTENDS Signup, TLC

\* Requests of one kind, names and captchas are interchangeable.
Renamings == Permutations(Form) \cup Permutations(Crack) \cup Permutations(Captcha)
=============================================================================
