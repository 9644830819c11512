------------------------------ MODULE MC_AppSend ------------------------------
(* Model-checking instance of AppSend: two workers with two clients each. *)
EXTENDS AppSend
==============================================================================
