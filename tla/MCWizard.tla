------------------------------ MODULE MCWizard ------------------------------
EXTENDS Wizard
CONSTANTS u1, u2

(* The second click may lose its connection once, the first may not.       *)
Tries == <<1, 2>>
=============================================================================
