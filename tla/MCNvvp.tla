------------------------------- MODULE MCNvvp -------------------------------
(* Instances of Nvvp: one annotation attribute with two values.           *)
EXTENDS Nvvp

MCNames == {"function=a", "function=b"}
=============================================================================
