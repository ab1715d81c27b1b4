-------------------------------- MODULE MCSos --------------------------------
(* Instances of Sos: a region path attribute, an iteration counter that  *)
(* triggers publication, and a timer value.                               *)
EXTENDS Sos

MCAttrs == {"function", "iteration", "time"}
MCTypeOf == [a \in MCAttrs |-> CASE a = "function" -> "string"
                                 [] a = "iteration" -> "int"
                                 [] OTHER -> "double"]
MCSnapshots == {[a \in {"function", "iteration", "time"} |->
                    CASE a = "function" -> <<"main", "solve">>
                      [] a = "iteration" -> <<1>>
                      [] OTHER -> <<5>>],
                [a \in {"iteration"} |-> <<2>>]}
=============================================================================
