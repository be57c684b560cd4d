--------------------------- MODULE MCResourceTree ---------------------------
(* Routes for TLC: well-formed ones of two objects, two instances and two     *)
(* resources, instances spelled in other ways, and malformed routes.          *)
EXTENDS ResourceTree, TLC

Plain == {"led", "btn"} \X {"0", "1"} \X {"value"}
MCPlainRoutes == Plain \cup {<<"led", "0", "blink">>, <<"led", "1", "blink">>}
MCRoutes == MCPlainRoutes \cup
    {<<"led", "01", "value">>, <<"btn", "1x", "blink">>,
     <<"led", "x", "value">>, <<"led", "0">>, <<"led">>, <<"led", "0", "value", "0">>}
MCDigits == {"0", "1", "01", "1x"}
MCAtoi == [p \in MCDigits |-> IF p = "0" THEN 0 ELSE 1]
MCDecimal == <<"1", "2", "3", "4">> @@ 0 :> "0"
=============================================================================
