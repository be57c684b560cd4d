-------------------------- MODULE MCSimpleM2MClient --------------------------
(* An application that adds a variable whose callback fits its operations,    *)
(* one whose callback does not, and by mistake the path of "unregister".      *)
EXTENDS SimpleM2MClient

Resource3(o, i, r, ops, cb) ==
    [object |-> o, instance |-> i, resource |-> r, operations |-> ops, callback |-> cb]

MCCalls == {Resource3(3200, 0, 5501, {"GET", "PUT"}, "updated"),
            Resource3(3200, 1, 5501, {"GET"}, "updated"),
            Resource3(5000, 0, 1, {"GET"}, "none")}

MCBuilds == {b \in Build : b.resetFirmware = b.resetStorage}
=============================================================================
