------------------------------ MODULE PathTree ------------------------------
(* A registry of the resources a device shows to the server: a function on    *)
(* paths that only grows, one path at a time; what a path was given is never  *)
(* changed.  It says how the registry may change.  Which path and which       *)
(* resource a call adds is for the modules that use it to say.                *)
CONSTANTS Paths, Resources

VARIABLE tree

TreeTypeOK == DOMAIN tree \subseteq Paths /\ \A p \in DOMAIN tree : tree[p] \in Resources

Init == tree = [p \in {} |-> CHOOSE r \in Resources : TRUE]

Add(path, resource) ==
    /\ path \notin DOMAIN tree
    /\ tree' = [p \in DOMAIN tree \cup {path} |-> IF p = path THEN resource ELSE tree[p]]

Next == \E path \in Paths, resource \in Resources : Add(path, resource)

Spec == Init /\ [][Next]_tree
=============================================================================
