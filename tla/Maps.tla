-------------------------------- MODULE Maps --------------------------------
(***************************************************************************)
(* A map of the code (std::unordered_map, the keys of a type in the        *)
(* database) is a function.                                                *)
(***************************************************************************)

(* The map after map[key] = value.                                         *)
With(map, key, value) ==
    [k \in DOMAIN map \union {key} |-> IF k = key THEN value ELSE map[k]]
=============================================================================
