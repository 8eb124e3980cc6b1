------------------------------ MODULE StatusOr ------------------------------
(* absl::StatusOr: Ok(v), or Err when it makes no difference which error.  *)

Ok(v) == [ok |-> TRUE, value |-> v]
Err == [ok |-> FALSE]

\* RETURN_IF_ERROR over the elements of a repeated field: all or nothing.
AllOk(s) ==
  IF \A j \in DOMAIN s : s[j].ok THEN Ok([j \in DOMAIN s |-> s[j].value]) ELSE Err

OkIf(condition, v) == IF condition THEN Ok(v) ELSE Err
=============================================================================
