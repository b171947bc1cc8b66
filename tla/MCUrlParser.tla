------------------------------ MODULE MCUrlParser ------------------------------
(* Bounds on the fields for TLC: hosts of up to five characters, which is enough  *)
(* for user information, host and port, or for an address in brackets with one of *)
(* them; a character for each other field, which is treated alike however long.   *)
EXTENDS UrlParser

Bounds == [f \in {"UF_SCHEMA", "UF_HOST", "UF_PATH", "UF_QUERY", "UF_FRAGMENT"} |->
             IF f = "UF_HOST" THEN 5 ELSE 1]
===============================================================================
